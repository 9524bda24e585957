----------------------------- MODULE CachedTable -----------------------------
(***************************************************************************)
(* A typed table of devfiler (storage/table.rs): a RocksDB column of its   *)
(* own and, in front of it, an LRU cache behind a mutex.  Every operation  *)
(* holds the mutex only around its cache access and touches the database   *)
(* outside of it, so an operation is two or three atomic steps and the     *)
(* threads of the collector, the symbolizer and the UI interleave between  *)
(* them.                                                                   *)
(*                                                                         *)
(*   insert   cache.put ; db.put                                           *)
(*   get      cache.get -> hit, or db.get -> None, or cache.put            *)
(*   remove   cache.pop ; db.delete                                        *)
(*   commit   db.write (atomic) ; cache.clear                              *)
(*   flush    Db::flush_events for this table: iterate, remove each key    *)
(*                                                                         *)
(* Values are opaque.  Which entry a full cache evicts is left open: no    *)
(* property here depends on the LRU order.                                 *)
(***************************************************************************)
EXTENDS Naturals, FiniteSets

CONSTANTS
    Clients,    \* threads that call the table
    Keys,
    Values,
    NoVal,      \* no value: an absent key, an empty cache slot
    Capacity,   \* CACHE_SIZE; 0 disables the cache
    Writable,   \* Writable[k]: the values the callers ever write at key k
    Ops         \* the operations the callers of this table use

AllOps == {"insert", "get", "remove", "commit", "flush"}

ASSUME TableAssumption ==
    /\ Keys # {}
    /\ NoVal \notin Values
    /\ Capacity \in Nat
    /\ Writable \in [Keys -> SUBSET Values]
    /\ Ops \subseteq AllOps
    /\ IsFiniteSet(Keys)

VARIABLES
    db,      \* the RocksDB column
    cache,   \* cache[k]: the cached value of key k, NoVal if not cached
    pc,      \* pc[c]: where client c stands inside its operation
    key,     \* key[c]: the key argument of that operation
    val,     \* val[c]: the value it carries from one step to the next
    todo,    \* todo[c]: the keys the iterator of a flush has still to yield
    ret      \* ret[c]: what the last get of client c returned

vars == <<db, cache, pc, key, val, todo, ret>>
local == <<pc, key, val, todo>>

Maybe == Values \cup {NoVal}
Allowed(k) == Writable[k] \cup {NoVal}

\* Types, and what a program counter says about the locals it goes with: only
\* a value is carried to the cache or the database, and a flush that has
\* not ended has keys left to remove.
TypeOK ==
    /\ db \in [Keys -> Maybe]
    /\ cache \in [Keys -> Maybe]
    /\ pc \in [Clients -> {"idle", "put", "read", "fill", "delete", "clear",
                           "flush"}]
    /\ key \in [Clients -> Keys]
    /\ val \in [Clients -> Maybe]
    /\ todo \in [Clients -> SUBSET Keys]
    /\ ret \in [Clients -> Maybe]
    /\ \A c \in Clients :
          /\ pc[c] \in {"put", "fill"} => val[c] # NoVal
          /\ pc[c] = "flush" => todo[c] # {}
          /\ todo[c] # {} => pc[c] \in {"flush", "delete"}

-----------------------------------------------------------------------------
(* The cache.                                                              *)

Cached == {k \in Keys : cache[k] # NoVal}
Empty == [k \in Keys |-> NoVal]

\* What cache.put may push out: nothing while there is room or when the key
\* is already cached, otherwise one entry.
Victims(k) == IF k \in Cached \/ Cardinality(Cached) < Capacity
              THEN {{}} ELSE {{j} : j \in Cached}

\* cache.put(k, v).  With CACHE_SIZE = 0 the callers skip the cache.
CachePut(k, v) ==
    IF Capacity = 0 THEN UNCHANGED cache
    ELSE \E out \in Victims(k) :
            cache' = [j \in Keys |-> IF j = k THEN v
                                     ELSE IF j \in out THEN NoVal
                                     ELSE cache[j]]

-----------------------------------------------------------------------------
(* The operations, one action for each atomic step.                        *)

Goto(c, to) == pc' = [pc EXCEPT ![c] = to]

\* Table::insert: the cache is updated first ...
InsertCache(c, k, v) ==
    /\ "insert" \in Ops
    /\ pc[c] = "idle"
    /\ v \in Writable[k]
    /\ CachePut(k, v)
    /\ Goto(c, "put")
    /\ key' = [key EXCEPT ![c] = k]
    /\ val' = [val EXCEPT ![c] = v]
    /\ UNCHANGED <<db, todo, ret>>

\* Mutant of InsertDb: a record that exists is not replaced.
InsertDbKeeps(c) ==
    /\ pc[c] = "put"
    /\ db' = [db EXCEPT ![key[c]] = IF @ = NoVal THEN val[c] ELSE @]
    /\ Goto(c, "idle")
    /\ UNCHANGED <<cache, key, val, todo, ret>>

\* Mutant of InsertDb: the write to the database is lost.
InsertDbLost(c) ==
    /\ pc[c] = "put"
    /\ Goto(c, "idle")
    /\ UNCHANGED <<db, cache, key, val, todo, ret>>

\* ... and the database after the mutex has been released.
InsertDb(c) ==
    /\ pc[c] = "put"
    /\ db' = [db EXCEPT ![key[c]] = val[c]]
    /\ Goto(c, "idle")
    /\ UNCHANGED <<cache, key, val, todo, ret>>

\* Table::get: a hit answers from the cache ...
GetHit(c, k) ==
    /\ "get" \in Ops
    /\ pc[c] = "idle"
    /\ k \in Cached
    /\ ret' = [ret EXCEPT ![c] = cache[k]]
    /\ UNCHANGED <<db, cache, local>>

\* ... a miss goes on to the database ...
GetMiss(c, k) ==
    /\ "get" \in Ops
    /\ pc[c] = "idle"
    /\ k \notin Cached
    /\ Goto(c, "read")
    /\ key' = [key EXCEPT ![c] = k]
    /\ UNCHANGED <<db, cache, val, todo, ret>>

\* ... where an absent key is answered at once and leaves no trace in the
\* cache, and a value is carried to the cache.
GetRead(c) ==
    /\ pc[c] = "read"
    /\ IF db[key[c]] = NoVal
       THEN /\ ret' = [ret EXCEPT ![c] = NoVal]
            /\ Goto(c, "idle")
            /\ UNCHANGED val
       ELSE /\ val' = [val EXCEPT ![c] = db[key[c]]]
            /\ Goto(c, "fill")
            /\ UNCHANGED ret
    /\ UNCHANGED <<db, cache, key, todo>>

GetFill(c) ==
    /\ pc[c] = "fill"
    /\ CachePut(key[c], val[c])
    /\ ret' = [ret EXCEPT ![c] = val[c]]
    /\ Goto(c, "idle")
    /\ UNCHANGED <<db, key, val, todo>>

\* Table::remove: pop the cache entry, then delete the record.
RemoveCache(c, k) ==
    /\ cache' = [cache EXCEPT ![k] = NoVal]
    /\ Goto(c, "delete")
    /\ key' = [key EXCEPT ![c] = k]
    /\ UNCHANGED <<db, val, ret>>

Remove(c, k) ==
    /\ "remove" \in Ops
    /\ pc[c] = "idle"
    /\ RemoveCache(c, k)
    /\ UNCHANGED todo

\* The delete ends a remove; inside a flush it leads to the next key.
RemoveDb(c) ==
    /\ pc[c] = "delete"
    /\ db' = [db EXCEPT ![key[c]] = NoVal]
    /\ Goto(c, IF todo[c] = {} THEN "idle" ELSE "flush")
    /\ UNCHANGED <<cache, key, val, todo, ret>>

\* Db::flush_events: the iterator yields the keys the table held when it was
\* created, and each is removed.
FlushStart(c) ==
    /\ "flush" \in Ops
    /\ pc[c] = "idle"
    /\ db # Empty
    /\ todo' = [todo EXCEPT ![c] = {k \in Keys : db[k] # NoVal}]
    /\ Goto(c, "flush")
    /\ UNCHANGED <<db, cache, key, val, ret>>

FlushNext(c) ==
    /\ pc[c] = "flush"
    /\ \E k \in todo[c] :
          /\ todo' = [todo EXCEPT ![c] = @ \ {k}]
          /\ RemoveCache(c, k)

\* InsertionBatch::commit: one atomic write of the whole batch, then the
\* cache is emptied, since the keys of the batch are not tracked.
CommitDb(c, b) ==
    /\ "commit" \in Ops
    /\ pc[c] = "idle"
    /\ \A k \in Keys : b[k] \in Allowed(k)
    /\ db' = [k \in Keys |-> IF b[k] = NoVal THEN db[k] ELSE b[k]]
    /\ Goto(c, "clear")
    /\ UNCHANGED <<cache, key, val, todo, ret>>

\* Mutant of CommitClear: the cache survives a batch.
CommitKeepsCache(c) ==
    /\ pc[c] = "clear"
    /\ Goto(c, "idle")
    /\ UNCHANGED <<db, cache, key, val, todo, ret>>

CommitClear(c) ==
    /\ pc[c] = "clear"
    /\ cache' = Empty
    /\ Goto(c, "idle")
    /\ UNCHANGED <<db, key, val, todo, ret>>

\* The process dies and is started again: From<rocksdb::DB> opens the table
\* with an empty cache, and every operation in progress is gone.
Restart ==
    /\ cache' = Empty
    /\ pc' = [c \in Clients |-> "idle"]
    /\ todo' = [c \in Clients |-> {}]
    /\ UNCHANGED <<db, key, val, ret>>

-----------------------------------------------------------------------------
Init ==
    /\ db = Empty
    /\ cache = Empty
    /\ pc = [c \in Clients |-> "idle"]
    /\ key = [c \in Clients |-> CHOOSE k \in Keys : TRUE]
    /\ val = [c \in Clients |-> NoVal]
    /\ todo = [c \in Clients |-> {}]
    /\ ret = [c \in Clients |-> NoVal]

Step(c) ==
    \/ \E k \in Keys, v \in Values : InsertCache(c, k, v)
    \/ InsertDb(c)
    \/ \E k \in Keys : GetHit(c, k)
    \/ \E k \in Keys : GetMiss(c, k)
    \/ GetRead(c)
    \/ GetFill(c)
    \/ \E k \in Keys : Remove(c, k)
    \/ RemoveDb(c)
    \/ FlushStart(c)
    \/ FlushNext(c)
    \/ \E b \in [Keys -> Maybe] : CommitDb(c, b)
    \/ CommitClear(c)

Next == Restart \/ \E c \in Clients : Step(c)

Spec == Init /\ [][Next]_vars

-----------------------------------------------------------------------------
(* Properties.                                                             *)

\* The cache holds at most CACHE_SIZE entries (test_cache_lru_eviction).
CacheBound == Cardinality(Cached) <= Capacity

\* Some operation on key k has done its cache or its database half but not
\* the other one.
InProgress(k) ==
    \E c \in Clients : \/ pc[c] \in {"put", "fill", "delete"} /\ key[c] = k
                       \/ pc[c] = "clear"

\* Once no operation on a key is half way, what the cache answers for it is
\* what the database holds: a later get, a hit, sees the last write and does
\* not bring back a removed or replaced value.
CoherentAtRest ==
    \A k \in Cached : ~InProgress(k) => cache[k] = db[k]

\* To a thread that has the table for itself the two layers are one map, at
\* every step of every operation and across restarts (a get that hits
\* answers what the database holds, a batch is atomic).
Map == INSTANCE TableMap WITH kv <- db, out <- ret
IsMap == Map!Spec

\* The use pattern of stack_traces (a key is the hash of its value) until the
\* first flush: nothing is removed and a key determines its value.
AppendOnly ==
    /\ Ops \cap {"remove", "flush"} = {}
    /\ \A k \in Keys : \A v, w \in Writable[k] : v = w

\* Why an append-only table is coherent.  Database and cache only ever hold
\* what the callers write at the key ...
StoredAllowed == \A k \in Keys : db[k] \in Allowed(k) /\ cache[k] \in Allowed(k)

\* ... a cached key is in the database, or an insert is about to put it there
CachedStored ==
    \A k \in Keys : cache[k] # NoVal /\ db[k] = NoVal =>
                        \E c \in Clients : pc[c] = "put" /\ key[c] = k

\* ... and what an operation carries across its steps is still right when it
\* is used.
CarriedCurrent ==
    \A c \in Clients : /\ pc[c] \notin {"delete", "flush"}
                       /\ pc[c] = "put" => val[c] \in Writable[key[c]]
                       /\ pc[c] = "fill" => val[c] = db[key[c]]

CacheBacked == StoredAllowed /\ CachedStored /\ CarriedCurrent

\* One thread at a time, as in the tests of table.rs.
Serial == \A c, d \in Clients : c = d

\* Why a lone thread sees one map: a cached value differs from the stored one
\* only while that thread is between the two halves of the insert or the
\* commit that explains it; a key is out of the cache while it is deleted.
SerialCoherent ==
    /\ \A k \in Keys : cache[k] \notin {NoVal, db[k]} =>
          \E c \in Clients : \/ pc[c] = "put" /\ key[c] = k /\ val[c] = cache[k]
                             \/ pc[c] = "clear"
    /\ \A c \in Clients :
          /\ pc[c] = "put" => cache[key[c]] \in {NoVal, val[c]}
          /\ pc[c] = "fill" => val[c] = db[key[c]]
          /\ pc[c] = "delete" => cache[key[c]] = NoVal
    /\ Capacity = 0 => cache = Empty
=============================================================================
