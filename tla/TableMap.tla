------------------------------ MODULE TableMap ------------------------------
(***************************************************************************)
(* What a typed table promises to a caller (the doc comments of Table in   *)
(* storage/table.rs): a map from keys to values.  insert replaces, get     *)
(* answers None exactly for an absent key, remove deletes, a batch is      *)
(* inserted atomically.  There is no cache and there are no intermediate   *)
(* steps; CachedTable, the code's two-layer table, is compared with this.  *)
(***************************************************************************)
CONSTANTS Clients, Keys, Values, NoVal

VARIABLES kv,    \* the map; NoVal marks an absent key
          out    \* out[c]: what the last get of client c returned

mapVars == <<kv, out>>

Init == /\ kv = [k \in Keys |-> NoVal]
        /\ out = [c \in Clients |-> NoVal]

Insert(k, v) == /\ kv' = [kv EXCEPT ![k] = v]
                /\ UNCHANGED out

Remove(k) == /\ kv' = [kv EXCEPT ![k] = NoVal]
             /\ UNCHANGED out

Get(c, k) == /\ out' = [out EXCEPT ![c] = kv[k]]
             /\ UNCHANGED kv

InsertBatch(b) ==
    /\ kv' = [k \in Keys |-> IF b[k] = NoVal THEN kv[k] ELSE b[k]]
    /\ UNCHANGED out

Next == \/ \E k \in Keys : Remove(k) \/ \E v \in Values : Insert(k, v)
        \/ \E c \in Clients, k \in Keys : Get(c, k)
        \/ \E b \in [Keys -> Values \cup {NoVal}] : InsertBatch(b)

Spec == Init /\ [][Next]_mapVars
=============================================================================
