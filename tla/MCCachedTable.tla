---------------------------- MODULE MCCachedTable ----------------------------
(* Model constants for CachedTable. *)
EXTENDS CachedTable, TLC

CONSTANTS c1, c2, c3, k1, k2, k3, v1, v2

\* Any value at any key: the general table.
AnyValue == [k \in Keys |-> Values]

\* A key is the hash of its value, as in stack_traces.
OneValue == [k \in Keys |-> IF k = k1 THEN {v1} ELSE {v2}]

ClientSymmetry == Permutations(Clients)
ValueSymmetry == Permutations(Values)
KeySymmetry == Permutations(Keys)
=============================================================================
