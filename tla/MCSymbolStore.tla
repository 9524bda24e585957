---------------------------- MODULE MCSymbolStore ----------------------------
(* Model constants for SymbolStore. *)
EXTENDS SymbolStore, TLC

CONSTANTS f1, s1, s2, r1, a1

StoreSymmetry == Permutations(Slots) \cup Permutations(Inodes)
=============================================================================
