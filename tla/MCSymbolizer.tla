---------------------------- MODULE MCSymbolizer ----------------------------
(* Model constants for Symbolizer. *)
EXTENDS Symbolizer, TLC

CONSTANTS f1, f2, s1, s2, a1

\* Files are not interchangeable: the user drops only some of them.
SlotSymmetry == Permutations(Slots)
=============================================================================
