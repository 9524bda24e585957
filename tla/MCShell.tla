------------------------------ MODULE MCShell ------------------------------
(* Model constants for Shell. *)
EXTENDS Shell

CONSTANTS view, t1, t2

\* What the last second is at times 1 and 2.
SomeRanges == {<<0, 1>>, <<1, 2>>}
WholeKey == [i \in Inputs |-> i]
=============================================================================
