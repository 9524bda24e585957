-------------------------------- MODULE Sums --------------------------------
(* The sum of w[x] for the members x of a finite set.                      *)
EXTENDS Integers, FiniteSetsExt

Total(set, w) == MapThenSumSet(LAMBDA x : w[x], set)
=============================================================================
