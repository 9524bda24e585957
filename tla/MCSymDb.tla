------------------------------- MODULE MCSymDb -------------------------------
(* Model constants for SymDb. *)
EXTENDS SymDb, TLC

CONSTANTS c1, c2, f1, i1, i2, i3, i4, i5

\* One thread inserts, as one fetch per file is running at a time.
OneInserter == [f \in Files |-> {c1}]

\* A fetch and a drag-and-drop ingestion of the same executable.
TwoInserters == [f \in Files |-> {c1, c2}]

TreeSymmetry == Permutations(Trees)
InodeSymmetry == Permutations(Inodes)
DataSymmetry == TreeSymmetry \cup InodeSymmetry
=============================================================================
