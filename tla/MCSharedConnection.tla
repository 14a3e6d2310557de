------------------------- MODULE MCSharedConnection -------------------------
(* Instances of SharedConnection for TLC. *)
EXTENDS SharedConnection, TLC

\* Callers, and closers, are interchangeable.
Symmetry == Permutations(Clients) \cup Permutations(Closers)
=============================================================================
