--------------------------- MODULE MCReclamation ----------------------------
(* Instances of ReclamationClient for TLC.                                 *)
EXTENDS ReclamationClient, TLC

\* Threads, slots and cells are interchangeable.
Symmetry ==
  Permutations(Thread) \cup Permutations(Slot) \cup Permutations(Cell)
=============================================================================
