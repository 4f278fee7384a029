\* Retained links, on a pool that runs out of nodes.
SPECIFICATION Spec
CONSTANTS
  Thread = {t1, t2}
  Slot = {s1, s2}
  Cell = {c1}
  NoCell = NoCell
  N = 2
  RetainedLinks = TRUE
  MaxCount = 6
SYMMETRY Symmetry
INVARIANTS
  HeldNotReclaimed
  CountsSuffice
