\* The last reference to a node whose forward link the extraction by key has left.
SPECIFICATION Spec
CONSTANTS
  Thread = {t1, t2}
  Slot = {s1, s2}
  Cell = {c1}
  NoCell = NoCell
  N = 2
  RetainedLinks = FALSE
  MaxCount = 6
SYMMETRY Symmetry
INVARIANT
  NoForwardLinks
