\* Three threads contend for two nodes.
SPECIFICATION Spec
CONSTANTS
  Thread = {t1, t2, t3}
  Slot = {s1, s2}
  Cell = {c1}
  NoCell = NoCell
  N = 2
  RetainedLinks = FALSE
  MaxCount = 6
SYMMETRY Symmetry
INVARIANTS
  TypeOK
  CountsExact
  FreeListIntact
  AllocatedExclusive
PROPERTIES
  FreeLinksStable
  EmptyMeansUsed
