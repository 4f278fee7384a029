\* The last reference to a node with a retained link is dropped by an allocator.
SPECIFICATION Spec
CONSTANTS
  Thread = {t1, t2}
  Slot = {s1, s2}
  Cell = {}
  NoCell = NoCell
  N = 3
  RetainedLinks = TRUE
  MaxCount = 6
INVARIANT
  RetainedLinkReleased
