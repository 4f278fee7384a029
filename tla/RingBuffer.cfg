\* Three bytes of memory: every batch size, every wrap-around.
SPECIFICATION Spec
CONSTANTS
  Byte = {0, 1}
  Length = 3
INVARIANTS
  TypeOK
  ChunksDisjoint
PROPERTY
  ImplementsFifo
