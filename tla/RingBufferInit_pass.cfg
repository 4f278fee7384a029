SPECIFICATION Spec
CONSTANT Chunks = 4
INVARIANTS
  TypeOK
  CleanSuccess
PROPERTY
  Returns
