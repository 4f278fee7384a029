SPECIFICATION Spec
CONSTANT Chunks = 4
INVARIANT
  SuccessMeansMapped
