SPECIFICATION Spec
CONSTANTS
  n1 = n1 n2 = n2 n3 = n3 i1 = i1 i2 = i2
  NULL = NULL
  Nodes = {n1, n2, n3}
  Iters = {i1, i2}
  StartAtDead = TRUE
SYMMETRY KlistSymmetry
INVARIANTS RefsAccounted ListExact ObjectsAccounted IterationComplete
PROPERTIES IterationSound
