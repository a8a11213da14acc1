SPECIFICATION Spec
CONSTANTS
  Object = {v1, v2}
  Address = {a1, a2, a3}
  Data = {d1, d2}
  SmallSize = 2
  MaxSize = 3
  Junk = junk
  Null = null
SYMMETRY Permuted
INVARIANTS ReadsAsPlainVector OwnedOnce
PROPERTIES OutOfStepOnlyByCopy
CHECK_DEADLOCK FALSE
