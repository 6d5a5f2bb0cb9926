SPECIFICATION Spec
CONSTANTS
  e1 = e1
  p1 = p1
  p2 = p2
  p3 = p3
  none = none
  Pools = {e1, p1, p2, p3}
  ElysPools = {e1}
  NoPool = none
  Inputs <- DefaultInputs
  Parts = 100
  MaxIterations = 20
INVARIANT ErrorsAreJustified
