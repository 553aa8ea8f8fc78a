CONSTANTS
  Name = {1, 2}
  Ep = {e1, e2}
  Id = {i1, i2}
  Fd = {f1, f2}
  Nobody = Nobody
  Path <- Paths
SPECIFICATION Spec
INVARIANTS NoDanglingMount NearestMount HomeReached NothingMissed
SYMMETRY Symmetry
CHECK_DEADLOCK FALSE
