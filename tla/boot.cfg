SPECIFICATION Spec
INVARIANTS
  NoCircle
  InOrder
PROPERTIES
  Boots
  ShellReturns
CHECK_DEADLOCK FALSE
