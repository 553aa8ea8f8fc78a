CONSTANTS
  Name = {n1, n2}
  Tid = {t1, t2, t3}
  Var = {1, 2, 3}
  Nobody = Nobody
SPECIFICATION Spec
INVARIANTS KnownToMm AnswersNewTask EnumeratesAll
SYMMETRY Symmetry
CHECK_DEADLOCK FALSE
