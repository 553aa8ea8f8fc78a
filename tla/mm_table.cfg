SPECIFICATION Spec
CONSTANTS
  mm = mm  init = init  a = a
  c1 = c1  c2 = c2  c3 = c3  c4 = c4  c5 = c5
  NoCap = NoCap
  Task <- MCTask
  Self = mm
  InitTask = init
  Client = {init, a}
  OwnLevels = {0}
  Cap <- Caps4
  BootVa <- MCBoot
  MaxPage = 2
  PageSize <- ThreeLevels
  UserEnd = 12
  RandomBase = 2
  DefaultStack = 2
  DefaultTotal = 8
  SelfStack = 1
  SelfGrow = 1
  AttachArgs <- TableAttach
  VaArgs = {0, 3}
SYMMETRY CapSymmetry
INVARIANTS
  RegistryMatchesKernel
  NoStrayPage
  ReachablePages
  NoOverlap
  ChargedInFull
CHECK_DEADLOCK FALSE
