SPECIFICATION FairSpec
CONSTANTS
  mm = mm  init = init  a = a
  c1 = c1  c2 = c2  c3 = c3  c4 = c4  c5 = c5
  NoCap = NoCap
  Task <- MCTask
  Self = mm
  InitTask = init
  Client = {a}
  OwnLevels = {0}
  Cap <- Caps5
  BootVa <- NoBoot
  MaxPage = 1
  PageSize <- TwoLevels
  UserEnd = 20
  RandomBase = 4
  DefaultStack = 4
  DefaultTotal = 12
  SelfStack = 1
  SelfGrow = 1
  AttachArgs <- StackAttach
  VaArgs = {0}
INVARIANTS
  TypeOK
  StackBacked
  QuotaOvershoot

  
CHECK_DEADLOCK FALSE
