SPECIFICATION BootSpec
CONSTANTS
  Region <- MCRegion
  Addr <- MCAddr
  Size <- MCSize
  Requests <- MCRequests
  MemCaps <- MCMemCaps
  UsedAtBoot <- MCUsed
  DtbStart = 22
  DtbEnd = 26
  MaxPage = 2
  PageSize <- MCPageSize
  UserEnd = 48
  KiloMem = 2
  ObjectSize <- MCObject
  SelfGrow = 2
  Elves <- MCElves
  CapSpaceVa = 48
INVARIANTS
  ObjectsApart
  HeapInPlace
  HandedOver
CHECK_DEADLOCK FALSE
