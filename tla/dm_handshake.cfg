SPECIFICATION DmSpec
CONSTANTS
  Slots = 5
  DtbCounts = {1, 3, 7}
  DevCounts = {0, 1, 2, 5, 6}
  Base = 4
  Phys <- MCPhys
  Blobs <- MCBlobs
INVARIANTS
  CapsInOrder
  TreeRead
  DriverGetsItsDevice
  ConsoleLaunched
PROPERTIES
  Answered
  ImplementsHandshake
CHECK_DEADLOCK FALSE
