CONSTANTS
  Name = {1, 2}
  Path <- Paths
  Obj = {o1, o2}
  Fd = {f1, f2}
  Nobody = Nobody
  Boot <- BootFiles
  BootName = 2
  MaxSize = 3
  Lengths = {2}
  Offsets <- SomeOffsets
  Chunk = 2
SPECIFICATION Spec
INVARIANTS FoundAgain LoadedWhole
 
SYMMETRY Symmetry
CHECK_DEADLOCK FALSE
