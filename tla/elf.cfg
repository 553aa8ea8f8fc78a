CONSTANTS
  P = 3
  Programs <- TwoSegments
SPECIFICATION ElfSpec
INVARIANT ImageLoaded
CHECK_DEADLOCK FALSE
