SPECIFICATION TerminalSpec
CONSTANTS
  Typed = {"x", "C"}
  Coded = {"[", "2", "C", "D", "CR"}
  MaxSizes = {1, 2}
  MaxLine = 3
  MaxEsc = 4
  MaxPrompt = 1
  Width = 6
  Client = {c1, c2}
  Fd = {f1, f2}
  Nobody = Nobody
SYMMETRY Symmetry
INVARIANTS
  ScreenShowsLine
  EditsInsideLine
  NothingLost
  ReadsWhole
CHECK_DEADLOCK FALSE
