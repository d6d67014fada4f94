SPECIFICATION AppSpec
CONSTANTS
  Profiles = {p1, p2}
  Tids = {t1, t2}
  MaxTaps = 3
  MaxSwitches = 1
  MaxTroubles = 1
  MaxQueue = 2
  Ids = {i1, i2, i3}
  MaxEdits = 1
  Files = {f1, f2, f3, f4, f5}
  Lines = {l1, l2, l3, l4}
  MaxLogLines = 1
INVARIANTS
  StageSettles
  ConfigFollows
  OffStaysOff
  ReasonShown
  RestoredWhole
  LinesFound
PROPERTY TogglesAgain
CHECK_DEADLOCK FALSE
