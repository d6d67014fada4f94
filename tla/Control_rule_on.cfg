SPECIFICATION ControlSpec
CONSTANTS
  Profiles = {p1, p2}
  Tids = {t1, t2, t3}
  MaxTaps = 3
  MaxSwitches = 1
  MaxTroubles = 0
  MaxQueue = 3
INVARIANT OffMeansOff
CHECK_DEADLOCK FALSE
