SPECIFICATION LogSpec
CONSTANTS
  Files = {f1, f2, f3, f4, f5}
  Lines = {l1, l2}
  MaxLogLines = 1
INVARIANT AppendsAreTailed
CHECK_DEADLOCK FALSE
