SPECIFICATION Spec
CONSTANTS
  Interval = 2
  MaxWork = 9
  MaxLate = 5
  MaxTime = 20
  Skew = 15
INVARIANTS NoBurst RateCapped
