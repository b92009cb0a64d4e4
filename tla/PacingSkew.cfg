SPECIFICATION Spec
CONSTANTS
  Interval = 2
  MaxWork = 9
  MaxLate = 5
  MaxTime = 40
  Skew = 15
INVARIANT Comparable
