CONSTANTS
  MaxSessions = 2
  MaxFrames = 1
  MaxPcm = 1
  MaxStarts = 1
  QuickDrain = TRUE
SPECIFICATION Spec
INVARIANTS OwnSound NoneKept
PROPERTY ThreadsEnd
CHECK_DEADLOCK FALSE
