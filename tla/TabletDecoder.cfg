SPECIFICATION Spec
CONSTANTS
  MaxSessions = 2
  MaxFrames = 2
  Inputs = {i1, i2}
  QuickCallback = TRUE
INVARIANTS AcksOwn BuffersKept
PROPERTY RenderedAcked
