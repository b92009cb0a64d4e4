SPECIFICATION Spec
CONSTANTS
  SinkCap = 2
  MaxChannel = 5
  Cycle = 11
  ConstantRate = FALSE
  NoPacket = NoPacket
INVARIANT BacklogBounded
