SPECIFICATION Spec
CONSTANTS
  SinkCap = 2
  MaxChannel = 2
  Cycle = 8
  ConstantRate = TRUE
  NoPacket = NoPacket
PROPERTIES AudioInOrder AudioFlows
