SPECIFICATION Spec
CONSTANTS
  NoFrame = NoFrame
  Setups <- MCSetups
  MaxFrames = 3
  SinkCap = 1
  LinkCap = 1
  DecoderCap = 1
  MaxAcks = 1
INVARIANTS BacklogBounded
PROPERTIES ShownInOrder AcksPaired StopHonoured DisconnectEnds
