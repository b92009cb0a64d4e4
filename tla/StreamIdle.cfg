SPECIFICATION Spec
CONSTANTS
  NoFrame = NoFrame
  Setups <- IdleSetups
  MaxFrames = 0
  SinkCap = 1
  LinkCap = 1
  DecoderCap = 1
  MaxAcks = 1
PROPERTY StopHonoured
