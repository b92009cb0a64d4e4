SPECIFICATION Spec
CONSTANTS
  Lengths = {0, 1, 2, 4}
  MAX_FRAME_BYTES = 3
  Window = 3
  MaxFrames = 3
INVARIANTS FramesWhole ByteExact
