SPECIFICATION Spec
CONSTANTS
  MaxWire = 4
  NoStream = NoStream
INVARIANT ErrorJustified
PROPERTY CreateEnds
