SPECIFICATION Spec
CONSTANTS
  MaxWire = 4
  NoStream = NoStream
PROPERTY CloseNoticed
