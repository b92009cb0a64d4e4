SPECIFICATION Spec
CONSTANTS
  s1 = s1
  s2 = s2
  d1 = d1
  d2 = d2
  lin = lin
  tiled = tiled
  None = None
  Sizes <- MCSizes
  Devices <- MCDevices
  Modifiers <- MCModifiers
  Offers <- MCOffers
  Allowed <- MCAllowed
  PoolSize = 3
  MaxUnread = 1
INVARIANTS ConstraintsKept EncoderGeometry RecoversTransparently
PROPERTIES RenegotiationEnds StopEndsSession
