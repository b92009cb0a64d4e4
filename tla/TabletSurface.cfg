SPECIFICATION Spec
CONSTANTS
  Loops = {l1, l2}
  Surfaces = {s1, s2}
  SlowSurface = FALSE
  None = None
PROPERTY SurfaceFollowed
