SPECIFICATION Spec
CONSTANTS
  padplay = padplay
  m1 = m1
  m2 = m2
  dvi1 = dvi1
  dvi2 = dvi2
  a = a
  b = b
  None = None
  Monitors <- MCMonitors
  Virtual <- MCVirtual
  Connectors <- MCConnectors
  Serials <- MCSerials
  MaxCrashes = 2
INVARIANTS NothingLeftEver
