SPECIFICATION Spec
CONSTANTS
  a = a
  b = b
  NoDevice = NoDevice
  Serials <- MCSerials
  Lists <- MCLists
  MaxBackoff = 3
  MaxInbox = 2
  HexLists <- MCHexLists
  once = FALSE
INVARIANTS ListStands
