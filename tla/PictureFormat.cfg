CONSTANTS
  Panels <- MCPanels
  MaxWidths = {1366, 1920, 4294967}
  Rates = {60, 90, 120}
  Resolutions <- MCResolutions
  Existing <- MCExisting
  Audio <- MCAudio
  AppVersions = {1, 2}
  None = None
SPECIFICATION Spec
INVARIANTS PictureFits EdidReads EdidTimes TabletAgrees
CHECK_DEADLOCK FALSE
