CONSTANTS
  QuietModes <- MCQuietModes
  DispatchResults <- MCDispatchResults
  MaxReneg <- MCMaxReneg
  ReadResults <- MCReadResults
SPECIFICATION Spec
PROPERTIES
  NoRenegotiationAfterCloseNotify
