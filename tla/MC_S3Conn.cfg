CONSTANTS
  QuietModes <- MCQuietModes
  DispatchResults <- MCDispatchResults
  MaxReneg <- MCMaxReneg
  ReadResults <- MCReadResults
SPECIFICATION FairSpec
INVARIANTS
  TypeOK
  ShutdownSuccessSound
  CloseNotifyBeforeWaitingForPeer
  NumNeverExceedsTotal
PROPERTIES
  RefinesShutdownAbs
  ShutdownCompletesUnlessClearedOrInInit
