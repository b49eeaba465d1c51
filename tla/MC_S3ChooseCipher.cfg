CONSTANTS
  NONE = NONE
  Universe <- MCUniverse
  Versions <- MCVersions
  CertConfigs <- MCCertConfigs
  Modes <- MCModes
  SecLevels <- MCSecLevels
  MaxClnt = 2
  MaxSrvr = 3
SPECIFICATION Spec
INVARIANTS
  ChoiceMatchesReference
