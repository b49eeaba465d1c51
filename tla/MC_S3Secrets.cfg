CONSTANTS
  b1 = b1
  b2 = b2
  b3 = b3
  k1 = k1
  k2 = k2
  NULL = NULL
  Roles <- MCRoles
  Buffers <- MCBuffers
  Keys <- MCKeys
  MaxFetched <- MCMaxFetched
  MaxAppRefs <- MCMaxAppRefs
SPECIFICATION Spec
INVARIANTS
  TypeOK
  PremasterNeverExposed
  NoDanglingSecretPointer
  NoKeyMaterialAfterKeyExchange
  NoKeyObjectLeaked
