CONSTANTS
  NULL = NULL
  Crash = Crash
  KeyChain = KeyChain
  Names <- MCNames
  StrLens <- MCStrLens
  Bytes <- MCBytes
  TickNameLen = 1
  TickHmacLen = 2
  TickAesLen = 1
  Certs <- MCCerts
  MaxExtra = 2
  Groups <- MCGroups
  CtxGroups <- MCCtxGroups
  BuiltinNids <- MCBuiltinNids
  MaxPeerGroups = 1
  RespBufs = {r1}
  SizeBits = 8
  CmdGroups = {"dh"}
SPECIFICATION Spec
INVARIANTS
  DhCallbackRejected
