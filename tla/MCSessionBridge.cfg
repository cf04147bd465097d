CONSTANTS
  Bridge = {b1, b2, b3}
  Broker = {k1, k2}
  LocalPrivilege = TRUE
  Caller = {x}
  Overlap = FALSE
  NoSocket = NoSocket
  Service = Service
SPECIFICATION FairSpec
INVARIANTS
  ListenerReachable
  NoSilentFallback
  PrivilegeKept
PROPERTIES
  GivesUpForAnother
  BridgeDeathNoticed
  BridgeContract
