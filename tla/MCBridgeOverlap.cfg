CONSTANTS
  Bridge = {b1, b2}
  Broker = {k1}
  LocalPrivilege = TRUE
  Caller = {x}
  Overlap = TRUE
  NoSocket = NoSocket
  Service = Service
SPECIFICATION FairSpec
INVARIANTS
  ListenerReachable
