\* The record file of the service job may not be writable.
CONSTANTS
  Job = {s, e}
  External = {e}
  Unsaved = {s}
  Pid = {p1, p2}
  NoPid = NoPid
  Nobody = Nobody
  Other = Other
SPECIFICATION FairSpec
INVARIANTS
  FinishedMeansDead
  LiveJobAddressable
  RunningIsWatched
PROPERTIES
  PrunedStaysGone
  ContractSpec
  DeathNoticed
