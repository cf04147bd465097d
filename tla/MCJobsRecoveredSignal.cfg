CONSTANTS
  Job = {s, e}
  External = {e}
  Unsaved = {}
  Pid = {p1, p2}
  NoPid = NoPid
  Nobody = Nobody
  Other = Other
SPECIFICATION FairSpec
PROPERTIES
  TerminationNoticed
