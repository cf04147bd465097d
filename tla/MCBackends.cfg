CONSTANTS
  Client = {c1, c2}
  Bus = {bus}
  x0 = x0
  Display = {x0, x1}
  Isolated = Isolated
  v1 = v1
  Version = {v1, v2}
  MaxChanges = 1
  MaxHelpers = 2
  MaxNoise = 1
  MaxCalls = 2
  Request = {r1, r2}
  Id = {i1, i2}
  MaxConns = 2
  None = None
SPECIFICATION Spec
INVARIANTS
  OneHelper
  RightDesktop
  DeathFailsOneCall
  AnswerIsOwn
  ReaderNeverStuck
  LatestServes
PROPERTIES
  HelperContract
  BrowserContract
  EveryCallReturns
  EveryRequestEnds
CHECK_DEADLOCK FALSE
