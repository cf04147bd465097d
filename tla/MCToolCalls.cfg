CONSTANTS
  a = a
  b = b
  f1 = f1
  f2 = f2
  f3 = f3
  Caller = {a, b}
  Reloader = {a}
  Request <- MCRequest
  Document <- MCDocument
  NoDoc = NoDoc
  Files <- MCFiles
  NameOf <- MCNameOf
  NoFile = NoFile
  Shared = Shared
SPECIFICATION Spec
INVARIANTS
  AuditedOnce
  ActiveHasCall
  ShownWhileRunning
  PluginNamesTrue
PROPERTIES
  LockdownLasts
