CONSTANTS
  Document <- MCDocument
  Request <- MCRequest
  Message <- MCMessage
SPECIFICATION Spec
INVARIANTS
  ReadonlyOnlyReads
  TighterRefusesMore
  StrictOnlyRefuses
  TransportsAgree
  ReasonIsClients
