CONSTANTS
  Caller = {c1, c2}
  box = box
  other = other
  padded = padded
  local = local
  Name = {box, other, padded, local}
  Trim <- MCTrim
  Local = local
  Target = {on, off}
  Enabled = {on}
  Invalid = Invalid
  Absent = Absent
  Open = Open
  User = {u1, u2}
  k1 = k1
  k2 = k2
  k3 = k3
  file1 = file1
  file2 = file2
  Key = {k1, k2, k3}
  Safe <- MCSafe
  Datum = {d1, d2}
  Nothing = Nothing
  Unknown = Unknown
  Editor = {e1, e2}
  Path = {p, q}
  wa = wa
  wb = wb
  wx = wx
  wy = wy
  wz = wz
  Word = {wa, wb, wx, wy, wz}
  Document <- MCDocument
  Patch <- MCPatch
  Original <- MCOriginal
  MaxLength = 1
  NoFile = NoFile
  Detached = Detached
  Unsure = Unsure
SYMMETRY Symmetry
SPECIFICATION Spec
INVARIANT
  PatchesStay
