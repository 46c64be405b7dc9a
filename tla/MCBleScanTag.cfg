CONSTANTS
  e1 = e1
  e2 = e2
  e3 = e3
  p1 = p1
  c1 = c1
  s1 = s1
  o1 = o1
  NoTag = NoTag
  Tags = {e1, e2, e3, p1, c1, s1, o1}
  Kind <- MCKind
  Class <- MCClass
  MAX_BLE_TRACKED = 3
  maxEnterPerUL = 2
  maxExitPerUL = 2
  MAX_SZ = 14
  MAX_NB = 2
  Fills <- MCFills
SPECIFICATION Spec
INVARIANTS TypeOK BackendInSync
PROPERTIES KeptUntilSent MissedIsFlagged
