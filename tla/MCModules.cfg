CONSTANTS
  e1 = e1
  e2 = e2
  x1 = x1
  c1 = c1
  NoTag = NoTag
  Tags = {e1, e2, x1, c1}
  Kind <- MCKind
  Class <- MCClass
  MAX_BLE_TRACKED = 2
  maxEnterPerUL = 2
  maxExitPerUL = 2
  p1 = p1
  p2 = p2
  n1 = n1
  n2 = n2
  o1 = o1
  NoCard = NoCard
  Cards = {p1, p2, n1, n2, o1}
  CardKind <- MCCardKind
  Rssi <- MCRssi
  PROX_MAX_TRACKED = 2
  MAX_NAV = 1
  nbULRepeats = 1
  maxContactsPerUL = 2
  MAX_SZ = 14
  MAX_NB = 3
  Fills <- MCFills
  Live = {"MOVE", "FALL", "LIGHT"}
  Word = 32
  Minute = 3
  idleTimeCheckSecs = 2
  idleTimeInactiveMins = 2
  MovingSecs = {0, 1, 5}
  NotMovingMins = {0, 3, 11}
  MaxIdle = 14
  DL_MAX_BODY = 4
  DlBytes = {0, 1}
  DlIds = {0, 1}
  DlNbs = {2}
  MaxRx = 1
SPECIFICATION ModulesSpec
INVARIANTS TypeOKA BackendInSync ProxTypeOK KnownWasTold EnvTypeOK KeptUntilUplink IdleEndsInTime OnlyReceivedExecuted
PROPERTIES KeptUntilSentA ContactKeptUntilTold NavAreBest AwayIsForgotten FullReportTellsAll
