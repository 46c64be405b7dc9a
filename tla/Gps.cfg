CONSTANTS
  MIN_GOOD_FIXES = 2
  REQUEST_N_TIMES = 1
  ACCEPTABLE_PRECISION_DM = 4
  Precs = {1, 3, 4, 5, 8}
  Modes = {"ALWAYS", "ON_STOP", "WHILE_MOVING", "ON_DEMAND", "UNKNOWN"}
SPECIFICATION Spec
INVARIANTS TypeOK EarlyEndIsGood OffWhenAsleep
PROPERTIES ReportIsOfThisRound ImplementsModuleRun
