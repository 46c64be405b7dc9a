CONSTANTS
  NMods = 3
  ModId <- MCModId
  Serial = {1, 2}
  Talkers = {1}
  BLEConsoles = {}
  APP_MOD_LAST = 3
  MAX_NB = 2
  MaxRapid = 2
  Forcers <- MCForcers
  Configs <- MCConfigs
  DLs <- MCDLs
  UartConsole = TRUE
  TimerSurvives = TRUE
  Crashes = TRUE
  QMax = 2
  MaxTx = 1
SPECIFICATION Spec
INVARIANTS TypeOK WakeupPending RestartResumes SendsWhatWasFilled ParallelStopped
PROPERTIES AsksInOrder ImplementsLifecycle
