CONSTANTS
  NMods = 3
  ModId <- MCModId
  Serial = {1, 2}
  Talkers = {1}
  BLEConsoles = {}
  APP_MOD_LAST = 3
  MAX_NB = 1
  MaxRapid = 2
  Forcers = {}
  Configs <- MCConfigs0
  DLs = {}
  UartConsole = FALSE
  TimerSurvives = TRUE
  Crashes = FALSE
  QMax = 2
  MaxTx = 1
SPECIFICATION Spec
INVARIANTS DoneIsAwaited
