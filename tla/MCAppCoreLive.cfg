CONSTANTS
  NMods = 2
  ModId <- MCModId2
  Serial = {1}
  Talkers = {1}
  BLEConsoles = {1}
  APP_MOD_LAST = 2
  MAX_NB = 1
  MaxRapid = 2
  Forcers = {1}
  Configs <- MCConfigs1
  DLs <- MCDLs1
  UartConsole = FALSE
  TimerSurvives = TRUE
  Crashes = FALSE
  QMax = 2
  MaxTx = 1
SPECIFICATION LiveSpec
PROPERTIES CollectionEnds JoinDecided RebootHappens WakesUp
