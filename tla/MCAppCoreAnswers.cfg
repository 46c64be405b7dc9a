CONSTANTS
  NMods = 2
  ModId <- MCModId2
  Serial = {1}
  Talkers = {}
  BLEConsoles = {}
  APP_MOD_LAST = 2
  MAX_NB = 1
  MaxRapid = 2
  Forcers = {1}
  Configs <- MCConfigs2
  DLs <- MCDLs2
  UartConsole = FALSE
  TimerSurvives = TRUE
  Crashes = FALSE
  QMax = 2
  MaxTx = 1
SPECIFICATION Spec
PROPERTIES AnswersAreSent
