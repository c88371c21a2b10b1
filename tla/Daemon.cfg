CONSTANTS
  Configs <- MCConfigs
  Pressures <- MCPressures
  Names <- MCNames
  Essential <- MCEssential
  Settings <- MCSettings
  CounterCap = 1
  MaxSuspendCount = 3
  Pids = {p1}
  Broken = Broken
  NoName = NoName
  NoEntry = NoEntry
  ChurnInside = TRUE
  Coordinated = FALSE
SPECIFICATION FairSpec
INVARIANTS
  TypeOK
  NothingLeftBehind
  TableAgreement
  OnlyMistaken
PROPERTIES
  OperatorWins
  PendingEditApplies
