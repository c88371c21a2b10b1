CONSTANTS
  Configs <- MCConfigs
  Pressures <- MCPressures
  Answers <- MCOutcomes
  CounterCap = 3
  MaxSuspendCount = 2
SPECIFICATION FairSpec
INVARIANTS
  TypeOK
  Agreement
  CountersAreStreaks
PROPERTIES
  KeepsPromise
  Relieved
