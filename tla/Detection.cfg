CONSTANTS
  Configs <- MCConfigs
  Settings <- MCSettings
  Pressures <- MCPressures
  Biases = {0, 1, 9}
  Trend <- MCTrend
  Scale = 4
  CounterCap = 3
  MaxSuspendCount = 1
SPECIFICATION Spec
INVARIANTS
  TypeOK
  BandSurvives
PROPERTIES
  EventsLineUp
  AdaptationFades
