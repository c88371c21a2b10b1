CONSTANTS
  Pids = {p1, p2}
  Rules <- MCRules
  Loads <- MCLoads
  StartClasses <- MCClasses
  CounterCap = 2
  NoEntry = NoEntry
  Overlap = FALSE
SPECIFICATION FairProtectSpec
INVARIANTS
  ProtectTypeOK
  ExactlyRestored
PROPERTIES
  EventuallyRestored
