CONSTANTS
  ReloadableSections <- MCBoth
SPECIFICATION FairSpec
INVARIANTS
  TypeOK
  LocalCommandsAreOver
PROPERTIES
  NoOtherHang
  RequestsAnswered
CHECK_DEADLOCK FALSE
