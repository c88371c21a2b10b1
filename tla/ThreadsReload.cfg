CONSTANTS
  ReloadableSections <- MCBoth
SPECIFICATION FairSpec
PROPERTIES
  PollsForever
CHECK_DEADLOCK FALSE
