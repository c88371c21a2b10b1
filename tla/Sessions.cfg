CONSTANTS
  tab = tab
  Pages <- MCPages
  Calls = {"poll"}
  SignOut = "sign_out"
  Idle = 1
  Absolute = 2
  MaxFailures = 2
  FailureWindow = 1
  Lockout = 2
  MaxTime = 4
  MaxKeys = 2
  MaxTries = 3
SPECIFICATION Spec
INVARIANTS
  TypeOK
  BadTriesAreSpaced
  SignOutEnds
PROPERTIES
  AnsweredAsPromised
