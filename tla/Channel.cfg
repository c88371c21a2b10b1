CONSTANTS
  session = session
  serve = serve
  console = console
  token = token
  other = other
  Short = short
  Nobody = nobody
  Senders <- MCSenders
  Receiver <- MCReceiver
  Secrets <- MCSecrets
  MaxFrame = 2
  Chunk = 2
  Sizes = {1, 2, 3}
  MaxSays = 2
SPECIFICATION Spec
CHECK_DEADLOCK FALSE
INVARIANTS
  TypeOK
  MutuallyAuthenticated
  BrokenForAReason
PROPERTIES
  InOrder
