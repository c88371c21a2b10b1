CONSTANTS
  p1 = p1
  p2 = p2
  Pids <- MCPids
  NoPid = NoPid
  Nothing = Nothing
  MaxStarts = 3
SPECIFICATION Spec
INVARIANTS
  TypeOK
  ZeroMeansNobody
  NoImpostor
  MismatchOnce
