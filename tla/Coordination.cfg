CONSTANTS
  h1 = h1
  h2 = h2
  a = a
  b = b
  c = c
  Hosts <- MCHosts
  Conns <- MCLingering
  NoConn = NoConn
  ClusterPercent = 50
  QueueCap = 1
  MaxThreads = 2
SYMMETRY MCSymmetry
SPECIFICATION Spec
INVARIANTS
  TypeOK
  Agreement
PROPERTIES
  EntriesAreTheirThreads
