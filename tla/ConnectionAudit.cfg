CONSTANTS
  c1 = c1  c2 = c2  c3 = c3  c4 = c4
  kA = kA  kB = kB
  Conn = {c1, c2, c3}
  ClientId = {kA}
  ClientOf <- MCClientOfOne
  NoConn = NoConn
  MaxFaults = 2
SPECIFICATION FairSpec
INVARIANTS
  TypeOK
  GhostOnlyAfterLostUpdate
PROPERTIES
  DuplicateRowsRetire
  DetailsPreserved
  ImplementsLedger
  DisconnectRecorded
