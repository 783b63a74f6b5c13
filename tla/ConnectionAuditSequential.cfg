CONSTANTS
  c1 = c1  c2 = c2  c3 = c3  c4 = c4
  kA = kA  kB = kB
  Conn = {c1, c2, c3, c4}
  ClientId = {kA, kB}
  ClientOf <- MCClientOf
  NoConn = NoConn
  MaxFaults = 2
SPECIFICATION SequentialSpec
SYMMETRY MCSymmetry
INVARIANTS
  OwnRow
  TableTrue
