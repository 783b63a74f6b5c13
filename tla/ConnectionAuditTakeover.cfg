CONSTANTS
  c1 = c1  c2 = c2  c3 = c3  c4 = c4
  kA = kA  kB = kB
  Conn = {c1, c2, c3}
  ClientId = {kA, kB}
  ClientOf <- MCClientOfSmall
  NoConn = NoConn
  MaxFaults = 0
SPECIFICATION Spec
INVARIANT LiveSessionShown
