SPECIFICATION FairSpec
CONSTANTS
  c1 = c1
  c2 = c2
  k1 = k1
  k2 = k2
  x1 = x1
  x2 = x2
  x3 = x3
  Caller <- MCCaller
  Name <- MCOneName
  Client <- MCClient
  Conn <- MCTwoConn
  Attempts = 2
  NoClient = NoClient
  NoConn = NoConn
  Nobody = Nobody
PROPERTIES CallsReturn
