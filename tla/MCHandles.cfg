SPECIFICATION Spec
CONSTANTS
  c1 = c1
  c2 = c2
  l1 = l1
  l2 = l2
  s1 = s1
  t1 = t1
  x1 = x1
  x2 = x2
  Caller <- MCCaller
  Live <- MCLive
  Session <- MCSession
  Tx <- MCTx
  Program <- MCProgram
  Conn <- MCConn
  NoConn = NoConn
  Nobody = Nobody
  MaxFaults = 1
INVARIANTS ClosedOnce NothingLeaks DrainReachesAll
SYMMETRY MCSymmetry
