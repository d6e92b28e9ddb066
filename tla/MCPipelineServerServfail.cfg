CONSTANTS
  q1 = q1  q2 = q2  q3 = q3  c1 = c1  c2 = c2  c3 = c3
  Queries = {q1}
  Conns = {c1}
  MaxDials = 2
  NoQuery = NoQuery
  NoConn = NoConn
  ZeroConn = ZeroConn
SPECIFICATION FairSpec
PROPERTY ServfailForwarded
CHECK_DEADLOCK FALSE
