CONSTANTS
  q1 = q1  q2 = q2  q3 = q3  c1 = c1  c2 = c2  c3 = c3
  Queries = {q1, q2, q3}
  Conns = {c1, c2, c3}
  MaxDials = 2
  NoQuery = NoQuery
  NoConn = NoConn
  ZeroConn = ZeroConn
SPECIFICATION Spec
INVARIANTS TypeOK Delivered ConnsExclusive StopsOnlyStuck MovesUnlessWaiting PanicsOnlyExhausted
PROPERTIES NoneDropped StuckForGood RoundsEnd
CHECK_DEADLOCK FALSE
