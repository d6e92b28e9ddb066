CONSTANTS
  q1 = q1  q2 = q2  q3 = q3  r1 = r1  r2 = r2
  Queries = {q1, q2, q3}
  Permits = 1
  Requests = {r1, r2}
  Nobody = Nobody
SPECIFICATION ProcessFairSpec
INVARIANTS ProcessTypeOK ExitWaits NobodyWaiting LockHeld
PROPERTY ShutdownExits
CHECK_DEADLOCK FALSE
