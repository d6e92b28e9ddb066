CONSTANTS
  k1 = k1  k2 = k2  q1 = q1  q2 = q2
  Keys = {k1, k2}
  Queries = {q1}
  Answers <- OneTime
  Zone = {}
  Hosted = FALSE
  BatchSize = 2
  TtlModulus = 8
  Casts = {"saturates"}
  MaxTime = 2
  MaxEvictions = 2
  NoResponse = NoResponse
  NoKey = NoKey
SPECIFICATION FairSpec
INVARIANT BatchFlushed
PROPERTIES FlushEnds ExpiredLeaves EvictionsKept
CHECK_DEADLOCK FALSE
