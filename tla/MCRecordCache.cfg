CONSTANTS
  k1 = k1  k2 = k2  q1 = q1  q2 = q2
  Keys = {k1}
  Queries = {q1, q2}
  Answers <- ShortAnswers
  Zone = {}
  Hosted = FALSE
  BatchSize = 1
  TtlModulus = 8
  Casts = {"saturates"}
  MaxTime = 4
  MaxEvictions = 2
  NoResponse = NoResponse
  NoKey = NoKey
SPECIFICATION Spec
SYMMETRY CacheSymmetry
INVARIANTS TypeOK ToldWithin
PROPERTIES NoStaleHit HeldStill KeepsFresh
CHECK_DEADLOCK FALSE
