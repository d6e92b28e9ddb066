CONSTANTS
  k1 = k1  k2 = k2  q1 = q1  q2 = q2
  Keys = {k1}
  Queries = {q1}
  Answers <- LongRecord
  Zone = {}
  Hosted = FALSE
  BatchSize = 1
  TtlModulus = 8
  Casts = {"saturates"}
  MaxTime = 3
  MaxEvictions = 2
  NoResponse = NoResponse
  NoKey = NoKey
SPECIFICATION Spec
PROPERTY TtlAccurate
