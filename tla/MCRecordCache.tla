--------------------------- MODULE MCRecordCache ---------------------------
(* RecordCache on small instances, and the statements of the source that    *)
(* the cache does not keep.                                                 *)
EXTENDS RecordCache, TLC

CONSTANTS k1, k2, q1, q2

ShortAnswers == {<<>>, <<1>>, <<2, 0>>}
OneTime == {<<1>>}
OneRecord == {<<1>>, <<2>>}
LongRecord == {<<4>>}

CacheSymmetry == Permutations(Queries)
============================================================================
