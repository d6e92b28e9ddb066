----------------------------- MODULE MCConnPool -----------------------------
(* ConnPool on a small instance, and the two statements of the source that  *)
(* the pool does not keep.                                                  *)
EXTENDS ConnPool

CONSTANTS u1, u2, c1, c2, c3, w1, w2

ConnSymmetry == Permutations({c1, c2, c3}) \cup Permutations({w1, w2})
                  \cup Permutations(Upstreams)
=============================================================================
