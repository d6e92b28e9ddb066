--------------------------- MODULE MCMutexServer ---------------------------
(* MutexServer on a small instance: fewer permits than queries, so queries  *)
(* wait; fewer retries than failures, so some end in SERVFAIL.              *)
EXTENDS MutexServer

CONSTANTS u1, c1, c2, w1, w2, w3
=============================================================================
