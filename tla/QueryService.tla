---------------------------- MODULE QueryService ----------------------------
(***************************************************************************)
(* What the server promises its clients (the Server interface of server.go *)
(* as MutexServer keeps it), without saying how an answer is found: at     *)
(* most Permits queries are worked on at once, the others wait in the      *)
(* order they came, each is answered once, and only then is its permit     *)
(* passed on.                                                              *)
(*                                                                         *)
(* MutexServer is shown to implement this; Process builds the rest of the  *)
(* program around it.                                                      *)
(***************************************************************************)
EXTENDS Naturals, FiniteSets, Sequences

CONSTANTS
  Queries,   \* the queries known at once; the slot of one that is over is used again
  Permits    \* ConcurrentQueries, or GOMAXPROCS

ASSUME PermitsAssumption == Permits \in Nat \ {0}

VARIABLES
  status,    \* status[q]: how far the service is with q
  queue      \* the queries that wait for a permit, first come first

serviceVars == <<status, queue>>

Statuses == {"out", "queued", "running", "answered"}

\* The queries that have a permit.
Served == { q \in Queries : status[q] \in {"running", "answered"} }

\* A query comes in: it is served at once, or waits its turn.
Receive(q) ==
  /\ status[q] = "out"
  /\ IF Cardinality(Served) < Permits /\ queue = <<>>
     THEN /\ status' = [status EXCEPT ![q] = "running"]
          /\ UNCHANGED queue
     ELSE /\ status' = [status EXCEPT ![q] = "queued"]
          /\ queue' = Append(queue, q)

\* The client's reply is written, be it an answer or SERVFAIL.
Answer(q) ==
  /\ status[q] = "running"
  /\ status' = [status EXCEPT ![q] = "answered"]
  /\ UNCHANGED queue

\* The query is over: its permit goes to the one that has waited longest.
Finish(q) ==
  /\ status[q] = "answered"
  /\ IF queue = <<>>
     THEN /\ status' = [status EXCEPT ![q] = "out"]
          /\ UNCHANGED queue
     ELSE /\ status' = [status EXCEPT ![q] = "out", ![Head(queue)] = "running"]
          /\ queue' = Tail(queue)

ServiceInit ==
  /\ status = [q \in Queries |-> "out"]
  /\ queue = <<>>

ServiceNext == \E q \in Queries : Receive(q) \/ Answer(q) \/ Finish(q)

ServiceSpec == ServiceInit /\ [][ServiceNext]_serviceVars

-----------------------------------------------------------------------------
(* Properties *)

\* ConcurrentQueries is what it is called (mutex_server.go:318): never are more
\* queries worked on, and never fewer while one waits, however queries come in,
\* end and pass their permits on (mutex_server.go:241, 254).
PermitsUsed ==
  /\ Cardinality(Served) <= Permits
  /\ queue # <<>> => Cardinality(Served) = Permits
=============================================================================
