---------------------------- MODULE MutexServer ----------------------------
(***************************************************************************)
(* The server main.go runs by default (mutex_server.go) on top of the      *)
(* connection pool: a weighted semaphore admits queries, each admitted     *)
(* query looks in the caches and, if they do not have the answer, makes up *)
(* to 1 + UpstreamRetries attempts, each with a connection of the pool.    *)
(*                                                                         *)
(* A worker of ConnPool is a query here: HandleDNS starts one goroutine    *)
(* for it once it has a permit.  The slot of a query that is over is used  *)
(* again by a later one, so Workers bounds the queries known at once.      *)
(*                                                                         *)
(* What is abstracted.  The caches are RecordCache's subject: a lookup     *)
(* hits or misses.  The question and the answer are not told apart.        *)
(***************************************************************************)
EXTENDS ConnPool

CONSTANTS
  Permits,   \* ConcurrentQueries, or GOMAXPROCS: the size of the semaphore
  Retries    \* UpstreamRetries

ASSUME ServerAssumption == Permits \in Nat \ {0} /\ Retries \in Nat

VARIABLES
  phase,     \* phase[w]: how far HandleDNS has come with query w
  attempt,   \* attempt[w]: the loop counter i of RecursiveQuery
  avail,     \* permits of the semaphore nobody has
  waiting,   \* the queries blocked in Acquire, first come first
  replies    \* replies[w]: how often WriteMsg was called for query w

serverVars == <<phase, attempt, avail, waiting, replies>>
allVars == <<vars, serverVars>>

Phases == {"none", "waiting", "lookup", "querying", "reply", "servfail", "release"}

\* The queries whose goroutine runs.
Admitted == { w \in Workers : phase[w] \notin {"none", "waiting"} }

-----------------------------------------------------------------------------
(* The semaphore: golang.org/x/sync/semaphore.Weighted, used with weight 1 *)

\* Acquire: a permit at once, unless there is none or others wait for one.
Acquire(w) ==
  IF avail > 0 /\ waiting = <<>>
  THEN /\ avail' = avail - 1
       /\ phase' = [phase EXCEPT ![w] = "lookup"]
       /\ UNCHANGED waiting
  ELSE /\ waiting' = Append(waiting, w)
       /\ phase' = [phase EXCEPT ![w] = "waiting"]
       /\ UNCHANGED avail

\* Release: the permit goes to the query that has waited longest, if any.
Release(w) ==
  IF waiting = <<>>
  THEN /\ avail' = avail + 1
       /\ phase' = [phase EXCEPT ![w] = "none"]
       /\ UNCHANGED waiting
  ELSE /\ waiting' = Tail(waiting)
       /\ phase' = [phase EXCEPT ![w] = "none", ![Head(waiting)] = "lookup"]
       /\ UNCHANGED avail

-----------------------------------------------------------------------------
(* HandleDNS and what it calls *)

\* HandleDNS: a query comes in and waits for a permit.
HandleDNS(w) ==
  /\ phase[w] = "none"
  /\ Acquire(w)
  /\ UNCHANGED <<vars, attempt, replies>>

\* RetrieveRecords: the lookup cache or the hosted one has the answer.
CacheHit(w) ==
  /\ phase[w] = "lookup"
  /\ phase' = [phase EXCEPT ![w] = "reply"]
  /\ UNCHANGED <<vars, attempt, avail, waiting, replies>>

\* RetrieveRecords: neither has it, RecursiveQuery enters its loop.
CacheMiss(w) ==
  /\ phase[w] = "lookup"
  /\ phase' = [phase EXCEPT ![w] = "querying"]
  /\ attempt' = [attempt EXCEPT ![w] = 0]
  /\ UNCHANGED <<vars, avail, waiting, replies>>

\* An attempt under way: a connection is taken from the pool or dialled, and
\* the exchange runs on it.
Attempting(w) ==
  /\ phase[w] = "querying"
  /\ Get(w) \/ NewConnection(w) \/ ExchangeOk(w) \/ ExchangeFails(w)
  /\ UNCHANGED serverVars

\* Mutant: the loop forgets to count.
RetryForever(w) ==
  /\ phase' = phase
  /\ UNCHANGED attempt

\* Mutant: the loop runs once more than UpstreamRetries allows.
RetryOnceMore(w) ==
  IF attempt[w] <= Retries
  THEN attempt' = [attempt EXCEPT ![w] = @ + 1] /\ UNCHANGED phase
  ELSE phase' = [phase EXCEPT ![w] = "servfail"] /\ UNCHANGED attempt

\* The end of the loop body after an error: the first attempt is number 0, so
\* there are 1 + UpstreamRetries of them.
Retry(w) ==
  IF attempt[w] < Retries
  THEN attempt' = [attempt EXCEPT ![w] = @ + 1] /\ UNCHANGED phase
  ELSE phase' = [phase EXCEPT ![w] = "servfail"] /\ UNCHANGED attempt

\* Mutant: the connection of the last attempt is not closed.
AttemptFailsUnclosed(w) ==
  /\ phase[w] = "querying"
  /\ \/ NewConnectionFails(w)
     \/ pc[w] = "closing" /\ UNCHANGED vars
  /\ Retry(w)
  /\ UNCHANGED <<avail, waiting, replies>>

\* An attempt fails: there was no connection, or the exchange on it failed and
\* the connection is closed.
AttemptFails(w) ==
  /\ phase[w] = "querying"
  /\ NewConnectionFails(w) \/ CloseConnection(w)
  /\ Retry(w)
  /\ UNCHANGED <<avail, waiting, replies>>

\* Mutant: the connection is dropped instead of given back to the pool.
AttemptSucceedsDropped(w) ==
  /\ phase[w] = "querying"
  /\ pc[w] = "adding"
  /\ pc' = [pc EXCEPT ![w] = "start"]
  /\ held' = [held EXCEPT ![w] = NoConn]
  /\ phase' = [phase EXCEPT ![w] = "reply"]
  /\ UNCHANGED <<poolVars, connVars, dialing, attempt, avail, waiting, replies>>

\* An attempt succeeds: the connection goes back to the pool (the answer is
\* then added to the cache).
AttemptSucceeds(w) ==
  /\ phase[w] = "querying"
  /\ Add(w)
  /\ phase' = [phase EXCEPT ![w] = "reply"]
  /\ UNCHANGED <<attempt, avail, waiting, replies>>

\* WriteMsg of the answer.
Reply(w) ==
  /\ phase[w] = "reply"
  /\ phase' = [phase EXCEPT ![w] = "release"]
  /\ replies' = [replies EXCEPT ![w] = @ + 1]
  /\ UNCHANGED <<vars, attempt, avail, waiting>>

\* Mutant: the early return after sendServfail skips the release.
ServfailReturns(w) ==
  /\ phase[w] = "servfail"
  /\ phase' = [phase EXCEPT ![w] = "none"]
  /\ UNCHANGED <<vars, attempt, avail, waiting, replies>>

\* Mutant: no early return, the empty answer is written too.
ServfailGoesOn(w) ==
  /\ phase[w] = "servfail"
  /\ phase' = [phase EXCEPT ![w] = "reply"]
  /\ replies' = [replies EXCEPT ![w] = @ + 1]
  /\ UNCHANGED <<vars, attempt, avail, waiting>>

\* sendServfail, and the early return.
Servfail(w) ==
  /\ phase[w] = "servfail"
  /\ phase' = [phase EXCEPT ![w] = "release"]
  /\ replies' = [replies EXCEPT ![w] = @ + 1]
  /\ UNCHANGED <<vars, attempt, avail, waiting>>

\* The deferred release: the goroutine ends.
Finish(w) ==
  /\ phase[w] = "release"
  /\ Release(w)
  /\ replies' = [replies EXCEPT ![w] = 0]
  /\ UNCHANGED <<vars, attempt>>

-----------------------------------------------------------------------------

ServerInit ==
  /\ Init
  /\ phase = [w \in Workers |-> "none"]
  /\ attempt = [w \in Workers |-> 0]
  /\ avail = Permits
  /\ waiting = <<>>
  /\ replies = [w \in Workers |-> 0]

QueryStep(w) ==
  \/ CacheHit(w) \/ CacheMiss(w)
  \/ Attempting(w) \/ AttemptFails(w) \/ AttemptSucceeds(w)
  \/ Reply(w) \/ Servfail(w) \/ Finish(w)

\* What the pool does by itself: closing goroutines and cooldowns.
PoolStep ==
  /\ (\E c \in Conns : Reap(c)) \/ (\E u \in Upstreams : Wake(u))
  /\ UNCHANGED serverVars

ServerNext ==
  \/ \E w \in Workers : HandleDNS(w) \/ QueryStep(w)
  \/ PoolStep

ServerSpec == ServerInit /\ [][ServerNext]_allVars

\* Goroutines run, and what they wait for ends: dials and exchanges carry a
\* timeout (BuildClient).  No query need come in, no cooldown need pass, and
\* nothing is asked of the closing goroutines: no query depends on them.
ServerFairSpec == ServerSpec /\ \A w \in Workers : WF_allVars(QueryStep(w))

-----------------------------------------------------------------------------
(* Properties *)

\* The shape of the server: the pool's, and per query a phase and an attempt
\* number that never passes UpstreamRetries.
ServerTypeOK ==
  /\ TypeOK
  /\ phase \in [Workers -> Phases]
  /\ attempt \in [Workers -> 0..Retries]
  /\ avail \in 0..Permits
  /\ waiting \in Seq(Workers)
  /\ replies \in [Workers -> Nat]

\* Permits are neither lost nor made, by whichever way a query ends, and none
\* lies unused while a query waits (mutex_server.go:254).
PermitsConserved ==
  /\ Cardinality(Admitted) + avail = Permits
  /\ waiting # <<>> => avail = 0
  /\ { w \in Workers : phase[w] = "waiting" } = { waiting[i] : i \in DOMAIN waiting }
  /\ \A i, j \in DOMAIN waiting : waiting[i] = waiting[j] => i = j

\* A query has a connection, or is dialling one, only between taking it from
\* the pool and giving it back: so no more connections are away from the pool
\* than there are permits, however attempts fail and are retried.
BorrowersAdmitted ==
  /\ \A w \in Workers : pc[w] # "start" => phase[w] = "querying"
  /\ Cardinality({ c \in Open : ~Pooled(c) /\ ~Reaped(c) }) <= Permits

\* The server uses the pool as ConnPool says workers do, whatever the retry
\* loop does: every property of ConnPool's Spec holds in the server.
UsesPool == Spec

\* What a client sees of query w.  A second reply would be seen, too.
StatusOf(w) ==
  CASE phase[w] = "none"                     -> "out"
    [] phase[w] = "waiting"                  -> "queued"
    [] w \in Admitted /\ replies[w] = 0     -> "running"
    [] w \in Admitted /\ replies[w] = 1     -> "answered"
    [] w \in Admitted /\ replies[w] > 1     -> "answered again"

Service == INSTANCE QueryService
             WITH Queries <- Workers, queue <- waiting,
                  status <- [w \in Workers |-> StatusOf(w)]

\* The server keeps the promise of QueryService (server.go:33): queries get
\* their permits in the order they came (mutex_server.go:241), each is answered
\* or gets SERVFAIL exactly once, whatever its attempts do, and before its
\* permit goes to the next one.
KeepsPromise == Service!ServiceSpec

\* Every query that comes in is answered, with an answer or with SERVFAIL, and
\* is over: the retry loop ends and the queue for permits moves.
Answered == \A w \in Workers : phase[w] # "none" ~> phase[w] = "none"
=============================================================================
