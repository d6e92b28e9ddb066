------------------------- MODULE MutexServerProofs -------------------------
(***************************************************************************)
(* Proofs about MutexServer, for any number of queries, permits, retries,  *)
(* upstreams and connections.                                              *)
(***************************************************************************)
EXTENDS MutexServer, ConnLifeProofs

-----------------------------------------------------------------------------
(* The server uses the pool as ConnPool says *)

\* Each step of the server is one step of the pool (mutex_server.go:83-126,
\* 179) or leaves the pool alone.
LEMMA ServerStepIsPoolStep == [ServerNext]_allVars => [Next]_vars
<1> SUFFICES ASSUME [ServerNext]_allVars PROVE [Next]_vars
  OBVIOUS
<1>1. CASE UNCHANGED allVars
  BY <1>1 DEF allVars
<1>2. ASSUME NEW w \in Workers, HandleDNS(w) PROVE UNCHANGED vars
  BY <1>2 DEF HandleDNS
<1>3. ASSUME NEW w \in Workers, QueryStep(w) PROVE WorkerStep(w) \/ UNCHANGED vars
  BY <1>3 DEF QueryStep, CacheHit, CacheMiss, Attempting, AttemptFails, AttemptSucceeds,
              Reply, Servfail, Finish, WorkerStep
<1>4. CASE PoolStep
  BY <1>4 DEF PoolStep, Next
<1> QED
  BY <1>1, <1>2, <1>3, <1>4 DEF ServerNext, Next

\* MutexServer borrows, dials, gives back and closes connections in the order
\* the pool expects, in every interleaving and on every error path: all that
\* holds of ConnPool's Spec holds in the server.
THEOREM ServerImplementsPool == ServerSpec => UsesPool
<1>1. ServerInit => Init
  BY DEF ServerInit
<1> QED
  BY <1>1, ServerStepIsPoolStep, PTL DEF ServerSpec, UsesPool, Spec

\* The pool's invariant, in the server.
LEMMA PoolInvariance == ServerSpec => []IInv
  BY ServerImplementsPool, Invariance, PTL DEF UsesPool

\* Under the server's retries, cooldowns and closing goroutines a connection has
\* one owner from its dial to its close (mutex_server.go:83-126), every attempt
\* gets the lightest connection there is (connpool.go:202), an upstream that
\* starts to cool keeps none in its list (connpool.go:429), and a connection's
\* life is ConnLife's: with any number of queries and retries.
THEOREM ServerKeepsPool ==
  ServerSpec => []Ownership /\ LightestFirst /\ CoolingPurges /\ KeepsTrack
  BY ServerImplementsPool, OwnershipCorrect, GetsLightest, CoolingIsPurged,
     ImplementsConnLife, PTL DEF UsesPool

-----------------------------------------------------------------------------
(* The shape of the server and its permits *)

\* The values of the server's own variables.  That avail does not pass Permits
\* is a matter of counting.
Shape ==
  /\ phase \in [Workers -> Phases]
  /\ attempt \in [Workers -> 0..Retries]
  /\ avail \in Nat
  /\ waiting \in Seq(Workers)

\* The queue of the semaphore: the waiting queries, each in one place.
Queued ==
  /\ \A w \in Workers : phase[w] = "waiting" <=> \E i \in DOMAIN waiting : waiting[i] = w
  /\ \A i, j \in DOMAIN waiting : waiting[i] = waiting[j] => i = j

\* PermitsConserved, with the finiteness that counting needs.
Counted ==
  /\ IsFiniteSet(Admitted)
  /\ Cardinality(Admitted) + avail = Permits
  /\ waiting # <<>> => avail = 0

\* A query works with the pool only while it is in RecursiveQuery's loop.
Borrows == \A w \in Workers : pc[w] # "start" => phase[w] = "querying"

\* The one reply of a query is written right before it gives its permit back.
OneReply == replies = [w \in Workers |-> IF phase[w] = "release" THEN 1 ELSE 0]

SInv == Shape /\ Queued /\ Counted /\ Borrows /\ OneReply

USE ServerAssumption DEF Phases

\* The invariant holds of what NewMutexServer returns.
LEMMA InitSInv == ServerInit => SInv
<1> SUFFICES ASSUME ServerInit PROVE SInv
  OBVIOUS
<1>1. Shape /\ Queued
  BY DEF ServerInit, Shape, Queued
<1>2. Admitted = {}
  BY DEF ServerInit, Admitted
<1>3. Counted
  BY <1>2, FS_EmptySet DEF ServerInit, Counted
<1>4. Borrows /\ OneReply
  BY DEF ServerInit, Init, Borrows, OneReply
<1> QED
  BY <1>1, <1>3, <1>4 DEF SInv

\* A step within an admitted query's work changes neither the queue nor who
\* is admitted.
LEMMA AdmittedStays ==
  ASSUME SInv, NEW w \in Workers, phase[w] \notin {"none", "waiting"},
         NEW p \in Phases \ {"none", "waiting"},
         phase' = [phase EXCEPT ![w] = p], UNCHANGED <<avail, waiting>>
  PROVE  Queued' /\ Counted' /\ phase' \in [Workers -> Phases]
<1>1. Admitted' = Admitted
  BY DEF SInv, Shape, Admitted
<1>2. Queued'
  BY DEF SInv, Shape, Queued
<1> QED
  BY <1>1, <1>2 DEF SInv, Counted, Shape

\* HandleDNS: the query takes a permit or joins the end of the queue.
LEMMA HandleDNSSInv ==
  ASSUME SInv, NEW w \in Workers, HandleDNS(w)
  PROVE  SInv'
<1>1. phase[w] = "none" /\ attempt' = attempt /\ pc' = pc /\ replies' = replies
  BY DEF HandleDNS, vars, workerVars
<1>2. CASE avail > 0 /\ waiting = <<>>
  <2>1. avail' = avail - 1 /\ phase' = [phase EXCEPT ![w] = "lookup"] /\ waiting' = waiting
    BY <1>2 DEF HandleDNS, Acquire
  <2>2. Admitted' = Admitted \cup {w} /\ w \notin Admitted
    BY <1>1, <2>1 DEF SInv, Shape, Admitted
  <2>3. IsFiniteSet(Admitted') /\ Cardinality(Admitted') = Cardinality(Admitted) + 1
    BY <2>2, FS_AddElement DEF SInv, Counted
  <2>4. Cardinality(Admitted) \in Nat
    BY FS_CardinalityType DEF SInv, Counted
  <2>5. Shape' /\ Queued' /\ Borrows' /\ OneReply'
    BY <1>1, <1>2, <2>1 DEF SInv, Shape, Queued, Borrows, OneReply
  <2>6. Counted'
    BY <1>2, <2>1, <2>3, <2>4 DEF SInv, Shape, Counted
  <2> QED
    BY <2>5, <2>6 DEF SInv
<1>3. CASE ~(avail > 0 /\ waiting = <<>>)
  <2>1. avail' = avail /\ phase' = [phase EXCEPT ![w] = "waiting"] /\ waiting' = Append(waiting, w)
    BY <1>3 DEF HandleDNS, Acquire
  <2>2. Admitted' = Admitted
    BY <1>1, <2>1 DEF SInv, Shape, Admitted
  <2>3. avail = 0
    BY <1>3 DEF SInv, Shape, Counted
  <2>4. Shape' /\ Borrows' /\ OneReply'
    BY <1>1, <2>1 DEF SInv, Shape, Borrows, OneReply
  <2>5. waiting \in Seq(Workers) /\ \A i \in DOMAIN waiting : waiting[i] # w
    BY <1>1 DEF SInv, Shape, Queued
  <2>6. Queued'
    BY <1>1, <2>1, <2>5, AppendFacts DEF SInv, Shape, Queued
  <2>7. Counted'
    BY <2>1, <2>2, <2>3 DEF SInv, Counted
  <2> QED
    BY <2>4, <2>6, <2>7 DEF SInv
<1> QED
  BY <1>2, <1>3

\* Finish: the deferred Release (mutex_server.go:254).
LEMMA FinishSInv ==
  ASSUME SInv, NEW w \in Workers, Finish(w)
  PROVE  SInv'
<1>1. /\ phase[w] = "release" /\ attempt' = attempt /\ pc' = pc /\ w \in Admitted
      /\ replies' = [replies EXCEPT ![w] = 0]
  BY DEF Finish, vars, workerVars, Admitted
<1>2. Cardinality(Admitted) \in Nat /\ IsFiniteSet(Admitted)
  BY FS_CardinalityType DEF SInv, Counted
<1>3. IsFiniteSet(Admitted \ {w}) /\ Cardinality(Admitted \ {w}) = Cardinality(Admitted) - 1
  BY <1>1, <1>2, FS_RemoveElement
<1>4. pc[w] = "start"
  BY <1>1 DEF SInv, Borrows
<1>5. CASE waiting = <<>>
  <2>1. avail' = avail + 1 /\ phase' = [phase EXCEPT ![w] = "none"] /\ waiting' = waiting
    BY <1>5 DEF Finish, Release
  <2>2. Admitted' = Admitted \ {w}
    BY <2>1 DEF SInv, Shape, Admitted
  <2>3. Shape' /\ Queued' /\ Borrows'
    BY <1>1, <1>4, <1>5, <2>1 DEF SInv, Shape, Queued, Borrows, OneReply
  <2>4. OneReply'
    BY <1>1, <2>1 DEF SInv, Shape, OneReply
  <2>5. Counted'
    BY <1>2, <1>3, <1>5, <2>1, <2>2 DEF SInv, Shape, Counted
  <2> QED
    BY <2>3, <2>4, <2>5 DEF SInv
<1>6. CASE waiting # <<>>
  <2> DEFINE v == Head(waiting)
  <2>1. /\ avail' = avail /\ waiting' = Tail(waiting)
        /\ phase' = [phase EXCEPT ![w] = "none", ![v] = "lookup"]
    BY <1>6 DEF Finish, Release
  <2>2. waiting \in Seq(Workers) /\ waiting # <<>>
    BY <1>6 DEF SInv, Shape
  <2>3. /\ v \in Workers /\ 1 \in DOMAIN waiting /\ v = waiting[1] /\ Tail(waiting) \in Seq(Workers)
        /\ \A i \in DOMAIN Tail(waiting) : i + 1 \in DOMAIN waiting /\ Tail(waiting)[i] = waiting[i+1]
        /\ \A i \in DOMAIN waiting :
             i = 1 \/ (i - 1 \in DOMAIN Tail(waiting) /\ Tail(waiting)[i-1] = waiting[i])
        /\ DOMAIN Tail(waiting) \subseteq Nat
    BY <2>2, TailFacts
  <2> HIDE DEF v
  <2>4. phase[v] = "waiting" /\ v # w /\ v \notin Admitted
    BY <1>1, <2>3 DEF SInv, Queued, Admitted
  <2>5. Admitted' = (Admitted \ {w}) \cup {v}
    BY <2>1, <2>3, <2>4 DEF SInv, Shape, Admitted
  <2>6. IsFiniteSet(Admitted') /\ Cardinality(Admitted') = Cardinality(Admitted)
    BY <1>2, <1>3, <2>4, <2>5, FS_AddElement
  <2>7. Shape' /\ Borrows' /\ OneReply'
    BY <1>1, <1>4, <2>1, <2>3, <2>4 DEF SInv, Shape, Borrows, OneReply
  <2>8. \A i \in DOMAIN Tail(waiting) : Tail(waiting)[i] # v
    BY <2>3 DEF SInv, Queued
  <2>9. ASSUME NEW x \in Workers
        PROVE  phase'[x] = "waiting" <=> \E i \in DOMAIN waiting' : waiting'[i] = x
    <3>1. phase'[x] = IF x = v THEN "lookup" ELSE IF x = w THEN "none" ELSE phase[x]
      BY <2>1, <2>3, <2>4 DEF SInv, Shape
    <3>2. phase[x] = "waiting" <=> \E i \in DOMAIN waiting : waiting[i] = x
      BY DEF SInv, Queued
    <3>3. x # v => ((\E i \in DOMAIN waiting : waiting[i] = x)
                      <=> \E i \in DOMAIN Tail(waiting) : Tail(waiting)[i] = x)
      BY <2>3
    <3>4. x = v => ~ \E i \in DOMAIN Tail(waiting) : Tail(waiting)[i] = x
      BY <2>8
    <3> QED
      BY <1>1, <2>1, <2>4, <3>1, <3>2, <3>3, <3>4
  <2>10. \A i, j \in DOMAIN waiting' : waiting'[i] = waiting'[j] => i = j
    BY <2>1, <2>3 DEF SInv, Queued
  <2>11. Counted'
    BY <1>6, <2>1, <2>6 DEF SInv, Counted
  <2> QED
    BY <2>7, <2>9, <2>10, <2>11 DEF SInv, Queued
<1> QED
  BY <1>5, <1>6

\* Outside the loop a query's steps touch no attempt and no connection.
LEMMA OutsideSInv ==
  ASSUME SInv, NEW w \in Workers, CacheHit(w) \/ CacheMiss(w) \/ Reply(w) \/ Servfail(w)
  PROVE  SInv'
<1>1. /\ phase[w] \in {"lookup", "reply", "servfail"} /\ pc' = pc /\ UNCHANGED <<avail, waiting>>
      /\ attempt' \in [Workers -> 0..Retries]
  BY DEF CacheHit, CacheMiss, Reply, Servfail, vars, workerVars, SInv, Shape
<1>2. PICK p \in Phases \ {"none", "waiting"} : phase' = [phase EXCEPT ![w] = p]
  BY DEF CacheHit, CacheMiss, Reply, Servfail
<1>3. Queued' /\ Counted' /\ phase' \in [Workers -> Phases]
  BY <1>1, <1>2, AdmittedStays
<1>4. Borrows'
  BY <1>1, <1>2 DEF SInv, Shape, Borrows
<1>5. OneReply'
  BY DEF CacheHit, CacheMiss, Reply, Servfail, SInv, Shape, OneReply
<1> QED
  BY <1>1, <1>3, <1>4, <1>5 DEF SInv, Shape

\* An attempt, as far as Get, the dial and the exchange.
LEMMA AttemptingSInv ==
  ASSUME SInv, IInv, NEW w \in Workers, Attempting(w)
  PROVE  SInv'
<1>1. phase[w] = "querying" /\ UNCHANGED serverVars
  BY DEF Attempting
<1>2. \A v \in Workers : v # w => pc'[v] = pc[v]
  BY DEF Attempting, Get, GetCached, GetUpstream, NewConnection, ExchangeOk, ExchangeFails,
         IInv, TypeOK
<1> QED
  BY <1>1, <1>2 DEF serverVars, SInv, Shape, Queued, Counted, Borrows, OneReply, Admitted

\* The end of an attempt: the connection is gone, the loop goes on or ends.
LEMMA AttemptEndsSInv ==
  ASSUME SInv, IInv, NEW w \in Workers, AttemptFails(w) \/ AttemptSucceeds(w)
  PROVE  SInv'
<1>1. phase[w] = "querying" /\ UNCHANGED <<avail, waiting, replies>>
  BY DEF AttemptFails, AttemptSucceeds
<1>2. pc' = [pc EXCEPT ![w] = "start"] /\ pc \in [Workers -> {"start", "dialing", "exchanging", "adding", "closing"}]
  BY DEF AttemptFails, AttemptSucceeds, NewConnectionFails, CloseConnection, Add, IInv, TypeOK
<1>3. PICK p \in {"querying", "servfail", "reply"} : phase' = [phase EXCEPT ![w] = p]
  <2>1. CASE AttemptFails(w)
    <3>1. phase' = phase \/ phase' = [phase EXCEPT ![w] = "servfail"]
      BY <2>1 DEF AttemptFails, Retry
    <3>2. phase = [phase EXCEPT ![w] = "querying"]
      BY <1>1 DEF SInv, Shape
    <3> QED
      BY <3>1, <3>2
  <2>2. CASE AttemptSucceeds(w)
    BY <2>2 DEF AttemptSucceeds
  <2> QED
    BY <2>1, <2>2
<1>4. attempt' \in [Workers -> 0..Retries]
  BY DEF AttemptFails, AttemptSucceeds, Retry, SInv, Shape
<1>5. Queued' /\ Counted' /\ phase' \in [Workers -> Phases]
  BY <1>1, <1>3, AdmittedStays
<1>6. Borrows' /\ OneReply'
  BY <1>1, <1>2, <1>3 DEF SInv, Shape, Borrows, OneReply
<1> QED
  BY <1>1, <1>4, <1>5, <1>6 DEF SInv, Shape

\* Every step keeps the invariant.
LEMMA NextSInv ==
  ASSUME SInv, IInv, [ServerNext]_allVars
  PROVE  SInv'
<1>1. CASE UNCHANGED allVars
  BY <1>1 DEF allVars, vars, workerVars, serverVars, SInv, Shape, Queued, Counted, Borrows,
              OneReply, Admitted
<1>2. CASE PoolStep
  BY <1>2 DEF PoolStep, Reap, Wake, workerVars, serverVars, SInv, Shape, Queued, Counted, Borrows,
              OneReply, Admitted
<1>3. ASSUME NEW w \in Workers, HandleDNS(w) PROVE SInv'
  BY <1>3, HandleDNSSInv
<1>4. ASSUME NEW w \in Workers, QueryStep(w) PROVE SInv'
  BY <1>4, OutsideSInv, AttemptingSInv, AttemptEndsSInv, FinishSInv DEF QueryStep
<1> QED
  BY <1>1, <1>2, <1>3, <1>4 DEF ServerNext

\* The server's invariant rests on the pool's.
LEMMA ServerInvariance == ServerSpec => [](SInv /\ IInv)
<1>1. SInv /\ IInv /\ [ServerNext]_allVars => SInv'
  BY NextSInv
<1> QED
  BY <1>1, InitSInv, PoolInvariance, PTL DEF ServerSpec

\* Permits are neither lost nor made, whichever way a query ends, and none
\* lies unused while a query waits (mutex_server.go:241-254).
THEOREM PermitsAreConserved == ServerSpec => []PermitsConserved
<1>1. SInv => PermitsConserved
  BY DEF SInv, Shape, Queued, Counted, PermitsConserved
<1> QED
  BY <1>1, ServerInvariance, PTL

\* Attempt numbers stay within UpstreamRetries (mutex_server.go:146), and the
\* server's and the pool's variables have the shape the code gives them.
THEOREM ServerTypeCorrect == ServerSpec => []ServerTypeOK
<1>1. ASSUME SInv, IInv PROVE ServerTypeOK
  <2>1. Cardinality(Admitted) \in Nat
    BY <1>1, FS_CardinalityType DEF SInv, Counted
  <2>2. avail \in 0..Permits
    BY <1>1, <2>1 DEF SInv, Shape, Counted
  <2> QED
    BY <1>1, <2>2 DEF SInv, Shape, OneReply, IInv, ServerTypeOK
<1> QED
  BY <1>1, ServerInvariance, PTL

\* However attempts fail and are retried, no more connections are away from
\* the pool than the semaphore has permits, and only admitted queries that
\* are in RecursiveQuery's loop have them.
THEOREM BorrowingIsBounded == ServerSpec => []BorrowersAdmitted
<1>1. ASSUME SInv, IInv PROVE BorrowersAdmitted
  <2> DEFINE T == { c \in Open : ~Pooled(c) /\ ~Reaped(c) }
             g == [c \in T |-> CHOOSE w \in Workers : held[w] = c]
  <2>1. ASSUME NEW c \in T PROVE g[c] \in Workers /\ held[g[c]] = c /\ c # NoConn
    <3>1. \E w \in Workers : held[w] = c
      BY <1>1, <2>1 DEF IInv, Ownership, Accounted, Held, Open
    <3> QED
      BY <2>1, <3>1, PoolAssumption DEF Open
  <2>2. ASSUME NEW c \in T PROVE g[c] \in Admitted
    BY <1>1, <2>1 DEF SInv, Borrows, IInv, Handling, Admitted
  <2>3. g \in Injection(T, Admitted)
    BY <2>1, <2>2 DEF Injection, IsInjective
  <2> HIDE DEF T, g
  <2>4. IsFiniteSet(Admitted) /\ Cardinality(Admitted) \in Nat
    BY <1>1, FS_CardinalityType DEF SInv, Counted
  <2>5. Cardinality(T) <= Cardinality(Admitted) /\ IsFiniteSet(T)
    BY <2>3, <2>4, FS_Injection
  <2>6. Cardinality(T) \in Nat
    BY <2>5, FS_CardinalityType
  <2>7. Cardinality(T) <= Permits
    BY <1>1, <2>4, <2>5, <2>6 DEF SInv, Shape, Counted
  <2> QED
    BY <1>1, <2>7 DEF SInv, Borrows, BorrowersAdmitted, T
<1> QED
  BY <1>1, ServerInvariance, PTL

-----------------------------------------------------------------------------
(* The server keeps the promise of QueryService *)

\* What a client sees of a query in phase p.
Seen(p) == IF p = "none" THEN "out" ELSE IF p = "waiting" THEN "queued"
           ELSE IF p = "release" THEN "answered" ELSE "running"

\* One reply, right before the permit goes: so the phase alone tells what a
\* client sees, before a step and after it.
LEMMA StatusByPhase ==
  ASSUME SInv, SInv', NEW w \in Workers
  PROVE  StatusOf(w) = Seen(phase[w]) /\ StatusOf(w)' = Seen(phase'[w])
<1>1. replies[w] = IF phase[w] = "release" THEN 1 ELSE 0
  BY DEF SInv, OneReply
<1>2. replies'[w] = IF phase'[w] = "release" THEN 1 ELSE 0
  BY DEF SInv, OneReply
<1>3. StatusOf(w) = Seen(phase[w])
  BY <1>1 DEF StatusOf, Admitted, Seen
<1>4. StatusOf(w)' = Seen(phase'[w])
  BY <1>2 DEF StatusOf, Admitted, Seen
<1> QED
  BY <1>3, <1>4

\* The queries the service works on are the admitted ones.
LEMMA ServedAreAdmitted ==
  ASSUME SInv, SInv'
  PROVE  Service!Served = Admitted
<1>1. \A w \in Workers : StatusOf(w) = Seen(phase[w])
  BY StatusByPhase
<1> QED
  BY <1>1 DEF Service!Served, Admitted, Seen

\* A step of one query in which its client sees nothing.
LEMMA NothingSeen ==
  ASSUME SInv, SInv', waiting' = waiting, NEW w \in Workers,
         \A v \in Workers : v # w => phase'[v] = phase[v],
         Seen(phase'[w]) = Seen(phase[w])
  PROVE  UNCHANGED Service!serviceVars
<1>1. \A v \in Workers : StatusOf(v)' = StatusOf(v)
  BY StatusByPhase
<1> QED
  BY <1>1 DEF Service!serviceVars

\* HandleDNS is Receive: there is a permit for the query exactly when fewer
\* than Permits are admitted.
LEMMA HandleDNSReceives ==
  ASSUME SInv, SInv', NEW w \in Workers, HandleDNS(w)
  PROVE  Service!Receive(w)
<1> DEFINE S == [v \in Workers |-> StatusOf(v)]
<1>1. phase[w] = "none" /\ phase \in [Workers -> Phases]
  BY DEF HandleDNS, SInv, Shape
<1>2. S[w] = "out"
  BY <1>1, StatusByPhase DEF Seen
<1>3. Service!Served = Admitted
  BY ServedAreAdmitted
<1>4. Cardinality(Admitted) \in Nat /\ avail \in Nat /\ Cardinality(Admitted) + avail = Permits
  BY FS_CardinalityType DEF SInv, Shape, Counted
<1>5. avail > 0 <=> Service!Cardinality(Service!Served) < Permits
  <2>1. Service!Cardinality(Admitted) = Cardinality(Admitted)
    BY DEF Cardinality, Service!Cardinality
  <2> QED
    BY <1>3, <1>4, <2>1
<1>6. ASSUME NEW p \in {"lookup", "waiting"}, phase' = [phase EXCEPT ![w] = p]
      PROVE  S' = [S EXCEPT ![w] = Seen(p)]
  <2>1. \A v \in Workers : StatusOf(v)' = IF v = w THEN Seen(p) ELSE StatusOf(v)
    BY <1>1, <1>6, StatusByPhase
  <2> QED
    BY <2>1
<1>7. CASE avail > 0 /\ waiting = <<>>
  <2>1. phase' = [phase EXCEPT ![w] = "lookup"] /\ waiting' = waiting
    BY <1>7 DEF HandleDNS, Acquire
  <2>2. S' = [S EXCEPT ![w] = "running"]
    BY <1>6, <2>1 DEF Seen
  <2> QED
    BY <1>2, <1>5, <1>7, <2>1, <2>2 DEF Service!Receive
<1>8. CASE ~(avail > 0 /\ waiting = <<>>)
  <2>1. phase' = [phase EXCEPT ![w] = "waiting"] /\ waiting' = Append(waiting, w)
    BY <1>8 DEF HandleDNS, Acquire
  <2>2. S' = [S EXCEPT ![w] = "queued"]
    BY <1>6, <2>1 DEF Seen
  <2> QED
    BY <1>2, <1>5, <1>8, <2>1, <2>2 DEF Service!Receive
<1> QED
  BY <1>7, <1>8

\* WriteMsg, of the answer or of SERVFAIL, is Answer.
LEMMA RepliesAnswer ==
  ASSUME SInv, SInv', NEW w \in Workers, Reply(w) \/ Servfail(w)
  PROVE  Service!Answer(w)
<1>1. /\ phase[w] \in {"reply", "servfail"} /\ phase' = [phase EXCEPT ![w] = "release"]
      /\ waiting' = waiting /\ phase \in [Workers -> Phases]
  BY DEF Reply, Servfail, SInv, Shape
<1>2. StatusOf(w) = "running"
  BY <1>1, StatusByPhase DEF Seen
<1>3. \A v \in Workers : StatusOf(v)' = IF v = w THEN "answered" ELSE StatusOf(v)
  BY <1>1, StatusByPhase DEF Seen
<1> QED
  BY <1>1, <1>2, <1>3 DEF Service!Answer

\* The deferred Release is Finish.
LEMMA FinishFinishes ==
  ASSUME SInv, SInv', NEW w \in Workers, Finish(w)
  PROVE  Service!Finish(w)
<1>1. phase[w] = "release" /\ phase \in [Workers -> Phases] /\ waiting \in Seq(Workers)
  BY DEF Finish, SInv, Shape
<1>2. StatusOf(w) = "answered"
  BY <1>1, StatusByPhase DEF Seen
<1>3. CASE waiting = <<>>
  <2>1. phase' = [phase EXCEPT ![w] = "none"] /\ waiting' = waiting
    BY <1>3 DEF Finish, Release
  <2>2. \A v \in Workers : StatusOf(v)' = IF v = w THEN "out" ELSE StatusOf(v)
    BY <1>1, <2>1, StatusByPhase DEF Seen
  <2> QED
    BY <1>2, <1>3, <2>1, <2>2 DEF Service!Finish
<1>4. CASE waiting # <<>>
  <2> DEFINE h == Head(waiting)
  <2>1. phase' = [phase EXCEPT ![w] = "none", ![h] = "lookup"] /\ waiting' = Tail(waiting)
    BY <1>4 DEF Finish, Release
  <2>2. h \in Workers /\ h = waiting[1] /\ 1 \in DOMAIN waiting
    BY <1>1, <1>4, TailFacts
  <2> HIDE DEF h
  <2>3. h # w
    BY <1>1, <2>2 DEF SInv, Queued
  <2>4. \A v \in Workers : StatusOf(v)' = IF v = h THEN "running"
                                            ELSE IF v = w THEN "out" ELSE StatusOf(v)
    BY <1>1, <2>1, <2>2, <2>3, StatusByPhase DEF Seen
  <2> QED
    BY <1>2, <1>4, <2>1, <2>2, <2>3, <2>4 DEF Service!Finish, h
<1> QED
  BY <1>3, <1>4

\* Every step of the server is one of the service, or none.
LEMMA ServerStepIsServiceStep ==
  ASSUME SInv, SInv', IInv, [ServerNext]_allVars
  PROVE  [Service!ServiceNext]_(Service!serviceVars)
<1>1. CASE UNCHANGED serverVars
  BY <1>1 DEF serverVars, Service!serviceVars, StatusOf, Admitted
<1>2. CASE PoolStep
  BY <1>1, <1>2 DEF PoolStep
<1>3. ASSUME NEW w \in Workers, HandleDNS(w) PROVE Service!ServiceNext
  BY <1>3, HandleDNSReceives DEF Service!ServiceNext
<1>4. ASSUME NEW w \in Workers, QueryStep(w)
      PROVE  Service!ServiceNext \/ UNCHANGED Service!serviceVars
  <2>1. CASE CacheHit(w) \/ CacheMiss(w)
    <3>1. /\ waiting' = waiting /\ \A v \in Workers : v # w => phase'[v] = phase[v]
          /\ Seen(phase'[w]) = Seen(phase[w])
      BY <2>1 DEF CacheHit, CacheMiss, SInv, Shape, Seen
    <3> QED
      BY <3>1, NothingSeen
  <2>2. CASE Attempting(w)
    BY <1>1, <2>2 DEF Attempting
  <2>3. CASE AttemptFails(w) \/ AttemptSucceeds(w)
    <3>1. /\ waiting' = waiting /\ \A v \in Workers : v # w => phase'[v] = phase[v]
          /\ Seen(phase'[w]) = Seen(phase[w])
      BY <2>3 DEF AttemptFails, AttemptSucceeds, Retry, SInv, Shape, Seen
    <3> QED
      BY <3>1, NothingSeen
  <2>4. CASE Reply(w) \/ Servfail(w)
    BY <2>4, RepliesAnswer DEF Service!ServiceNext
  <2>5. CASE Finish(w)
    BY <2>5, FinishFinishes DEF Service!ServiceNext
  <2> QED
    BY <1>4, <2>1, <2>2, <2>3, <2>4, <2>5 DEF QueryStep
<1>5. CASE UNCHANGED allVars
  BY <1>1, <1>5 DEF allVars
<1> QED
  BY <1>2, <1>3, <1>4, <1>5 DEF ServerNext

\* The server keeps the promise of QueryService (mutex_server.go:227-283): it
\* admits queries in the order they came, answers each once, and only then
\* passes its permit on, whatever caches, retries and the pool do.
THEOREM ServerImplementsService == ServerSpec => KeepsPromise
<1>1. ASSUME ServerInit PROVE Service!ServiceInit
  <2>1. waiting = <<>> /\ \A w \in Workers : phase[w] = "none"
    BY <1>1 DEF ServerInit
  <2>2. ASSUME NEW w \in Workers PROVE StatusOf(w) = "out"
    BY <2>1 DEF StatusOf, Admitted
  <2> QED
    BY <2>1, <2>2 DEF Service!ServiceInit
<1>2. (SInv /\ IInv) /\ (SInv /\ IInv)' /\ [ServerNext]_allVars
        => [Service!ServiceNext]_(Service!serviceVars)
  BY ServerStepIsServiceStep
<1> QED
  BY <1>1, <1>2, ServerInvariance, PTL DEF ServerSpec, KeepsPromise, Service!ServiceSpec
=============================================================================
