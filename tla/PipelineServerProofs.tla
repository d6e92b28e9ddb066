------------------------ MODULE PipelineServerProofs ------------------------
(***************************************************************************)
(* Proofs about PipelineServer, for any number of queries, connections and *)
(* dials.                                                                  *)
(***************************************************************************)
EXTENDS PipelineServer, TLAPS

USE PipelineAssumption DEF Crew

\* What a query has by the time a worker has it: a connection from the moment
\* it is dispatched to the querier, a real one once the exchange was not a
\* panic, and its reply when the finisher gives it up.
Equipped ==
  /\ at["querier"] \in {"dispatch", "fail"} => conn[work["querier"]] \in Conns
  /\ at["finisher"] # "select" => conn[work["finisher"]] \in Conns
  /\ at["finisher"] = "dispatch" => work["finisher"] \notin unanswered

\* Delivered and ConnsExclusive lean on each other and on Equipped: the
\* connection that comes back to the pool has to be a real one, of a query no
\* other worker has.
PInv == TypeOK /\ Delivered /\ ConnsExclusive /\ Equipped

\* Who has which query.
LEMMA InFlightFacts ==
  ASSUME NEW q, q # NoQuery
  PROVE  q \in InFlight <=> \/ q \in asking
                            \/ q = work["cacher"] \/ q = work["connector"]
                            \/ q = work["querier"] \/ q = work["finisher"]
  BY DEF InFlight

\* Every point of a loop is one of these.
LEMMA PointFacts ==
  /\ Points("cacher") = {"select", "fail"}
  /\ Points("connector") = {"select", "assign", "dispatch", "fail"}
  /\ Points("querier") = {"select", "exchange", "dispatch", "fail"}
  /\ Points("finisher") = {"select", "write", "dispatch"}
  /\ UNION { Points(g) : g \in Crew } = {"select", "assign", "exchange", "write", "dispatch", "fail"}
<1>1. /\ Points("cacher") = {"select", "fail"}
      /\ Points("connector") = {"select", "assign", "dispatch", "fail"}
      /\ Points("querier") = {"select", "exchange", "dispatch", "fail"}
      /\ Points("finisher") = {"select", "write", "dispatch"}
  BY DEF Points
<1>2. { Points(g) : g \in Crew } = {Points("cacher"), Points("connector"), Points("querier"), Points("finisher")}
  OBVIOUS
<1>3. UNION { Points(g) : g \in Crew } =
        {"select", "fail"} \cup {"select", "assign", "dispatch", "fail"}
          \cup {"select", "exchange", "dispatch", "fail"} \cup {"select", "write", "dispatch"}
  BY <1>1, <1>2
<1> QED
  BY <1>1, <1>3

\* PInv, worker by worker, without the sets of points.
Hands ==
  /\ work \in [Crew -> Queries \cup {NoQuery}]
  /\ at \in [Crew -> {"select", "assign", "exchange", "write", "dispatch", "fail"}]
  /\ at["cacher"] \in {"select", "fail"}
  /\ at["connector"] \in {"select", "assign", "dispatch", "fail"}
  /\ at["querier"] \in {"select", "exchange", "dispatch", "fail"}
  /\ at["finisher"] \in {"select", "write", "dispatch"}
  /\ \A g \in Crew : work[g] = NoQuery <=> at[g] = "select"
Values ==
  /\ asking \subseteq Queries /\ unanswered \subseteq Queries
  /\ conn \in [Queries -> Conns \cup {NoConn, ZeroConn}]
  /\ dials \in [Queries -> 0..MaxDials]
  /\ pooled \subseteq Conns
  /\ panicked \in BOOLEAN

\* TypeOK in these parts.
LEMMA TypeParts == (TypeOK <=> Hands /\ Values) /\ (TypeOK' <=> Hands' /\ Values')
<1>1. TypeOK <=> Hands /\ Values
  BY PointFacts DEF TypeOK, Hands, Values
<1>2. TypeOK' <=> Hands' /\ Values'
  BY PointFacts DEF TypeOK, Hands, Values
<1> QED
  BY <1>1, <1>2

\* The invariant holds of the pipeline NewPipelineServer starts.
LEMMA InitPInv == Init => PInv
<1> SUFFICES ASSUME Init PROVE PInv
  OBVIOUS
<1>1. Hands /\ Values
  <2>1. dials \in [Queries -> 0..MaxDials]
    BY DEF Init
  <2>2. Hands
    BY DEF Init, Hands
  <2> QED
    BY <2>1, <2>2 DEF Init, Values
<1>2. InFlight = {}
  BY DEF Init, InFlight
<1> QED
  BY <1>1, <1>2, TypeParts DEF Init, PInv, Delivered, ConnsExclusive, Equipped

\* HandleDNS: a query nobody has starts with no connection.
LEMMA HandleDNSPInv ==
  ASSUME PInv, NEW q \in Queries, HandleDNS(q), UNCHANGED panicked
  PROVE  PInv'
<1>1. Hands' /\ Values'
  BY TypeParts DEF PInv, HandleDNS, Hands, Values
<1>2. InFlight' = InFlight \cup {q}
  BY DEF HandleDNS, InFlight
<1>3. \A g \in Crew : work[g] # q
  BY DEF HandleDNS, InFlight
<1>4. Delivered'
  BY <1>2, <1>3 DEF PInv, HandleDNS, Delivered
<1>5. conn \in [Queries -> Conns \cup {NoConn, ZeroConn}] /\ InFlight \subseteq Queries
  BY TypeParts DEF PInv, Hands, Values, InFlight
<1>6. ConnsExclusive'
  BY <1>2, <1>5 DEF PInv, HandleDNS, ConnsExclusive
<1>7. Equipped'
  <2>1. \A g \in Crew : work[g] # NoQuery => conn'[work[g]] = conn[work[g]]
    BY <1>3, <1>5, TypeParts DEF HandleDNS, PInv, Hands
  <2> QED
    BY <1>3, <2>1, TypeParts DEF PInv, HandleDNS, Equipped, Hands
<1> QED
  BY <1>1, <1>4, <1>6, <1>7, TypeParts DEF PInv

\* A step that moves queries between goroutines and touches no connection.
LEMMA MovePInv ==
  ASSUME PInv, UNCHANGED <<conn, dials, pooled, panicked>>,
         Hands', Delivered', Equipped', asking' \subseteq Queries, unanswered' \subseteq Queries,
         InFlight' = InFlight
  PROVE  PInv'
<1>1. Values'
  BY TypeParts DEF PInv, Values
<1>2. ConnsExclusive'
  BY DEF PInv, ConnsExclusive
<1> QED
  BY <1>1, <1>2, TypeParts DEF PInv

\* A worker sends its query to another one.
LEMMA HandoverPInv ==
  ASSUME PInv, NEW g \in Crew, NEW h \in Crew, NEW p, NEW then, Handover(g, p, h, then),
         p # "select", g # h, UNCHANGED <<asking, unanswered, conn, dials, pooled, panicked>>,
         Hands', Equipped'
  PROVE  PInv'
<1>1. work \in [Crew -> Queries \cup {NoQuery}] /\ work[g] # NoQuery /\ work[h] = NoQuery
  BY TypeParts DEF PInv, Hands, Handover
<1>2. work' = [work EXCEPT ![g] = NoQuery, ![h] = work[g]]
  BY DEF Handover
<1>3. \A x \in Crew : work'[x] = IF x = h THEN work[g] ELSE IF x = g THEN NoQuery ELSE work[x]
  BY <1>1, <1>2
<1>4. InFlight' = InFlight
  <2>1. ASSUME NEW q PROVE q \in InFlight' <=> q \in InFlight
    BY <1>1, <1>3 DEF InFlight
  <2> QED
    BY <2>1
<1>5. Delivered'
  BY <1>1, <1>3, <1>4 DEF PInv, Delivered
<1> QED
  BY <1>4, <1>5, MovePInv, TypeParts DEF PInv, Values

\* The four channels between two workers: cacher to connector, connector to
\* querier, querier back to the connector, querier to finisher.
LEMMA HandoversPInv ==
  ASSUME PInv, CacherFails \/ ConnectorDispatches \/ QuerierFails \/ QuerierDispatches,
         UNCHANGED panicked
  PROVE  PInv'
<1> USE DEF Handover, PInv, Hands, Equipped
<1>1. CASE CacherFails
  <2>1. Hands' /\ Equipped'
    BY <1>1, TypeParts DEF CacherFails
  <2> QED
    BY <1>1, <2>1, HandoverPInv DEF CacherFails
<1>2. CASE ConnectorDispatches
  <2>1. Hands' /\ Equipped'
    BY <1>2, TypeParts DEF ConnectorDispatches
  <2> QED
    BY <1>2, <2>1, HandoverPInv DEF ConnectorDispatches
<1>3. CASE QuerierFails
  <2>1. Hands' /\ Equipped'
    BY <1>3, TypeParts DEF QuerierFails
  <2> QED
    BY <1>3, <2>1, HandoverPInv DEF QuerierFails
<1>4. CASE QuerierDispatches
  <2>1. Hands' /\ Equipped'
    BY <1>4, TypeParts DEF QuerierDispatches
  <2> QED
    BY <1>4, <2>1, HandoverPInv DEF QuerierDispatches
<1> QED
  BY <1>1, <1>2, <1>3, <1>4

\* The cacher takes a query from the goroutine of HandleDNS.
LEMMA CacherReceivesPInv ==
  ASSUME PInv, NEW q \in Queries, CacherReceives(q), UNCHANGED panicked
  PROVE  PInv'
<1>1. work["cacher"] = NoQuery /\ work \in [Crew -> Queries \cup {NoQuery}] /\ q # NoQuery
  BY TypeParts DEF PInv, Hands, CacherReceives, Proceed
<1>2. \A x \in Crew : work'[x] = IF x = "cacher" THEN q ELSE work[x]
  BY <1>1 DEF CacherReceives
<1>3. InFlight' = InFlight
  <2>1. ASSUME NEW r PROVE r \in InFlight' <=> r \in InFlight
    BY <1>1, <1>2 DEF InFlight, CacherReceives
  <2> QED
    BY <2>1
<1>4. Hands'
  BY <1>1, TypeParts DEF PInv, Hands, CacherReceives, Proceed
<1>5. Delivered'
  BY <1>1, <1>2, <1>3 DEF PInv, Delivered, CacherReceives
<1>6. Equipped'
  BY <1>1, <1>2, TypeParts DEF PInv, Equipped, Hands, CacherReceives, Proceed
<1> QED
  BY <1>3, <1>4, <1>5, <1>6, MovePInv, TypeParts DEF CacherReceives, PInv, Values

\* The worker keeps its query: the points of its loop move, no query does.
LEMMA SamePlaces ==
  ASSUME UNCHANGED <<asking, work>>
  PROVE  InFlight' = InFlight
  BY DEF InFlight

\* AssignConnection: the query in the connector's hands gets a connection that
\* is nobody's, or none that could be somebody's.
LEMMA AssignPInv ==
  ASSUME PInv, AssignConnection, UNCHANGED panicked
  PROVE  PInv'
<1> DEFINE q == work["connector"]
<1>1. /\ at["connector"] = "assign" /\ UNCHANGED <<asking, unanswered, work>>
      /\ \E p \in {"dispatch", "fail"} : at' = [at EXCEPT !["connector"] = p]
  BY DEF AssignConnection, AssignPooled, AssignDialled, AssignNothing, AssignFails, Proceed
<1>2. Hands /\ Values /\ q \in Queries /\ q \in InFlight
  BY <1>1, TypeParts DEF PInv, Hands, InFlight
<1>3. Hands'
  BY <1>1, <1>2 DEF Hands
<1>4. InFlight' = InFlight
  BY <1>1, SamePlaces
<1>5. Delivered'
  BY <1>1, <1>4 DEF PInv, Delivered
<1>6. PICK c \in Conns \cup {NoConn, ZeroConn} : conn' = [conn EXCEPT ![q] = c]
  <2>1. CASE AssignFails
    BY <1>2, <2>1 DEF AssignFails, Values
  <2>2. CASE AssignNothing
    BY <2>2 DEF AssignNothing
  <2>3. CASE AssignPooled
    BY <1>2, <2>3 DEF AssignPooled, Values
  <2>4. CASE AssignDialled
    BY <2>4 DEF AssignDialled
  <2> QED
    BY <2>1, <2>2, <2>3, <2>4 DEF AssignConnection
<1>7. dials' \in [Queries -> 0..MaxDials] /\ pooled' \subseteq pooled
  <2>1. CASE AssignDialled
    <3>1. PICK n \in dials[q] + 1 .. MaxDials : dials' = [dials EXCEPT ![q] = n]
      BY <2>1 DEF AssignDialled
    <3>2. n \in 0..MaxDials
      BY <1>2, <3>1 DEF Values
    <3> QED
      BY <1>2, <2>1, <3>1, <3>2 DEF AssignDialled, Values
  <2> QED
    BY <1>2, <2>1 DEF AssignConnection, AssignFails, AssignNothing, AssignPooled, Values
<1>8. Values'
  BY <1>1, <1>2, <1>6, <1>7 DEF Values
<1>9. ASSUME NEW r \in InFlight PROVE r \in Queries /\ conn'[r] = IF r = q THEN c ELSE conn[r]
  BY <1>2, <1>6, <1>9 DEF Hands, Values, InFlight
<1>10. \A r \in InFlight : r # q /\ conn[r] \in Conns => conn[r] \notin pooled'
  BY <1>7 DEF PInv, ConnsExclusive
<1>11. c \in Conns => c \notin pooled' /\ \A r \in InFlight : r # q => conn[r] # c
  <2>1. CASE AssignFails
    BY <1>2, <1>9, <2>1 DEF AssignFails, PInv, ConnsExclusive
  <2>2. CASE AssignNothing
    BY <1>2, <1>6, <2>2 DEF AssignNothing, Values
  <2>3. CASE AssignPooled
    BY <1>2, <1>6, <1>9, <2>3 DEF AssignPooled, PInv, ConnsExclusive, Values
  <2>4. CASE AssignDialled
    BY <1>2, <1>6, <1>9, <2>4 DEF AssignDialled, Attached, Values
  <2> QED
    BY <2>1, <2>2, <2>3, <2>4 DEF AssignConnection
<1>12. ConnsExclusive'
  BY <1>4, <1>9, <1>10, <1>11 DEF PInv, ConnsExclusive
<1>13. Equipped'
  <2>1. \A g \in Crew : g # "connector" /\ work[g] # NoQuery => conn'[work[g]] = conn[work[g]]
    BY <1>2, <1>9 DEF PInv, Delivered, InFlight
  <2> QED
    BY <1>1, <1>2, <2>1 DEF PInv, Equipped, Hands
<1> QED
  BY <1>3, <1>5, <1>8, <1>12, <1>13, TypeParts DEF PInv

\* The exchange, its panic, and the write.
LEMMA WorkPInv ==
  ASSUME PInv,
         \/ (ExchangeOk \/ ExchangeFails \/ FinisherWrites) /\ UNCHANGED panicked
         \/ ExchangePanics
  PROVE  PInv'
<1>1. InFlight' = InFlight /\ UNCHANGED <<asking, work, conn, dials, pooled>>
  BY SamePlaces DEF ExchangeOk, ExchangeFails, FinisherWrites, ExchangePanics
<1>2. Hands'
  BY TypeParts DEF PInv, Hands, ExchangeOk, ExchangeFails, FinisherWrites, ExchangePanics, Proceed
<1>3. Values'
  BY <1>1, TypeParts DEF PInv, Values, ExchangeOk, ExchangeFails, FinisherWrites, ExchangePanics
<1>4. unanswered' \subseteq unanswered
  BY DEF ExchangeOk, ExchangeFails, FinisherWrites, ExchangePanics
<1>5. Delivered' /\ ConnsExclusive'
  BY <1>1, <1>4 DEF PInv, Delivered, ConnsExclusive
<1>6. Equipped'
  BY <1>1, TypeParts DEF PInv, Hands, Equipped, ExchangeOk, ExchangeFails, FinisherWrites,
     ExchangePanics, Proceed
<1> QED
  BY <1>2, <1>3, <1>5, <1>6, TypeParts DEF PInv

\* The finisher gives the query up, and its connection to the pool.
LEMMA FinisherDispatchesPInv ==
  ASSUME PInv, FinisherDispatches, UNCHANGED panicked
  PROVE  PInv'
<1> DEFINE q == work["finisher"]
<1>1. Hands /\ Values /\ at["finisher"] = "dispatch" /\ q \in Queries /\ q \notin unanswered
  BY TypeParts DEF PInv, Hands, Equipped, FinisherDispatches, Proceed
<1>2. conn[q] \in Conns /\ q \in InFlight
  BY <1>1 DEF PInv, Equipped, InFlight
<1>3. /\ UNCHANGED <<asking, unanswered, conn, dials>>
      /\ work' = [work EXCEPT !["finisher"] = NoQuery]
      /\ at' = [at EXCEPT !["finisher"] = "select"]
      /\ pooled' \subseteq pooled \cup {conn[q]}
  BY DEF FinisherDispatches, Proceed
<1>4. InFlight' = InFlight \ {q}
  <2>1. \A x \in Crew : work'[x] = IF x = "finisher" THEN NoQuery ELSE work[x]
    BY <1>1, <1>3 DEF Hands
  <2>2. q \notin asking /\ \A x \in Crew : x # "finisher" => work[x] # q
    BY <1>1 DEF PInv, Delivered
  <2>3. ASSUME NEW r PROVE r \in InFlight' <=> r \in InFlight \ {q}
    BY <1>1, <1>3, <2>1, <2>2 DEF InFlight
  <2> QED
    BY <2>3
<1>5. Hands' /\ Values'
  BY <1>1, <1>2, <1>3 DEF Hands, Values
<1>6. Delivered'
  BY <1>1, <1>3, <1>4 DEF PInv, Delivered, Hands, Values
<1>7. ConnsExclusive'
  BY <1>2, <1>3, <1>4 DEF PInv, ConnsExclusive
<1>8. Equipped'
  BY <1>1, <1>3 DEF PInv, Equipped, Hands
<1> QED
  BY <1>5, <1>6, <1>7, <1>8, TypeParts DEF PInv

\* Every step keeps the invariant.
LEMMA NextPInv ==
  ASSUME PInv, [Next]_vars
  PROVE  PInv'
<1>1. CASE UNCHANGED vars
  BY <1>1 DEF vars, PInv, TypeOK, Delivered, ConnsExclusive, Equipped, InFlight
<1>2. CASE Purge /\ UNCHANGED panicked
  <2>1. UNCHANGED <<asking, unanswered, work, at, conn, dials, panicked>> /\ pooled' \subseteq pooled
    BY <1>2 DEF Purge
  <2>2. Hands' /\ Values'
    BY <2>1, TypeParts DEF PInv, Hands, Values
  <2>3. InFlight' = InFlight
    BY <2>1, SamePlaces
  <2> QED
    BY <2>1, <2>2, <2>3, TypeParts DEF PInv, Delivered, ConnsExclusive, Equipped
<1> QED
  BY <1>1, <1>2, HandleDNSPInv, HandoversPInv, CacherReceivesPInv, AssignPInv, WorkPInv,
     FinisherDispatchesPInv DEF Next, CrewStep, CacherStep, QuerierStep

\* The invariant of the pipeline.
LEMMA PipelineInvariance == Spec => []PInv
  BY InitPInv, NextPInv, PTL DEF Spec

\* Each worker is at a point of its own loop and holds a query just outside
\* its select; ConnectionRetries stays within the limit
\* (pipeline_server.go:193).
THEOREM TypeCorrect == Spec => []TypeOK
<1>1. PInv => TypeOK
  BY DEF PInv
<1> QED
  BY <1>1, PipelineInvariance, PTL

\* No query is lost or worked on twice between the workers.
THEOREM QueriesDelivered == Spec => []Delivered
<1>1. PInv => Delivered
  BY DEF PInv
<1> QED
  BY <1>1, PipelineInvariance, PTL

\* No connection serves two queries, or one while the pool has it, although
\* failed exchanges are retried while others finish.
THEOREM ConnsAreExclusive == Spec => []ConnsExclusive
<1>1. PInv => ConnsExclusive
  BY DEF PInv
<1> QED
  BY <1>1, PipelineInvariance, PTL

\* No worker loses a connection: a query that no longer has one gave it back
\* to the pool, or has failed with it and is assigned another
\* (pipeline_server.go:149, server.go:139).
THEOREM NoConnDropped == Spec => NoneDropped
<1> DEFINE Kept == \A c \in Conns : c \in Attached /\ c \notin Attached' =>
                      \/ c \in pooled'
                      \/ at["connector"] = "assign" /\ c = conn[work["connector"]]
<1>1. ASSUME PInv, [Next]_vars PROVE Kept
  <2> SUFFICES ASSUME NEW q \in InFlight, conn[q] \in Conns, conn[q] \notin Attached'
               PROVE  \/ conn[q] \in pooled'
                      \/ at["connector"] = "assign" /\ conn[q] = conn[work["connector"]]
    BY DEF Attached
  <2>1. Hands /\ Values /\ q \in Queries /\ q # NoQuery
    BY <1>1, TypeParts DEF PInv, InFlight, Hands, Values
  <2>2. q \notin InFlight' \/ conn'[q] # conn[q]
    BY DEF Attached
  <2>3. CASE UNCHANGED <<asking, work, conn>>
    BY <2>2, <2>3, SamePlaces
  <2>4. CASE \E r \in Queries : HandleDNS(r)
    BY <2>1, <2>2, <2>4, InFlightFacts DEF HandleDNS, InFlight, Values
  <2>5. CASE \/ \E r \in Queries : CacherReceives(r)
             \/ CacherFails \/ ConnectorDispatches \/ QuerierFails \/ QuerierDispatches
    BY <2>1, <2>2, <2>5, InFlightFacts
       DEF CacherReceives, CacherFails, ConnectorDispatches, QuerierFails, QuerierDispatches,
           Handover, Proceed, InFlight, Hands
  <2>6. CASE AssignConnection
    BY <2>1, <2>2, <2>6, InFlightFacts
       DEF AssignConnection, AssignPooled, AssignDialled, AssignNothing, AssignFails, Proceed,
           InFlight, Hands, Values
  <2>7. CASE FinisherDispatches
    BY <2>1, <2>2, <2>7, InFlightFacts DEF FinisherDispatches, Proceed, InFlight, Hands, Values
  <2> QED
    BY <1>1, <2>3, <2>4, <2>5, <2>6, <2>7
       DEF Next, CrewStep, CacherStep, QuerierStep, ExchangeOk, ExchangeFails, ExchangePanics,
           FinisherWrites, Purge, vars
<1> QED
  BY <1>1, PipelineInvariance, PTL DEF Spec, NoneDropped

\* Once the workers wait on each other, or the connector on a channel nobody
\* made, they do for good (pipeline_server.go:168).
THEOREM StuckStays == Spec => StuckForGood
<1>1. ASSUME PInv, [Next]_vars, Stuck PROVE Stuck'
  <2> USE DEF Stuck, FailBlocked, Embrace, Ring
  <2>1. Hands
    BY <1>1, TypeParts DEF PInv
  <2>2. CASE UNCHANGED at
    BY <1>1, <2>2
  <2>3. CASE ~UNCHANGED at
    BY <1>1, <2>1, <2>3 DEF Next, CrewStep, CacherStep, CacherReceives, CacherFails,
       AssignConnection, AssignPooled, AssignDialled, AssignNothing, AssignFails,
       ConnectorDispatches, QuerierStep, ExchangeOk, ExchangeFails, ExchangePanics, QuerierFails,
       QuerierDispatches, FinisherWrites, FinisherDispatches, Purge, HandleDNS, Handover, Proceed,
       vars, Hands
  <2> QED
    BY <2>2, <2>3
<1> QED
  BY <1>1, PipelineInvariance, PTL DEF Spec, StuckForGood
-----------------------------------------------------------------------------
(* When the pipeline stops *)

\* Going round the circle of workers: the connector waits for the querier, the
\* querier for the connector or the finisher, the finisher for the connector;
\* if the connector waits for a query, no worker has one to send it.
THEOREM StopsStuck == Spec => []StopsOnlyStuck
<1>1. ASSUME PInv PROVE StopsOnlyStuck
  <2> SUFFICES ASSUME unanswered # {}, ~CanMove
               PROVE  Stuck /\ \A q \in InFlight : InFlight = {q} => FailBlocked
    BY DEF StopsOnlyStuck
  <2>1. Hands
    BY <1>1, TypeParts DEF PInv
  <2>2. CASE at["connector"] = "fail"
    BY <2>2 DEF Stuck, FailBlocked
  <2>3. CASE at["connector"] = "dispatch"
    <3>1. \/ at["querier"] = "fail"
          \/ at["querier"] = "dispatch" /\ at["finisher"] = "dispatch"
      BY <2>1, <2>3 DEF CanMove, Hands
    <3>2. Stuck
      BY <2>3, <3>1 DEF Stuck, Embrace, Ring
    <3>3. /\ work["connector"] # work["querier"]
          /\ work["connector"] # NoQuery /\ work["querier"] # NoQuery
      BY <1>1, <2>1, <2>3, <3>1 DEF PInv, Delivered, Hands
    <3>4. work["connector"] \in InFlight /\ work["querier"] \in InFlight
      BY <3>3 DEF InFlight
    <3> QED
      BY <3>2, <3>3, <3>4
  <2>4. CASE at["connector"] = "select"
    <3>1. \A g \in Crew : at[g] = "select"
      BY <2>1, <2>4 DEF CanMove, Hands
    <3>2. asking = {} /\ \A g \in Crew : work[g] = NoQuery
      BY <2>1, <3>1 DEF CanMove, Hands
    <3>3. InFlight = {}
      BY <3>2 DEF InFlight
    <3> QED
      BY <1>1, <3>3 DEF PInv, Delivered
  <2> QED
    BY <2>1, <2>2, <2>3, <2>4 DEF CanMove, Hands
<1> QED
  BY <1>1, PipelineInvariance, PTL

\* A query has the zero entry only when its dials are used up, and the process
\* dies over one that has it.
Exhausted ==
  /\ \A q \in Queries : conn[q] = ZeroConn => dials[q] = MaxDials
  /\ panicked => work["querier"] \in Queries /\ conn[work["querier"]] = ZeroConn

\* Only AssignConnection and HandleDNS touch what Exhausted is about.
LEMMA NextExhausted ==
  ASSUME PInv, Exhausted, [Next]_vars
  PROVE  Exhausted'
<1>1. Hands /\ Values
  BY TypeParts DEF PInv
<1>2. CASE UNCHANGED vars
  BY <1>2 DEF vars, Exhausted
<1>3. CASE ExchangePanics
  BY <1>1, <1>3 DEF ExchangePanics, Exhausted, Hands
<1>4. CASE ~panicked /\ UNCHANGED <<conn, dials, panicked>>
  BY <1>4 DEF Exhausted
<1>5. ASSUME ~panicked, UNCHANGED panicked, NEW q \in Queries, HandleDNS(q) PROVE Exhausted'
  <2>1. \A r \in Queries : r # q => conn'[r] = conn[r] /\ dials'[r] = dials[r]
    BY <1>1, <1>5 DEF HandleDNS, Values
  <2>2. conn'[q] = NoConn
    BY <1>1, <1>5 DEF HandleDNS, Values
  <2> QED
    BY <1>5, <2>1, <2>2 DEF Exhausted
<1>6. ASSUME ~panicked, UNCHANGED panicked, AssignConnection PROVE Exhausted'
  <2> DEFINE q == work["connector"]
  <2>1. at["connector"] = "assign" /\ q \in Queries
    BY <1>1, <1>6 DEF AssignConnection, AssignPooled, AssignDialled, AssignNothing, AssignFails,
       Proceed, Hands
  <2> HIDE DEF q
  <2>2. \A r \in Queries : r # q => conn'[r] = conn[r] /\ dials'[r] = dials[r]
    BY <1>1, <1>6 DEF AssignConnection, AssignPooled, AssignDialled, AssignNothing, AssignFails,
       Values, q
  <2>3. CASE AssignPooled \/ AssignDialled
    <3>1. conn'[q] \in Conns
      BY <1>1, <2>1, <2>3 DEF AssignPooled, AssignDialled, Values, q
    <3> QED
      BY <1>6, <2>2, <3>1 DEF Exhausted
  <2>4. CASE AssignNothing
    <3>1. dials'[q] = dials[q] /\ dials[q] >= MaxDials /\ dials[q] \in 0..MaxDials
      BY <1>1, <2>1, <2>4 DEF AssignNothing, Values, q
    <3>2. dials'[q] = MaxDials
      BY <3>1
    <3> QED
      BY <1>6, <2>2, <3>2 DEF Exhausted
  <2>5. CASE AssignFails
    BY <1>4, <1>6, <2>5 DEF AssignFails
  <2> QED
    BY <1>6, <2>3, <2>4, <2>5 DEF AssignConnection
<1> QED
  BY <1>2, <1>3, <1>4, <1>5, <1>6 DEF Next, CrewStep, CacherStep, CacherReceives, CacherFails,
     ConnectorDispatches, QuerierStep, ExchangeOk, ExchangeFails, QuerierFails, QuerierDispatches,
     FinisherWrites, FinisherDispatches, Purge

\* The process dies only over a query that has made all its dials, be it in one
\* visit to the connector or in several (connpool.go:138, pipeline_server.go:194).
THEOREM PanicsAreExhausted == Spec => []PanicsOnlyExhausted
<1>1. Init => Exhausted
  BY DEF Init, Exhausted
<1>2. PInv /\ Exhausted /\ [Next]_vars => Exhausted'
  BY NextExhausted
<1>3. Exhausted => PanicsOnlyExhausted
  BY DEF Exhausted, PanicsOnlyExhausted
<1> QED
  BY <1>1, <1>2, <1>3, PipelineInvariance, PTL DEF Spec

-----------------------------------------------------------------------------
(* When it does not *)

\* The querier gets no query that nothing was assigned to.
HasEntry ==
  /\ at["connector"] = "dispatch" => conn[work["connector"]] \in Conns \cup {ZeroConn}
  /\ at["querier"] = "exchange" => conn[work["querier"]] \in Conns \cup {ZeroConn}

\* An entry is assigned on the way to the querier; only HandleDNS resets one,
\* of a query nobody has.
LEMMA NextHasEntry ==
  ASSUME PInv, HasEntry, [Next]_vars
  PROVE  HasEntry'
<1> USE DEF HasEntry
<1>1. Hands /\ Values
  BY TypeParts DEF PInv
<1>2. CASE UNCHANGED <<work, at, conn>>
  BY <1>2
<1>3. ASSUME NEW q \in Queries, HandleDNS(q) PROVE HasEntry'
  <2>1. \A g \in Crew : work[g] # q
    BY <1>3 DEF HandleDNS, InFlight
  <2>2. \A g \in Crew : work[g] # NoQuery => conn'[work[g]] = conn[work[g]]
    BY <1>1, <1>3, <2>1 DEF HandleDNS, Hands, Values
  <2> QED
    BY <1>1, <1>3, <2>2 DEF HandleDNS, Hands
<1>4. CASE AssignConnection
  <2>1. work["connector"] \in Queries /\ at["connector"] = "assign" /\ UNCHANGED work
    BY <1>1, <1>4 DEF AssignConnection, AssignPooled, AssignDialled, AssignNothing, AssignFails,
       Proceed, Hands
  <2>2. work["querier"] # work["connector"]
    BY <2>1 DEF PInv, Delivered
  <2>3. /\ at'["connector"] = "dispatch" => conn'[work["connector"]] \in Conns \cup {ZeroConn}
        /\ at'["querier"] = at["querier"]
    BY <1>1, <1>4, <2>1 DEF AssignConnection, AssignPooled, AssignDialled, AssignNothing,
       AssignFails, Proceed, Hands, Values
  <2>4. work["querier"] # NoQuery => conn'[work["querier"]] = conn[work["querier"]]
    BY <1>1, <1>4, <2>1, <2>2 DEF AssignConnection, AssignPooled, AssignDialled, AssignNothing,
       AssignFails, Hands, Values
  <2> QED
    BY <1>1, <2>1, <2>3, <2>4 DEF Hands
<1>5. CASE CacherFails \/ ConnectorDispatches \/ QuerierFails \/ QuerierDispatches
  BY <1>1, <1>5 DEF CacherFails, ConnectorDispatches, QuerierFails, QuerierDispatches, Handover,
     Hands
<1>6. CASE \/ \E q \in Queries : CacherReceives(q)
           \/ ExchangeOk \/ ExchangeFails \/ FinisherWrites \/ FinisherDispatches
  BY <1>1, <1>6 DEF CacherReceives, ExchangeOk, ExchangeFails, FinisherWrites, FinisherDispatches,
     Proceed, Hands
<1> QED
  BY <1>2, <1>3, <1>4, <1>5, <1>6
     DEF Next, CrewStep, CacherStep, QuerierStep, ExchangePanics, Purge, vars

\* What the code asks of the state before a worker takes its step: the
\* unprimed conjuncts of the actions of CrewStep, and of ExchangePanics.
Able ==
  \/ \E q \in Queries : at["cacher"] = "select" /\ q \in asking
  \/ at["cacher"] = "fail" /\ at["connector"] = "select"
  \/ at["connector"] = "assign" /\ \/ dials[work["connector"]] < MaxDials
                                   \/ dials[work["connector"]] >= MaxDials
  \/ at["connector"] = "dispatch" /\ at["querier"] = "select"
  \/ at["querier"] = "exchange" /\ \/ conn[work["querier"]] \in Conns
                                   \/ conn[work["querier"]] = ZeroConn
  \/ at["querier"] = "fail" /\ at["connector"] = "select"
  \/ at["querier"] = "dispatch" /\ at["finisher"] = "select"
  \/ at["finisher"] = "write"
  \/ at["finisher"] = "dispatch" /\ at["connector"] = "select"

\* A worker that waits for nobody can go on with the query it has: one to be
\* assigned has a dial left or has none (pipeline_server.go:184), one to be
\* exchanged has an entry, be it the nil one (pipeline_server.go:251).
THEOREM MoversAreAble == Spec => [](CanMove => Able)
<1>1. Init => HasEntry
  BY DEF Init, HasEntry
<1>2. PInv /\ HasEntry /\ [Next]_vars => HasEntry'
  BY NextHasEntry
<1>3. ASSUME PInv, HasEntry, CanMove PROVE Able
  <2>1. Hands /\ Values
    BY <1>3, TypeParts DEF PInv
  <2>2. CASE at["connector"] = "assign"
    <3>1. dials[work["connector"]] \in Int /\ MaxDials \in Int
      BY <2>1, <2>2 DEF Hands, Values
    <3> QED
      BY <2>2, <3>1 DEF Able
  <2>3. CASE at["querier"] = "exchange"
    BY <1>3, <2>3 DEF HasEntry, Able
  <2>4. CASE at["cacher"] = "select" /\ asking # {}
    BY <2>1, <2>4 DEF Values, Able
  <2> QED
    BY <1>3, <2>2, <2>3, <2>4 DEF CanMove, Able
<1> QED
  BY <1>1, <1>2, <1>3, PipelineInvariance, PTL DEF Spec
=============================================================================
