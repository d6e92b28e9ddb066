------------------------- MODULE QueryServiceProofs -------------------------
(***************************************************************************)
(* What a server that keeps the promise of QueryService has, for any       *)
(* number of queries and permits, also infinitely many queries.  That the  *)
(* permits are all in use while a query waits is a matter of counting      *)
(* (Counted), and a permit is passed on to one query only because each is  *)
(* in the queue once (InTurn).                                             *)
(***************************************************************************)
EXTENDS QueryService, TLAPS, FiniteSetTheorems

ServiceTypeOK == status \in [Queries -> Statuses] /\ queue \in Seq(Queries)

\* The queue holds the queries that wait, each once.
InTurn ==
  /\ \A q \in Queries : status[q] = "queued" => \E i \in 1..Len(queue) : queue[i] = q
  /\ \A i \in 1..Len(queue) : status[queue[i]] = "queued"
  /\ \A i, j \in 1..Len(queue) : queue[i] = queue[j] => i = j

\* PermitsUsed, with the finiteness that counting needs.
Counted ==
  /\ IsFiniteSet(Served)
  /\ PermitsUsed

SvcInv == ServiceTypeOK /\ InTurn /\ Counted

-----------------------------------------------------------------------------
(* The queue *)

\* A query joins the end.
LEMMA JoinFacts ==
  ASSUME NEW s \in Seq(Queries), NEW q \in Queries
  PROVE  /\ Append(s, q) \in Seq(Queries) /\ Append(s, q) # <<>>
         /\ Len(Append(s, q)) = Len(s) + 1 /\ Len(s) \in Nat
         /\ Append(s, q)[Len(s) + 1] = q
         /\ \A i \in 1..Len(s) : Append(s, q)[i] = s[i]
         /\ \A i \in 1..(Len(s) + 1) : i = Len(s) + 1 \/ i \in 1..Len(s)
OBVIOUS

\* The first one leaves it.
LEMMA LeaveFacts ==
  ASSUME NEW s \in Seq(Queries), s # <<>>
  PROVE  /\ Tail(s) \in Seq(Queries) /\ Head(s) \in Queries
         /\ Head(s) = s[1] /\ 1 \in 1..Len(s) /\ Len(s) \in Nat
         /\ Len(Tail(s)) = Len(s) - 1
         /\ \A i \in 1..Len(Tail(s)) :
              Tail(s)[i] = s[i + 1] /\ i + 1 \in 1..Len(s) /\ i + 1 # 1
         /\ \A i \in 1..Len(s) :
              i = 1 \/ (i - 1 \in 1..Len(Tail(s)) /\ Tail(s)[i - 1] = s[i])
OBVIOUS

\* Numbers of queries are numbers.
LEMMA ServedFacts ==
  ASSUME SvcInv
  PROVE  IsFiniteSet(Served) /\ Cardinality(Served) \in Nat /\ Permits \in Nat \ {0}
BY FS_CardinalityType, PermitsAssumption DEF SvcInv, Counted

-----------------------------------------------------------------------------
(* The steps *)

\* At first nobody is served and nobody waits.
LEMMA InitSvcInv == ServiceInit => SvcInv
<1> SUFFICES ASSUME ServiceInit PROVE SvcInv
  OBVIOUS
<1>1. ServiceTypeOK
  BY DEF ServiceInit, ServiceTypeOK, Statuses
<1>2. InTurn
  BY DEF ServiceInit, InTurn
<1>3. Served = {} /\ queue = <<>>
  BY DEF ServiceInit, Served
<1>4. IsFiniteSet({}) /\ Cardinality({}) = 0
  BY FS_EmptySet
<1>5. Counted
  BY <1>3, <1>4, PermitsAssumption DEF Counted, PermitsUsed
<1> QED
  BY <1>1, <1>2, <1>5 DEF SvcInv

\* A query takes a permit only if one is free and nobody waits for it, and
\* joins the queue only if none is free.
LEMMA ReceiveSvcInv ==
  ASSUME SvcInv, NEW q \in Queries, Receive(q)
  PROVE  SvcInv'
<1>1. /\ status \in [Queries -> Statuses] /\ queue \in Seq(Queries) /\ status[q] = "out"
      /\ q \notin Served
  BY DEF Receive, SvcInv, ServiceTypeOK, Served
<1>2. \A i \in 1..Len(queue) : queue[i] \in Queries /\ queue[i] # q
  BY <1>1 DEF SvcInv, InTurn
<1>3. CASE Cardinality(Served) < Permits /\ queue = <<>>
  <2>1. status' = [status EXCEPT ![q] = "running"] /\ queue' = <<>>
    BY <1>3 DEF Receive
  <2>2. ServiceTypeOK' /\ InTurn'
    BY <1>1, <1>3, <2>1 DEF SvcInv, ServiceTypeOK, InTurn, Statuses
  <2>3. Served' = Served \cup {q}
    BY <1>1, <2>1 DEF Served
  <2>4. IsFiniteSet(Served') /\ Cardinality(Served') = Cardinality(Served) + 1
    BY <1>1, <2>3, ServedFacts, FS_AddElement
  <2>5. Counted'
    BY <1>3, <2>1, <2>4, ServedFacts DEF Counted, PermitsUsed
  <2> QED
    BY <2>2, <2>5 DEF SvcInv
<1>4. CASE ~(Cardinality(Served) < Permits /\ queue = <<>>)
  <2>1. status' = [status EXCEPT ![q] = "queued"] /\ queue' = Append(queue, q)
    BY <1>4 DEF Receive
  <2>2. ServiceTypeOK'
    BY <1>1, <2>1, JoinFacts DEF ServiceTypeOK, Statuses
  <2>3. InTurn'
    <3>1. \A p \in Queries : status'[p] = "queued" =>
            \E i \in 1..Len(queue') : queue'[i] = p
      BY <1>1, <2>1, JoinFacts DEF SvcInv, InTurn
    <3>2. \A i \in 1..Len(queue') : status'[queue'[i]] = "queued"
      BY <1>1, <1>2, <2>1, JoinFacts DEF SvcInv, InTurn
    <3>3. \A i, j \in 1..Len(queue') : queue'[i] = queue'[j] => i = j
      BY <1>1, <1>2, <2>1, JoinFacts DEF SvcInv, InTurn
    <3> QED
      BY <3>1, <3>2, <3>3 DEF InTurn
  <2>4. Served' = Served
    BY <1>1, <2>1 DEF Served
  <2>5. Cardinality(Served) = Permits
    BY <1>4, ServedFacts DEF SvcInv, Counted, PermitsUsed
  <2>6. Counted'
    BY <2>4, <2>5, ServedFacts DEF Counted, PermitsUsed
  <2> QED
    BY <2>2, <2>3, <2>6 DEF SvcInv
<1> QED
  BY <1>3, <1>4

\* A reply does not give the permit back.
LEMMA AnswerSvcInv ==
  ASSUME SvcInv, NEW q \in Queries, Answer(q)
  PROVE  SvcInv'
<1>1. status' = [status EXCEPT ![q] = "answered"] /\ queue' = queue /\ status[q] = "running"
  BY DEF Answer
<1>2. ServiceTypeOK' /\ InTurn'
  BY <1>1 DEF SvcInv, ServiceTypeOK, InTurn, Statuses
<1>3. Served' = Served
  BY <1>1 DEF SvcInv, ServiceTypeOK, Served
<1>4. Counted'
  BY <1>1, <1>3 DEF SvcInv, Counted, PermitsUsed
<1> QED
  BY <1>2, <1>4 DEF SvcInv

\* A permit that is given back goes to the query that has waited longest, and
\* is free only if none waits.
LEMMA FinishSvcInv ==
  ASSUME SvcInv, NEW q \in Queries, Finish(q)
  PROVE  SvcInv'
<1>1. /\ status \in [Queries -> Statuses] /\ queue \in Seq(Queries)
      /\ status[q] = "answered" /\ q \in Served
  BY DEF Finish, SvcInv, ServiceTypeOK, Served
<1>2. \A i \in 1..Len(queue) : queue[i] \in Queries /\ queue[i] # q
  BY <1>1 DEF SvcInv, InTurn
<1>3. /\ IsFiniteSet(Served \ {q})
      /\ Cardinality(Served \ {q}) = Cardinality(Served) - 1
  BY <1>1, ServedFacts, FS_RemoveElement
<1>4. CASE queue = <<>>
  <2>1. status' = [status EXCEPT ![q] = "out"] /\ queue' = <<>>
    BY <1>4 DEF Finish
  <2>2. ServiceTypeOK' /\ InTurn'
    BY <1>1, <1>4, <2>1 DEF SvcInv, ServiceTypeOK, InTurn, Statuses
  <2>3. Served' = Served \ {q}
    BY <1>1, <2>1 DEF Served
  <2>4. Counted'
    BY <1>3, <2>1, <2>3, ServedFacts DEF SvcInv, Counted, PermitsUsed
  <2> QED
    BY <2>2, <2>4 DEF SvcInv
<1>5. CASE queue # <<>>
  <2> DEFINE h == Head(queue)
  <2>1. /\ status' = [status EXCEPT ![q] = "out", ![h] = "running"]
        /\ queue' = Tail(queue)
    BY <1>5 DEF Finish
  <2>2. h \in Queries /\ h # q /\ status[h] = "queued" /\ h \notin Served
    BY <1>1, <1>2, <1>5, LeaveFacts DEF SvcInv, InTurn, Served
  <2>3. \A i \in 1..Len(queue') :
          queue'[i] = queue[i + 1] /\ i + 1 \in 1..Len(queue) /\ i + 1 # 1
    BY <1>1, <1>5, <2>1, LeaveFacts
  <2>4. \A i \in 1..Len(queue') : queue'[i] \in Queries /\ queue'[i] # q /\ queue'[i] # h
    <3>1. h = queue[1] /\ 1 \in 1..Len(queue)
      BY <1>1, <1>5, LeaveFacts
    <3>2. ASSUME NEW i \in 1..Len(queue')
          PROVE  queue'[i] \in Queries /\ queue'[i] # q /\ queue'[i] # h
      <4>1. queue'[i] = queue[i + 1] /\ i + 1 \in 1..Len(queue) /\ i + 1 # 1
        BY <2>3
      <4> QED
        BY <1>2, <3>1, <4>1 DEF SvcInv, InTurn
    <3> QED
      BY <3>2
  <2>5. ServiceTypeOK'
    BY <1>1, <1>5, <2>1, LeaveFacts DEF ServiceTypeOK, Statuses
  <2>6. InTurn'
    <3>1. \A p \in Queries : status'[p] = "queued" => status[p] = "queued" /\ p # h
      BY <1>1, <2>1, <2>2
    <3>2. \A p \in Queries : status'[p] = "queued" =>
            \E i \in 1..Len(queue') : queue'[i] = p
      <4> TAKE p \in Queries
      <4> HAVE status'[p] = "queued"
      <4>1. PICK i \in 1..Len(queue) : queue[i] = p
        BY <3>1 DEF SvcInv, InTurn
      <4>2. i # 1
        BY <1>1, <1>5, <3>1, <4>1, LeaveFacts
      <4> QED
        BY <1>1, <1>5, <2>1, <4>1, <4>2, LeaveFacts
    <3>3. \A i \in 1..Len(queue') : status'[queue'[i]] = "queued"
      BY <1>1, <2>1, <2>3, <2>4 DEF SvcInv, InTurn
    <3>4. ASSUME NEW i \in 1..Len(queue'), NEW j \in 1..Len(queue'), queue'[i] = queue'[j]
          PROVE  i = j
      <4>1. i + 1 = j + 1
        BY <2>3, <3>4 DEF SvcInv, InTurn
      <4> QED
        BY <4>1
    <3> QED
      BY <3>2, <3>3, <3>4 DEF InTurn
  <2>7. Served' = (Served \ {q}) \cup {h}
    BY <1>1, <2>1, <2>2 DEF Served
  <2>8. IsFiniteSet(Served') /\ Cardinality(Served') = Cardinality(Served)
    <3>1. h \notin Served \ {q}
      BY <2>2
    <3>2. /\ IsFiniteSet((Served \ {q}) \cup {h})
          /\ Cardinality((Served \ {q}) \cup {h}) = Cardinality(Served \ {q}) + 1
      BY <1>3, <3>1, FS_AddElement
    <3> QED
      BY <1>3, <2>7, <3>2, ServedFacts
  <2>9. Counted'
    BY <1>5, <2>8, ServedFacts DEF SvcInv, Counted, PermitsUsed
  <2> QED
    BY <2>5, <2>6, <2>9 DEF SvcInv
<1> QED
  BY <1>4, <1>5

\* The invariant holds in every reachable state of the service.
LEMMA ServiceInvariance == ServiceSpec => []SvcInv
<1>1. ServiceInit => SvcInv
  BY InitSvcInv
<1>2. SvcInv /\ [ServiceNext]_serviceVars => SvcInv'
  <2> SUFFICES ASSUME SvcInv, [ServiceNext]_serviceVars PROVE SvcInv'
    OBVIOUS
  <2>1. CASE UNCHANGED serviceVars
    BY <2>1 DEF serviceVars, SvcInv, ServiceTypeOK, InTurn, Counted, PermitsUsed, Served
  <2>2. CASE ServiceNext
    BY <2>2, ReceiveSvcInv, AnswerSvcInv, FinishSvcInv DEF ServiceNext
  <2> QED
    BY <2>1, <2>2
<1> QED
  BY <1>1, <1>2, PTL DEF ServiceSpec

\* A server that keeps QueryService's promise works on at most
\* ConcurrentQueries queries at once, and on that many while another one waits
\* (mutex_server.go:241, 254, 318), for any number of queries, in every order.
THEOREM PermitsAreUsed == ServiceSpec => []PermitsUsed
<1>1. SvcInv => PermitsUsed
  BY DEF SvcInv, Counted
<1> QED
  BY <1>1, ServiceInvariance, PTL
=============================================================================
