---------------------------- MODULE ConnLifeProofs ----------------------------
(***************************************************************************)
(* The pool implements ConnLife, for any number of upstreams, connections, *)
(* workers and weights: each step of ConnPool is a step in the life of one *)
(* connection, with the purge of one upstream at most, or a step that      *)
(* ConnLife does not see.                                                  *)
(***************************************************************************)
EXTENDS ConnPoolProofs

-----------------------------------------------------------------------------
(* The state of ConnLife, read off the pool *)

\* A list says who is spare, a goroutine count who is about to be closed, in
\* this state and in the next.
LEMMA ViewFacts ==
  /\ Spare = { c \in Conns : Listed(idle, c) }
  /\ Spare' = { c \in Conns : Listed(idle', c) }
  /\ Purging = { c \in Conns : reaping[c] > 0 }
  /\ Purging' = { c \in Conns : reaping'[c] > 0 }
  BY DEF Spare, Purging, Pooled, Reaped, Listed

\* A connection has an upstream while it is open.
LEMMA HomeFacts ==
  ASSUME IInv, NEW c \in Conns
  PROVE  Homes[c] = entry[c].up /\ (Homes[c] = NoUpstream <=> c \notin Open)
<1>1. entry[c] \in Entry
  BY DEF IInv, TypeOK
<1>2. entry[c].up = NoUpstream <=> entry[c] = NoEntry
  <2>1. NoEntry.up = NoUpstream
    BY DEF NoEntry
  <2>2. CASE entry[c] # NoEntry
    BY <1>1, <2>2, PoolAssumption DEF Entry
  <2> QED
    BY <2>1, <2>2
<1> QED
  BY <1>2 DEF Homes, Open

\* What a purge of u takes is what is in the list of u: a list holds the
\* connections of its own upstream (Homed).
LEMMA KinFacts ==
  ASSUME IInv, NEW u \in Upstreams, NEW d \in Conns
  PROVE  d \in Life!Kin(u) <=> \E i \in DOMAIN idle[u] : idle[u][i] = d
<1>1. d \in Life!Kin(u) <=> Listed(idle, d) /\ entry[d].up = u
  BY ViewFacts, HomeFacts DEF Life!Kin
<1>2. \A v \in Upstreams : \A i \in DOMAIN idle[v] : entry[idle[v][i]].up = v
  BY DEF IInv, Ownership, Homed
<1> QED
  BY <1>1, <1>2 DEF Listed

\* The connections that have left the lists by the update of c.
Gone(c) == { d \in Spare : ~Listed(IdleAfterUpdate(c), d) }

\* Add, CloseConnection and the reapers purge the upstream of the connection
\* they are called with, or none (connpool.go:268).
LEMMA GoneFacts ==
  ASSUME IInv, NEW c \in Conns, c \in Open, UpdateUpstream(c)
  PROVE  /\ Gone(c) \in Life!MayPurge(Homes[c])
         /\ { d \in Conns : Listed(IdleAfterUpdate(c), d) } = Spare \ Gone(c)
         /\ { d \in Conns : ReapersAfterUpdate(c)[d] > 0 } = Purging \cup Gone(c)
<1> DEFINE u == entry[c].up
<1>1. u \in Upstreams /\ Homes[c] = u
  BY UpdateFacts, HomeFacts
<1>2. \A d \in Conns : /\ Listed(IdleAfterUpdate(c), d) => Listed(idle, d)
                      /\ ReapersAfterUpdate(c)[d] =
                           IF Listed(idle, d) /\ ~Listed(IdleAfterUpdate(c), d) THEN 1
                           ELSE reaping[d]
  BY UpdateFacts, ListFacts
<1> HIDE DEF u
<1>3. Gone(c) \in {{}, Life!Kin(u)}
  <2>1. CASE entry[c].error
    <3>1. \A d \in Conns : Listed(IdleAfterUpdate(c), d) <=>
            Pooled(d) /\ ~ \E i \in DOMAIN idle[u] : idle[u][i] = d
      BY <1>1, <2>1, PurgeFacts DEF IdleAfterUpdate, u
    <3>2. \A d \in Conns : d \in Gone(c) <=> d \in Life!Kin(u)
      BY <1>1, <3>1, KinFacts DEF Gone, Spare, Pooled
    <3>3. Gone(c) \subseteq Conns /\ Life!Kin(u) \subseteq Conns
      BY DEF Gone, Spare, Life!Kin
    <3> QED
      BY <3>2, <3>3
  <2>2. CASE ~entry[c].error
    BY <2>2, ViewFacts DEF IdleAfterUpdate, Gone
  <2> QED
    BY <2>1, <2>2
<1>4. { d \in Conns : Listed(IdleAfterUpdate(c), d) } = Spare \ Gone(c)
  BY <1>2, ViewFacts DEF Gone
<1>5. { d \in Conns : ReapersAfterUpdate(c)[d] > 0 } = Purging \cup Gone(c)
  BY <1>2, ViewFacts DEF Gone
<1> QED
  BY <1>1, <1>3, <1>4, <1>5 DEF Life!MayPurge

-----------------------------------------------------------------------------
(* Step by step *)

\* Get of a cached connection is Borrow: the worker has what the list has lost.
LEMMA GetCachedBorrows ==
  ASSUME IInv, NEW w \in Workers, GetCached(w)
  PROVE  Life!Borrow(w)
<1> DEFINE u == BestUpstream
           c == Head(idle[u])
           J == [idle EXCEPT ![u] = Tail(idle[u])]
<1>1. /\ u \in Upstreams /\ idle[u] # <<>> /\ idle' = J
      /\ held' = [held EXCEPT ![w] = c] /\ pc[w] = "start"
      /\ UNCHANGED <<entry, reaping>>
  BY BestUpstreamIn DEF GetCached, connVars, IInv
<1>2. held[w] = NoConn
  BY <1>1 DEF IInv, Handling
<1> HIDE DEF u
<1>3. /\ Listed(idle, c) /\ c \in Conns
      /\ \A d \in Conns : Listed(J, d) <=> Listed(idle, d) /\ d # c
  BY <1>1, ListFacts, PopFacts
<1> HIDE DEF c, J
<1>4. c \in Spare /\ Spare' = Spare \ {c}
  BY <1>1, <1>3, ViewFacts
<1>5. Homes' = Homes /\ Purging' = Purging
  BY <1>1, ViewFacts DEF Homes
<1> QED
  BY <1>1, <1>2, <1>4, <1>5 DEF Life!Borrow

\* A dial is Dial: no open connection is dialled again.
LEMMA NewConnectionDials ==
  ASSUME IInv, NEW w \in Workers, NewConnection(w)
  PROVE  Life!Dial(w)
<1>1. PICK c \in Conns \ Open, mean \in Weights, slow \in BOOLEAN :
        /\ entry' = [entry EXCEPT ![c] = [up |-> dialing[w], weight |-> mean, error |-> slow]]
        /\ held' = [held EXCEPT ![w] = c]
  BY DEF NewConnection
<1>2. dialing[w] \in Upstreams /\ held[w] = NoConn
  BY DEF NewConnection, IInv, TypeOK, Handling
<1>3. Homes' = [Homes EXCEPT ![c] = dialing[w]]
  BY <1>1 DEF Homes, IInv, TypeOK
<1>4. Homes[c] = NoUpstream
  BY <1>1, HomeFacts
<1>5. Spare' = Spare /\ Purging' = Purging
  BY ViewFacts DEF NewConnection, poolVars
<1> QED
  BY <1>1, <1>2, <1>3, <1>4, <1>5 DEF Life!Dial

\* A dial that fails is the purge of the upstream Get named, which may be long
\* after Get (connpool.go:344).
LEMMA NewConnectionFailsPurges ==
  ASSUME IInv, NEW w \in Workers, NewConnectionFails(w)
  PROVE  dialing[w] \in Upstreams /\ Life!Purge(dialing[w])
<1> DEFINE u == dialing[w]
           K == Life!Kin(u)
<1>1. u \in Upstreams /\ idle' = Purged(u) /\ reaping' = Reapers(u) /\ UNCHANGED <<entry, held>>
  BY DEF NewConnectionFails, IInv, TypeOK, Handling
<1> HIDE DEF u
<1>2. K \subseteq Conns
  BY DEF Life!Kin, Spare
<1>3. ASSUME NEW d \in Conns
      PROVE  /\ Listed(idle', d) <=> Listed(idle, d) /\ d \notin K
             /\ reaping'[d] > 0 <=> d \in K \/ reaping[d] > 0
  <2>1. d \in K <=> \E i \in DOMAIN idle[u] : idle[u][i] = d
    BY <1>1, KinFacts
  <2>2. Listed(Purged(u), d) <=> Listed(idle, d) /\ ~ \E i \in DOMAIN idle[u] : idle[u][i] = d
    BY <1>1, PurgeFacts, ListFacts
  <2>3. Reapers(u)[d] = IF \E i \in DOMAIN idle[u] : idle[u][i] = d THEN 1 ELSE reaping[d]
    BY <1>1, PurgeFacts
  <2> HIDE DEF K
  <2> QED
    BY <1>1, <2>1, <2>2, <2>3
<1>4. Homes' = Homes
  BY <1>1 DEF Homes
<1> HIDE DEF K
<1>5. Spare' = Spare \ K /\ Purging' = Purging \cup K
  BY <1>2, <1>3, ViewFacts
<1> QED
  BY <1>1, <1>4, <1>5 DEF Life!Purge, K, u

\* Add is Return: the connection is spare again and is not among the purged,
\* even if it is its own error that purged its upstream (connpool.go:315).
LEMMA AddReturns ==
  ASSUME IInv, NEW w \in Workers, Add(w)
  PROVE  Life!Return(w)
<1> DEFINE c == held[w]
           u == entry[c].up
           I == IdleAfterUpdate(c)
           J == [I EXCEPT ![u] = Append(I[u], c)]
<1>1. /\ UpdateUpstream(c) /\ idle' = J /\ reaping' = ReapersAfterUpdate(c)
      /\ held' = [held EXCEPT ![w] = NoConn] /\ UNCHANGED entry
      /\ held[w] # NoConn
  BY DEF Add, IInv, Handling
<1>2. c \in Conns /\ c \in Open /\ HeldBy(held, c)
  BY <1>1, HeldFacts DEF HeldBy
<1> HIDE DEF c
<1>3. /\ I \in [Upstreams -> Seq(Conns)] /\ Distinct(I) /\ u \in Upstreams
      /\ \A d \in Conns : Listed(I, d) => Listed(idle, d)
  BY <1>1, <1>2, UpdateFacts, ListFacts
<1>4. ~Listed(I, c)
  BY <1>2, <1>3, OwnershipNow DEF Unshared
<1> HIDE DEF u, I
<1>5. \A d \in Conns : Listed(J, d) <=> Listed(I, d) \/ d = c
  BY <1>2, <1>3, <1>4, PushFacts
<1> HIDE DEF J
<1>6. /\ Gone(c) \in Life!MayPurge(Homes[c])
      /\ { d \in Conns : Listed(I, d) } = Spare \ Gone(c)
      /\ Purging' = Purging \cup Gone(c)
  BY <1>1, <1>2, GoneFacts, ViewFacts DEF I
<1>7. Spare' = (Spare \ Gone(c)) \cup {c}
  BY <1>1, <1>2, <1>5, <1>6, ViewFacts
<1>8. Homes' = Homes
  BY <1>1 DEF Homes
<1> QED
  BY <1>1, <1>6, <1>7, <1>8 DEF Life!Return, c

\* CloseConnection by the worker is Drop.
LEMMA CloseConnectionDrops ==
  ASSUME IInv, NEW w \in Workers, CloseConnection(w)
  PROVE  Life!Drop(w)
<1> DEFINE c == held[w]
<1>1. /\ UpdateUpstream(c) /\ idle' = IdleAfterUpdate(c) /\ reaping' = ReapersAfterUpdate(c)
      /\ entry' = [entry EXCEPT ![c] = NoEntry]
      /\ held' = [held EXCEPT ![w] = NoConn] /\ held[w] # NoConn
  BY DEF CloseConnection, IInv, Handling
<1>2. c \in Conns /\ c \in Open
  BY <1>1, HeldFacts
<1> HIDE DEF c
<1>3. /\ Gone(c) \in Life!MayPurge(Homes[c])
      /\ Spare' = Spare \ Gone(c) /\ Purging' = Purging \cup Gone(c)
  BY <1>1, <1>2, GoneFacts, ViewFacts
<1>4. Homes' = [Homes EXCEPT ![c] = NoUpstream]
  BY <1>1, <1>2 DEF Homes, NoEntry, IInv, TypeOK
<1> QED
  BY <1>1, <1>3, <1>4 DEF Life!Drop, c

\* A goroutine of purgeUpstream closes its connection, and may purge what has
\* come into the list since (connpool.go:450).
LEMMA ReapCloses ==
  ASSUME IInv, NEW c \in Conns, Reap(c)
  PROVE  Life!Close(c)
<1>1. /\ reaping[c] > 0 /\ UpdateUpstream(c) /\ idle' = IdleAfterUpdate(c)
      /\ reaping' = [ReapersAfterUpdate(c) EXCEPT ![c] = @ - 1]
      /\ entry' = [entry EXCEPT ![c] = NoEntry] /\ UNCHANGED held
  BY DEF Reap, workerVars
<1>2. c \in Open /\ reaping[c] = 1 /\ c \in Purging /\ c \notin Spare
  BY <1>1, ReapedFacts, OwnershipNow, ViewFacts DEF Reaped, Unshared
<1>3. /\ Gone(c) \in Life!MayPurge(Homes[c])
      /\ Spare' = Spare \ Gone(c)
      /\ { d \in Conns : ReapersAfterUpdate(c)[d] > 0 } = Purging \cup Gone(c)
  BY <1>1, <1>2, GoneFacts, ViewFacts
<1>4. c \notin Gone(c)
  BY <1>2 DEF Gone
<1>5. Purging' = (Purging \ {c}) \cup Gone(c)
  <2>1. ReapersAfterUpdate(c) \in [Conns -> Nat]
    BY <1>1, <1>2, UpdateFacts
  <2>2. ReapersAfterUpdate(c)[c] = 1
    BY <1>1, <1>2, UpdateFacts, ListFacts, ViewFacts
  <2>3. \A d \in Conns : reaping'[d] = IF d = c THEN 0 ELSE ReapersAfterUpdate(c)[d]
    BY <1>1, <2>1, <2>2
  <2>4. Purging' = { d \in Conns : ReapersAfterUpdate(c)[d] > 0 } \ {c}
    BY <2>3, ViewFacts
  <2> QED
    BY <1>3, <1>4, <2>4
<1>6. Homes' = [Homes EXCEPT ![c] = NoUpstream]
  BY <1>1 DEF Homes, NoEntry, IInv, TypeOK
<1> QED
  BY <1>1, <1>2, <1>3, <1>5, <1>6 DEF Life!Close

\* Get that names an upstream, the exchanges and the end of a cooldown are not
\* seen: an exchange changes the weight and the error of an entry, not its
\* upstream.
LEMMA UnseenSteps ==
  ASSUME IInv,
         \/ \E w \in Workers : GetUpstream(w) \/ ExchangeOk(w) \/ ExchangeFails(w)
         \/ \E u \in Upstreams : Wake(u)
         \/ UNCHANGED vars
  PROVE  UNCHANGED Life!lifeVars
<1>1. UNCHANGED <<idle, reaping, held>>
  BY DEF GetUpstream, ExchangeOk, ExchangeFails, Wake, vars, poolVars, connVars, workerVars
<1>2. \A c \in Conns : entry'[c].up = entry[c].up
  <2>1. ASSUME NEW w \in Workers, ExchangeOk(w) \/ ExchangeFails(w), NEW c \in Conns
        PROVE  entry'[c].up = entry[c].up
    <3>1. PICK mean \in Weights, slow \in BOOLEAN :
            entry' = [entry EXCEPT ![held[w]] =
                        [up |-> @.up, weight |-> mean, error |-> @.error \/ slow]]
      BY <2>1 DEF ExchangeOk, ExchangeFails, AddExchange
    <3> QED
      BY <3>1 DEF IInv, TypeOK
  <2>2. CASE UNCHANGED entry
    BY <2>2
  <2> QED
    BY <2>1, <2>2 DEF GetUpstream, Wake, vars, connVars
<1>3. Homes' = Homes
  BY <1>2 DEF Homes
<1>4. Spare' = Spare /\ Purging' = Purging
  BY <1>1, ViewFacts
<1> QED
  BY <1>1, <1>3, <1>4 DEF Life!lifeVars

\* Every connection lives as ConnLife says, whatever workers, goroutines of
\* purgeUpstream and cooldowns do: it is borrowed, given back, purged with the
\* others of its upstream, and closed once (connpool.go:295, 377, 421, 443).
THEOREM ImplementsConnLife == Spec => KeepsTrack
<1>1. ASSUME Init PROVE Life!LifeInit
  <2>1. Homes = [c \in Conns |-> NoUpstream]
    BY <1>1 DEF Init, Homes, NoEntry
  <2>2. Spare = {} /\ Purging = {}
    BY <1>1 DEF Init, Spare, Purging, Pooled, Reaped
  <2> QED
    BY <1>1, <2>1, <2>2 DEF Init, Life!LifeInit
<1>2. ASSUME IInv, [Next]_vars PROVE [Life!LifeNext]_(Life!lifeVars)
  <2>1. ASSUME NEW w \in Workers, WorkerStep(w)
        PROVE  Life!LifeNext \/ UNCHANGED Life!lifeVars
    BY <1>2, <2>1, GetCachedBorrows, NewConnectionDials, NewConnectionFailsPurges, AddReturns,
       CloseConnectionDrops, UnseenSteps DEF WorkerStep, Get, Life!LifeNext
  <2>2. ASSUME NEW c \in Conns, Reap(c) PROVE Life!LifeNext
    BY <1>2, <2>2, ReapCloses DEF Life!LifeNext
  <2> QED
    BY <1>2, <2>1, <2>2, UnseenSteps DEF Next
<1> QED
  BY <1>1, <1>2, Invariance, PTL DEF Spec, KeepsTrack, Life!LifeSpec
===============================================================================
