------------------------- MODULE RecordCacheProofs -------------------------
(***************************************************************************)
(* What RecordCache guarantees for any number of keys, queries and records *)
(* in an answer.  The inductive invariant has four parts: the response a   *)
(* Get looks at stays in the cache (Handling), the trashman's queue never  *)
(* holds a full batch (Queue), nor its slice a key between two flushes     *)
(* (Emptied), and, where a negative float64 saturates, a record's TTL is   *)
(* never more than the upstream gave it (NoGrowth).  From these follows    *)
(* that no eviction is lost and that RecordCache implements TtlCache.      *)
(***************************************************************************)
EXTENDS RecordCache, TLAPS, FiniteSetTheorems

Getting(q) == pc[q] \in {"checking", "computing", "writing", "rechecking"}

Handling ==
  /\ \A q \in Queries :
       /\ Getting(q) => /\ key[q] \in Keys /\ store[key[q]] # NoResponse
                        /\ at[q] \in DOMAIN store[key[q]].ttl
       /\ pc[q] \in {"missed", "adding"} => key[q] \in Keys
       /\ pc[q] = "adding" => got[q] # NoResponse
  /\ lock \in Queries => pc[lock] = "adding"

Queue ==
  /\ IsFiniteSet(trash)
  /\ tm = "flushing" => trash = {}
  /\ lock = "trashman" => tm = "flushing"
  /\ BatchFlushed

\* A trashman that is not flushing has no slice left to remove.
Emptied == tm # "flushing" => buffer = {}

Sound(r, t) == r.created <= t /\ \A i \in DOMAIN r.ttl : r.ttl[i] <= r.orig[i]

NoGrowth ==
  /\ \A k \in Keys : store[k] # NoResponse => Sound(store[k], now)
  /\ \A q \in Queries : got[q] # NoResponse => Sound(got[q], now)
  /\ \A q \in Queries : pc[q] = "writing" => newTtl[q] <= store[key[q]].orig[at[q]]

HInv == TypeOK /\ Handling

-----------------------------------------------------------------------------
(* Responses and TTLs *)

\* The fields of a response.
LEMMA ResponseFields ==
  ASSUME NEW r \in Responses
  PROVE  /\ r.created \in 0..MaxTime /\ r.orig \in Answers
         /\ r.ttl \in [DOMAIN r.orig -> Ttls] /\ r.orig \in [DOMAIN r.orig -> Ttls]
         /\ DOMAIN r.ttl = DOMAIN r.orig /\ DOMAIN r.orig \subseteq Nat
         /\ r # NoResponse
<1>1. PICK a \in Answers : r \in [created : 0..MaxTime, orig : {a}, ttl : [DOMAIN a -> Ttls]]
  BY DEF Responses
<1>2. r.created \in 0..MaxTime /\ r.orig = a /\ r.ttl \in [DOMAIN a -> Ttls]
  BY <1>1
<1>3. a \in Seq(Ttls)
  BY CacheAssumption
<1>4. a \in [DOMAIN a -> Ttls] /\ DOMAIN a \subseteq Nat
  BY <1>3
<1>5. r # NoResponse
  BY CacheAssumption
<1> QED
  BY <1>2, <1>4, <1>5

\* What processResults makes is a response whose TTLs are the upstream's.
LEMMA FreshResponse ==
  ASSUME NEW a \in Answers, NEW t \in 0..MaxTime
  PROVE  /\ Response(a, t) \in Responses
         /\ Response(a, t).created = t
         /\ Response(a, t).ttl = a /\ Response(a, t).orig = a
<1>1. a \in [DOMAIN a -> Ttls]
  BY CacheAssumption
<1>2. Response(a, t) \in [created : 0..MaxTime, orig : {a}, ttl : [DOMAIN a -> Ttls]]
  BY <1>1 DEF Response
<1> QED
  BY <1>2 DEF Response, Responses

\* updateTtl's assignment changes one TTL of a response and nothing else.
LEMMA Rewritten ==
  ASSUME NEW r \in Responses, NEW i \in DOMAIN r.ttl, NEW v \in Ttls
  PROVE  LET n == [r EXCEPT !.ttl[i] = v] IN
         /\ n \in Responses
         /\ n.created = r.created /\ n.orig = r.orig
         /\ n.ttl = [r.ttl EXCEPT ![i] = v] /\ DOMAIN n.ttl = DOMAIN r.ttl
<1>1. PICK a \in Answers : r \in [created : 0..MaxTime, orig : {a}, ttl : [DOMAIN a -> Ttls]]
  BY DEF Responses
<1> DEFINE n == [r EXCEPT !.ttl[i] = v]
<1>2. n.created = r.created /\ n.orig = r.orig /\ n.ttl = [r.ttl EXCEPT ![i] = v]
  BY <1>1
<1>3. [r.ttl EXCEPT ![i] = v] \in [DOMAIN a -> Ttls]
  BY <1>1
<1>4. n \in [created : 0..MaxTime, orig : {a}, ttl : [DOMAIN a -> Ttls]]
  BY <1>1, <1>3
<1> QED
  BY <1>2, <1>4, <1>1 DEF Responses

\* uint32() yields a TTL; if it saturates, never one above a float that is at
\* most a TTL and never above a TTL's least value below zero.
LEMMA CastFacts ==
  ASSUME NEW x \in Int, NEW v \in Cast(x)
  PROVE  /\ v \in Ttls
         /\ "wraps" \notin Casts /\ x \in Ttls => v = x
         /\ "wraps" \notin Casts /\ x < 0 => v = 0
<1>1. x % TtlModulus \in Ttls /\ 0 \in Ttls
  BY CacheAssumption, SMT DEF Ttls
<1>2. x \in Ttls => x % TtlModulus = x
  BY CacheAssumption, SMT DEF Ttls
<1>3. CASE x >= 0
  BY <1>1, <1>2, <1>3 DEF Cast
<1>4. CASE x < 0
  <2>1. PICK c \in Casts : v = IF c = "wraps" THEN x % TtlModulus ELSE 0
    BY <1>4 DEF Cast
  <2> QED
    BY <2>1, <1>1, <1>4 DEF Ttls
<1> QED
  BY <1>3, <1>4

-----------------------------------------------------------------------------
(* The response a Get looks at *)

\* The invariant holds of the caches NewMutexServer builds.
LEMMA InitHInv == Init => HInv
<1> SUFFICES ASSUME Init PROVE HInv
  OBVIOUS
<1>1. store \in [Keys -> Responses \cup {NoResponse}]
  <2>1. PICK z \in [Zone -> Answers] :
          store = [k \in Keys |-> IF k \in Zone THEN Response(z[k], 0) ELSE NoResponse]
    BY DEF Init
  <2>2. \A k \in Zone : Response(z[k], 0) \in Responses
    <3> TAKE k \in Zone
    <3>1. z[k] \in Answers /\ 0 \in 0..MaxTime
      BY CacheAssumption
    <3> QED
      BY <3>1, FreshResponse
  <2> QED
    BY <2>1, <2>2
<1>2. TypeOK
  <2>1. 0 \in Ttls /\ 0 \in 0..MaxTime
    BY CacheAssumption DEF Ttls
  <2>2. (~Hosted) \in BOOLEAN
    BY CacheAssumption
  <2>3. /\ now \in 0..MaxTime /\ trash \subseteq Keys /\ buffer \subseteq Keys
        /\ evicting \in [Keys -> Nat] /\ at \in [Queries -> Nat]
        /\ newTtl \in [Queries -> Ttls]
    BY <2>1 DEF Init
  <2>4. paused \in BOOLEAN /\ janitor \in BOOLEAN
    BY <2>2 DEF Init
  <2> QED
    BY <1>1, <2>3, <2>4 DEF Init, TypeOK
<1>3. Handling
  BY CacheAssumption DEF Init, Handling, Getting
<1> QED
  BY <1>2, <1>3 DEF HInv

\* What the query that looks at a record of its response sees.
LEMMA Looking ==
  ASSUME HInv, NEW q \in Queries, Getting(q)
  PROVE  /\ key[q] \in Keys /\ store[key[q]] \in Responses
         /\ at[q] \in DOMAIN store[key[q]].ttl
         /\ at[q] \in DOMAIN store[key[q]].orig
         /\ store[key[q]].ttl[at[q]] \in Ttls
         /\ store[key[q]].orig[at[q]] \in Ttls
         /\ store[key[q]].created \in 0..MaxTime
<1>1. key[q] \in Keys /\ store[key[q]] \in Responses /\ at[q] \in DOMAIN store[key[q]].ttl
  BY DEF HInv, TypeOK, Handling
<1> QED
  BY <1>1, ResponseFields

\* A step that leaves the cache, the lock and the queries alone.
LEMMA QuietHInv ==
  ASSUME HInv, UNCHANGED <<store, lock, queryVars>>, now' \in 0..MaxTime,
         evicting' \in [Keys -> Nat], trash' \subseteq Keys, buffer' \subseteq Keys,
         tm' \in {"absent", "select", "flushing", "stopped", "panicked"},
         paused' \in BOOLEAN, janitor' \in BOOLEAN
  PROVE  HInv'
<1>1. TypeOK'
  BY DEF HInv, TypeOK, queryVars
<1>2. Handling'
  BY DEF HInv, Handling, Getting, queryVars
<1> QED
  BY <1>1, <1>2 DEF HInv

\* Get finds its response under the read lock and keeps it to the last record.
LEMMA GetHInv ==
  ASSUME HInv, NEW q \in Queries, GetStep(q)
  PROVE  HInv'
<1> USE DEF crewVars, Getting
<1>1. ASSUME NEW k \in Keys, LookupMisses(q, k) PROVE HInv'
  <2>1. TypeOK'
    BY <1>1 DEF LookupMisses, HInv, TypeOK
  <2>2. Handling'
    BY <1>1 DEF LookupMisses, HInv, TypeOK, Handling
  <2> QED
    BY <2>1, <2>2 DEF HInv
<1>2. ASSUME NEW k \in Keys, LookupFinds(q, k) PROVE HInv'
  <2>1. TypeOK'
    BY <1>2 DEF LookupFinds, HInv, TypeOK
  <2>2. Handling'
    BY <1>2 DEF LookupFinds, HInv, TypeOK, Handling
  <2> QED
    BY <2>1, <2>2 DEF HInv
<1>3. CASE Check(q)
  <2>1. TypeOK'
    BY <1>3 DEF Check, HInv, TypeOK
  <2>2. Handling'
    BY <1>3 DEF Check, HInv, TypeOK, Handling
  <2> QED
    BY <2>1, <2>2 DEF HInv
<1>4. CASE Compute(q)
  <2>1. PICK t \in Cast(store[key[q]].created + store[key[q]].ttl[at[q]] - now) :
          newTtl' = [newTtl EXCEPT ![q] = t]
    BY <1>4 DEF Compute
  <2>2. t \in Ttls
    <3>1. store[key[q]].created + store[key[q]].ttl[at[q]] - now \in Int
      BY <1>4, Looking, CacheAssumption DEF Compute, HInv, TypeOK, Ttls
    <3> QED
      BY <2>1, <3>1, CastFacts
  <2>3. TypeOK'
    BY <1>4, <2>1, <2>2 DEF Compute, HInv, TypeOK
  <2>4. Handling'
    BY <1>4 DEF Compute, HInv, TypeOK, Handling
  <2> QED
    BY <2>3, <2>4 DEF HInv
<1>5. CASE Write(q)
  <2>1. key[q] \in Keys /\ store[key[q]] \in Responses /\ at[q] \in DOMAIN store[key[q]].ttl
        /\ newTtl[q] \in Ttls
    BY <1>5, Looking DEF Write, HInv, TypeOK
  <2> DEFINE n == [store[key[q]] EXCEPT !.ttl[at[q]] = newTtl[q]]
  <2>2. n \in Responses /\ DOMAIN n.ttl = DOMAIN store[key[q]].ttl /\ n # NoResponse
    BY <2>1, Rewritten, ResponseFields
  <2>3. store' = [store EXCEPT ![key[q]] = n]
    BY <1>5 DEF Write
  <2> HIDE DEF n
  <2>4. TypeOK'
    <3>1. 0 \in Ttls
      BY CacheAssumption DEF Ttls
    <3>2. store' \in [Keys -> Responses \cup {NoResponse}]
      BY <2>1, <2>2, <2>3 DEF HInv, TypeOK
    <3> QED
      BY <1>5, <3>1, <3>2 DEF Write, HInv, TypeOK
  <2>5. Handling'
    BY <1>5, <2>1, <2>2, <2>3 DEF Write, HInv, TypeOK, Handling
  <2> QED
    BY <2>4, <2>5 DEF HInv
<1>6. CASE RecheckExpired(q)
  <2>0. key[q] \in Keys
    BY <1>6, Looking DEF RecheckExpired
  <2>1. TypeOK'
    BY <1>6, <2>0 DEF RecheckExpired, HInv, TypeOK
  <2>2. Handling'
    BY <1>6, <2>0 DEF RecheckExpired, HInv, TypeOK, Handling
  <2> QED
    BY <2>1, <2>2 DEF HInv
<1>7. CASE RecheckPasses(q)
  <2>1. TypeOK'
    BY <1>7 DEF RecheckPasses, HInv, TypeOK
  <2>2. Handling'
    BY <1>7 DEF RecheckPasses, HInv, TypeOK, Handling
  <2> QED
    BY <2>1, <2>2 DEF HInv
<1> QED
  BY <1>1, <1>2, <1>3, <1>4, <1>5, <1>6, <1>7 DEF GetStep

\* Add replaces a response only when no Get looks at it.
LEMMA AddHInv ==
  ASSUME HInv, NEW q \in Queries, AddStep(q)
  PROVE  HInv'
<1> USE DEF crewVars, Getting
<1>1. CASE Resolve(q)
  <2>1. PICK a \in Answers : got' = [got EXCEPT ![q] = Response(a, now)]
    BY <1>1 DEF Resolve
  <2>2. Response(a, now) \in Responses /\ Response(a, now) # NoResponse
    BY FreshResponse, ResponseFields DEF HInv, TypeOK
  <2>3. TypeOK'
    BY <1>1, <2>1, <2>2 DEF Resolve, HInv, TypeOK
  <2>4. Handling'
    BY <1>1, <2>1, <2>2 DEF Resolve, HInv, TypeOK, Handling
  <2> QED
    BY <2>3, <2>4 DEF HInv
<1>2. CASE GiveUp(q)
  <2>1. TypeOK'
    BY <1>2 DEF GiveUp, HInv, TypeOK
  <2>2. Handling'
    BY <1>2, CacheAssumption DEF GiveUp, HInv, TypeOK, Handling
  <2> QED
    BY <2>1, <2>2 DEF HInv
<1>3. CASE AddLocks(q)
  <2>1. TypeOK'
    BY <1>3 DEF AddLocks, HInv, TypeOK, queryVars
  <2>2. Handling'
    BY <1>3 DEF AddLocks, HInv, TypeOK, Handling, queryVars
  <2> QED
    BY <2>1, <2>2 DEF HInv
<1>4. CASE Add(q)
  <2>1. pc[q] = "adding" /\ key[q] \in Keys /\ got[q] \in Responses /\ got[q] # NoResponse
    BY <1>4 DEF Add, HInv, TypeOK, Handling
  <2>2. TypeOK'
    BY <1>4, <2>1 DEF Add, HInv, TypeOK
  <2>3. "free" \notin Queries
    BY CacheAssumption
  <2>4. \A p \in Queries : ~Getting(p)
    BY <1>4 DEF Add, Reading
  <2>5. Handling'
    BY <1>4, <2>1, <2>3, <2>4 DEF Add, HInv, TypeOK, Handling
  <2> QED
    BY <2>2, <2>5 DEF HInv
<1> QED
  BY <1>1, <1>2, <1>3, <1>4 DEF AddStep

\* The crew removes a response only when no Get looks at it; what it does to
\* its own queues concerns no Get.
LEMMA CrewHInv ==
  ASSUME HInv, CrewStep
  PROVE  HInv'
<1> USE DEF crewVars
<1>1. CASE CleanLocks
  <2>1. TypeOK'
    BY <1>1 DEF CleanLocks, HInv, TypeOK, queryVars
  <2>2. Handling'
    BY <1>1, CacheAssumption DEF CleanLocks, HInv, Handling, Getting, queryVars
  <2> QED
    BY <2>1, <2>2 DEF HInv
<1>2. CASE Clean
  <2>1. evicting' \in [Keys -> Nat]
    BY <1>2 DEF Clean, HInv, TypeOK
  <2>2. TypeOK'
    BY <1>2, <2>1 DEF Clean, HInv, TypeOK, queryVars
  <2>3. Handling'
    BY <1>2, CacheAssumption DEF Clean, HInv, Handling, Getting, queryVars
  <2> QED
    BY <2>2, <2>3 DEF HInv
<1>3. ASSUME NEW k \in Keys, Receive(k) PROVE HInv'
  <2>1. evicting' \in [Keys -> Nat]
    BY <1>3 DEF Receive, HInv, TypeOK
  <2>2. trash' \subseteq Keys /\ buffer' \subseteq Keys /\ tm' \in {"select", "flushing"}
    BY <1>3 DEF Receive, Flush, HInv, TypeOK
  <2> QED
    BY <1>3, <2>1, <2>2, QuietHInv DEF Receive, HInv, TypeOK
<1>4. ASSUME NEW k \in Keys, EvictPanics(k) PROVE HInv'
  BY <1>4, QuietHInv DEF EvictPanics, HInv, TypeOK
<1>5. ASSUME NEW p \in BOOLEAN, SetPaused(p) PROVE HInv'
  <2>1. trash' \subseteq Keys /\ buffer' \subseteq Keys /\ tm' \in {"select", "flushing"}
    BY <1>5 DEF SetPaused, Flush, HInv, TypeOK
  <2> QED
    BY <1>5, <2>1, QuietHInv DEF SetPaused, HInv, TypeOK
<1>6. CASE RemoveLocks
  <2>1. TypeOK'
    BY <1>6 DEF RemoveLocks, HInv, TypeOK, queryVars
  <2>2. Handling'
    BY <1>6, CacheAssumption DEF RemoveLocks, HInv, Handling, Getting, queryVars
  <2> QED
    BY <2>1, <2>2 DEF HInv
<1>7. CASE RemoveSlice
  <2>1. store' \in [Keys -> Responses \cup {NoResponse}]
    BY <1>7 DEF RemoveSlice, HInv, TypeOK
  <2>2. TypeOK'
    BY <1>7, <2>1 DEF RemoveSlice, HInv, TypeOK, queryVars
  <2>3. \A p \in Queries : ~Getting(p)
    BY <1>7 DEF RemoveSlice, Reading, Getting
  <2>4. Handling'
    BY <1>7, <2>3, CacheAssumption DEF RemoveSlice, HInv, Handling, Getting, queryVars
  <2> QED
    BY <2>2, <2>4 DEF HInv
<1>8. CASE StopTrashMan
  BY <1>8, QuietHInv DEF StopTrashMan, HInv, TypeOK
<1>9. CASE StopJanitor
  BY <1>9, QuietHInv DEF StopJanitor, HInv, TypeOK
<1> QED
  BY <1>1, <1>2, <1>3, <1>4, <1>5, <1>6, <1>7, <1>8, <1>9 DEF CrewStep

\* Every step of the queries, of the crew and of the clock keeps the invariant.
LEMMA NextHInv == HInv /\ [Next]_vars => HInv'
<1> SUFFICES ASSUME HInv, [Next]_vars PROVE HInv'
  OBVIOUS
<1>1. ASSUME NEW q \in Queries, GetStep(q) \/ AddStep(q) PROVE HInv'
  BY <1>1, GetHInv, AddHInv
<1>2. CASE CrewStep
  BY <1>2, CrewHInv
<1>3. CASE Tick
  <2>1. now' \in 0..MaxTime
    BY <1>3, CacheAssumption DEF Tick, HInv, TypeOK
  <2> QED
    BY <1>3, <2>1, QuietHInv DEF Tick, HInv, TypeOK, crewVars
<1>4. CASE UNCHANGED vars
  BY <1>4, QuietHInv DEF vars, crewVars, HInv, TypeOK
<1> QED
  BY <1>1, <1>2, <1>3, <1>4 DEF Next

\* What Get relies on between RLock and RUnlock holds in every reachable state.
LEMMA HInvariance == Spec => []HInv
<1>1. Init => HInv
  BY InitHInv
<1>2. HInv /\ [Next]_vars => HInv'
  BY NextHInv
<1> QED
  BY <1>1, <1>2, PTL DEF Spec

\* The cache, the crew's queues and the queries keep their shape, and no TTL
\* leaves the range of a uint32, whatever the platform makes of a negative one.
THEOREM TypeCorrect == Spec => []TypeOK
<1>1. HInv => TypeOK
  BY DEF HInv
<1> QED
  BY <1>1, HInvariance, PTL

-----------------------------------------------------------------------------
(* The read lock *)

StillHeld ==
  \A q \in Reading :
     /\ store'[key[q]] # NoResponse
     /\ store'[key[q]].created = store[key[q]].created
     /\ store'[key[q]].orig = store[key[q]].orig

\* Only Write, Add and RemoveSlice change the cache: Write a TTL, the others
\* when no Get is under way.
LEMMA StoreSteps ==
  ASSUME HInv, Next
  PROVE  \/ store' = store
         \/ Reading = {}
         \/ \E q \in Queries : Write(q)
<1>1. ASSUME NEW q \in Queries, GetStep(q) PROVE store' = store \/ Write(q)
  BY <1>1 DEF GetStep, LookupMisses, LookupFinds, Check, Compute, RecheckExpired, RecheckPasses
<1>2. ASSUME NEW q \in Queries, AddStep(q) PROVE store' = store \/ Reading = {}
  BY <1>2 DEF AddStep, Resolve, GiveUp, AddLocks, Add
<1>3. CASE CrewStep
  BY <1>3 DEF CrewStep, CleanLocks, Clean, Receive, EvictPanics, SetPaused, RemoveLocks,
              RemoveSlice, StopTrashMan, StopJanitor
<1>4. CASE Tick
  BY <1>4 DEF Tick
<1> QED
  BY <1>1, <1>2, <1>3, <1>4 DEF Next

\* The read lock keeps the response a Get is looking at where it is: neither
\* Add nor the trashman replaces it before Get unlocks (cache.go:219).
THEOREM ReadLockHolds == Spec => HeldStill
<1>1. ASSUME HInv, [Next]_vars PROVE StillHeld
  <2> SUFFICES ASSUME NEW q \in Reading
               PROVE  /\ store'[key[q]] # NoResponse
                      /\ store'[key[q]].created = store[key[q]].created
                      /\ store'[key[q]].orig = store[key[q]].orig
    BY DEF StillHeld
  <2>1. q \in Queries /\ key[q] \in Keys /\ store[key[q]] \in Responses
        /\ store[key[q]] # NoResponse
    BY <1>1, Looking, ResponseFields DEF Reading, Getting
  <2>2. CASE store' = store
    BY <2>1, <2>2
  <2>3. ASSUME NEW p \in Queries, Write(p)
        PROVE  /\ store'[key[q]] # NoResponse
               /\ store'[key[q]].created = store[key[q]].created
               /\ store'[key[q]].orig = store[key[q]].orig
    <3>1. key[p] \in Keys /\ store[key[p]] \in Responses
          /\ at[p] \in DOMAIN store[key[p]].ttl /\ newTtl[p] \in Ttls
      BY <1>1, <2>3, Looking DEF Write, Getting, HInv, TypeOK
    <3> DEFINE n == [store[key[p]] EXCEPT !.ttl[at[p]] = newTtl[p]]
    <3>2. n \in Responses /\ n # NoResponse
          /\ n.created = store[key[p]].created /\ n.orig = store[key[p]].orig
      BY <3>1, Rewritten, ResponseFields
    <3>3. store' = [store EXCEPT ![key[p]] = n]
      BY <2>3 DEF Write
    <3> HIDE DEF n
    <3>4. store \in [Keys -> Responses \cup {NoResponse}]
      BY <1>1 DEF HInv, TypeOK
    <3>5. CASE key[q] = key[p]
      BY <3>1, <3>2, <3>3, <3>4, <3>5
    <3>6. CASE key[q] # key[p]
      BY <2>1, <3>3, <3>4, <3>6
    <3> QED
      BY <3>5, <3>6
  <2>4. CASE UNCHANGED vars
    BY <2>1, <2>4 DEF vars
  <2> QED
    BY <1>1, <2>2, <2>3, <2>4, StoreSteps
<1> QED
  BY <1>1, HInvariance, PTL DEF Spec, HeldStill, StillHeld

-----------------------------------------------------------------------------
(* The trashman's queue *)

\* Every step of the trashman leaves less than a batch behind.
LEMMA QueueStep ==
  ASSUME HInv, Queue, [Next]_vars
  PROVE  Queue'
<1>0. BatchSize \in Nat
  BY CacheAssumption
<1>1. CASE /\ UNCHANGED <<trash, tm, paused>>
           /\ lock' = "trashman" => lock = "trashman" \/ tm = "flushing"
  BY <1>1 DEF Queue, BatchFlushed
<1>2. ASSUME NEW k \in Keys, Receive(k) PROVE Queue'
  <2> DEFINE queued == trash \cup {k}
  <2>1. IsFiniteSet(queued) /\ Cardinality(queued) \in Nat
    BY FS_AddElement, FS_CardinalityType DEF Queue
  <2>2. IsFiniteSet({})
    BY FS_EmptySet
  <2>3. CASE Flush(queued)
    BY <2>2, <2>3, <1>2 DEF Flush, Queue, BatchFlushed, Receive
  <2>4. CASE ~(Cardinality(queued) >= BatchSize /\ ~paused)
    <3>1. trash' = queued /\ tm' = tm /\ tm = "select" /\ paused' = paused /\ lock' = lock
      BY <1>2, <2>4 DEF Receive
    <3>2. paused \/ Cardinality(queued) < BatchSize
      BY <1>0, <2>1, <2>4
    <3> QED
      BY <2>1, <3>1, <3>2 DEF Queue, BatchFlushed
  <2> QED
    BY <1>2, <2>3, <2>4 DEF Receive
<1>3. ASSUME NEW p \in BOOLEAN, SetPaused(p) PROVE Queue'
  <2>1. IsFiniteSet({}) /\ Cardinality(trash) \in Nat
    BY FS_EmptySet, FS_CardinalityType DEF Queue
  <2>2. CASE Flush(trash)
    BY <2>1, <2>2, <1>3 DEF Flush, Queue, BatchFlushed, SetPaused
  <2>3. CASE ~(~p /\ Cardinality(trash) >= BatchSize)
    <3>1. trash' = trash /\ tm' = tm /\ tm = "select" /\ paused' = p /\ lock' = lock
      BY <1>3, <2>3 DEF SetPaused
    <3>2. p \/ Cardinality(trash) < BatchSize
      BY <1>0, <2>1, <2>3
    <3> QED
      BY <3>1, <3>2 DEF Queue, BatchFlushed
  <2> QED
    BY <1>3, <2>2, <2>3 DEF SetPaused
<1>4. CASE RemoveSlice
  <2>1. trash = {} /\ trash' = trash /\ lock' = "free"
    BY <1>4 DEF RemoveSlice, Queue
  <2> QED
    BY <2>1 DEF Queue, BatchFlushed
<1>5. CASE StopTrashMan
  BY <1>5 DEF StopTrashMan, Queue, BatchFlushed
<1>6. ASSUME NEW k \in Keys, EvictPanics(k) PROVE Queue'
  BY <1>6 DEF EvictPanics, Queue, BatchFlushed
<1>7. ASSUME NEW q \in Queries, GetStep(q) \/ AddStep(q)
      PROVE  UNCHANGED <<trash, tm, paused>> /\ lock' \in {lock, q, "free"}
  BY <1>7 DEF GetStep, LookupMisses, LookupFinds, Check, Compute, Write, RecheckExpired,
              RecheckPasses, AddStep, Resolve, GiveUp, AddLocks, Add, crewVars
<1>8. CASE CleanLocks \/ Clean \/ RemoveLocks \/ StopJanitor \/ Tick \/ UNCHANGED vars
  <2>1. /\ UNCHANGED <<trash, tm, paused>>
        /\ lock' = "trashman" => lock = "trashman" \/ tm = "flushing"
    BY <1>8 DEF CleanLocks, Clean, RemoveLocks, StopJanitor, Tick, vars, crewVars
  <2> QED
    BY <2>1, <1>1
<1>9. "trashman" \notin Queries
  BY CacheAssumption
<1> QED
  BY <1>1, <1>2, <1>3, <1>4, <1>5, <1>6, <1>7, <1>8, <1>9 DEF Next, CrewStep

\* A flush has its slice, and only a flush has one.
LEMMA BufferStep ==
  ASSUME Queue, Emptied, [Next]_vars
  PROVE  Emptied'
<1>1. ASSUME NEW k \in Keys, Receive(k) PROVE Emptied'
  BY <1>1 DEF Receive, Flush, Emptied
<1>2. ASSUME NEW p \in BOOLEAN, SetPaused(p) PROVE Emptied'
  BY <1>2 DEF SetPaused, Flush, Emptied
<1>3. CASE RemoveSlice
  BY <1>3 DEF RemoveSlice, Emptied
<1>4. ASSUME NEW k \in Keys, EvictPanics(k) PROVE Emptied'
  BY <1>4 DEF EvictPanics, Emptied
<1>5. CASE StopTrashMan
  BY <1>5 DEF StopTrashMan, Emptied
<1>6. ASSUME NEW q \in Queries, GetStep(q) \/ AddStep(q) PROVE UNCHANGED <<buffer, tm>>
  BY <1>6 DEF GetStep, LookupMisses, LookupFinds, Check, Compute, Write, RecheckExpired,
              RecheckPasses, AddStep, Resolve, GiveUp, AddLocks, Add, crewVars
<1>7. CASE CleanLocks \/ Clean \/ RemoveLocks \/ StopJanitor \/ Tick \/ UNCHANGED vars
  BY <1>7 DEF CleanLocks, Clean, RemoveLocks, StopJanitor, Tick, vars, crewVars, Emptied
<1>8. CASE UNCHANGED <<buffer, tm>>
  BY <1>8 DEF Emptied
<1> QED
  BY <1>1, <1>2, <1>3, <1>4, <1>5, <1>6, <1>7, <1>8 DEF Next, CrewStep

\* What the trashman's queue and its slice hold, in every reachable state.
LEMMA QueueInvariance == Spec => [](Queue /\ Emptied)
<1>1. Init => Queue /\ Emptied
  <2>1. IsFiniteSet({})
    BY FS_EmptySet
  <2> QED
    BY <2>1 DEF Init, Queue, BatchFlushed, Emptied
<1>2. HInv /\ (Queue /\ Emptied) /\ [Next]_vars => (Queue /\ Emptied)'
  BY QueueStep, BufferStep
<1> QED
  BY <1>1, <1>2, HInvariance, PTL DEF Spec

\* The trashman leaves no full batch in its queue between two steps, for every
\* batch size (cache.go:493, 501).
THEOREM NoFullBatchWaits == Spec => []BatchFlushed
<1>1. Queue /\ Emptied => BatchFlushed
  BY DEF Queue
<1> QED
  BY <1>1, QueueInvariance, PTL

Keeping == \A k \in Keys : Evicted(k) => Evicted(k)' \/ store'[k] = NoResponse

\* No step drops a key that was evicted: it moves from the channel to the queue
\* and on to the slice, which is empty when the queue moves there, and whose
\* removal empties the cache under the key.
LEMMA KeepingStep ==
  ASSUME HInv, Queue, Emptied, [Next]_vars
  PROVE  Keeping
<1> SUFFICES ASSUME NEW k \in Keys, Evicted(k)
             PROVE  Evicted(k)' \/ store'[k] = NoResponse
  BY DEF Keeping
<1>0. evicting \in [Keys -> Nat]
  BY DEF HInv, TypeOK
<1>1. CASE /\ evicting'[k] \in {evicting[k], evicting[k] + 1}
           /\ UNCHANGED <<trash, buffer>>
  <2>1. evicting[k] > 0 => evicting'[k] > 0
    BY <1>0, <1>1
  <2> QED
    BY <1>1, <2>1 DEF Evicted
<1>2. ASSUME NEW j \in Keys, Receive(j) PROVE Evicted(k)'
  <2>1. tm = "select" /\ buffer = {} /\ evicting' = [evicting EXCEPT ![j] = @ - 1]
    BY <1>2 DEF Receive, Emptied
  <2>2. trash \cup {j} \subseteq trash' \cup buffer'
    BY <1>2 DEF Receive, Flush
  <2>3. CASE k = j
    BY <2>2, <2>3 DEF Evicted
  <2>4. CASE k # j
    <3>1. evicting'[k] = evicting[k]
      BY <1>0, <2>1, <2>4
    <3> QED
      BY <2>1, <2>2, <3>1 DEF Evicted
  <2> QED
    BY <2>3, <2>4
<1>3. ASSUME NEW p \in BOOLEAN, SetPaused(p) PROVE Evicted(k)'
  <2>1. buffer = {} /\ evicting' = evicting
    BY <1>3 DEF SetPaused, Emptied
  <2>2. trash \subseteq trash' \cup buffer'
    BY <1>3 DEF SetPaused, Flush
  <2> QED
    BY <2>1, <2>2 DEF Evicted
<1>4. CASE RemoveSlice
  BY <1>4 DEF RemoveSlice, Evicted
<1>5. ASSUME NEW q \in Queries, GetStep(q) \/ AddStep(q)
      PROVE  /\ evicting'[k] \in {evicting[k], evicting[k] + 1}
             /\ UNCHANGED <<trash, buffer>>
  <2>1. CASE RecheckExpired(q)
    <3>1. key[q] \in Keys /\ evicting' = [evicting EXCEPT ![key[q]] = @ + 1]
      BY <2>1, Looking DEF RecheckExpired, Getting
    <3>2. evicting'[k] \in {evicting[k], evicting[k] + 1}
      BY <1>0, <3>1
    <3> QED
      BY <2>1, <3>2 DEF RecheckExpired
  <2>2. CASE ~RecheckExpired(q)
    <3>1. UNCHANGED <<evicting, trash, buffer>>
      BY <1>5, <2>2 DEF GetStep, LookupMisses, LookupFinds, Check, Compute, Write,
              RecheckPasses, AddStep, Resolve, GiveUp, AddLocks, Add, crewVars
    <3> QED
      BY <3>1
  <2> QED
    BY <2>1, <2>2
<1>6. CASE Clean
  <2>1. evicting'[k] \in {evicting[k], evicting[k] + 1} /\ UNCHANGED <<trash, buffer>>
    BY <1>6 DEF Clean
  <2> QED
    BY <1>0, <1>1, <2>1
<1>7. CASE \/ CleanLocks \/ RemoveLocks \/ StopTrashMan \/ StopJanitor \/ Tick
           \/ \E j \in Keys : EvictPanics(j)
           \/ UNCHANGED vars
  <2>1. UNCHANGED <<evicting, trash, buffer>>
    BY <1>7 DEF CleanLocks, RemoveLocks, StopTrashMan, StopJanitor, Tick, EvictPanics,
                vars, crewVars
  <2> QED
    BY <1>0, <1>1, <2>1
<1> QED
  BY <1>1, <1>2, <1>3, <1>4, <1>5, <1>6, <1>7 DEF Next, CrewStep

\* A response handed over for removal stays with the crew, in the channel, the
\* queue or the slice, until it is not in the cache (cache.go:47): no pause, no
\* stop and no flush under way loses it, for any batch size
\* and any number of evictions under way.
THEOREM EvictionsAreKept == Spec => EvictionsKept
<1>1. HInv /\ (Queue /\ Emptied) /\ [Next]_vars => Keeping
  BY KeepingStep
<1> QED
  BY <1>1, HInvariance, QueueInvariance, PTL DEF Spec, EvictionsKept, Keeping

-----------------------------------------------------------------------------
(* No TTL grows *)

\* A clock that runs keeps responses sound.
LEMMA SoundLater ==
  ASSUME NEW t \in Nat, NEW u \in Nat, t <= u,
         NEW r \in Responses, Sound(r, t)
  PROVE  Sound(r, u)
BY ResponseFields, CacheAssumption DEF Sound

\* A step that leaves the cached responses and those to be added alone, or
\* forgets some of them, and stores no new TTL.
LEMMA KeptNoGrowth ==
  ASSUME HInv, NoGrowth, HInv', now' \in {now, now + 1},
         \A k \in Keys : store'[k] \in {store[k], NoResponse},
         \A q \in Queries : got'[q] \in {got[q], NoResponse},
         \A q \in Queries : pc'[q] = "writing" =>
           /\ pc[q] = "writing" /\ newTtl'[q] = newTtl[q]
           /\ key'[q] = key[q] /\ at'[q] = at[q] /\ store'[key[q]] = store[key[q]]
  PROVE  NoGrowth'
<1>1. now \in Nat /\ now' \in Nat /\ now <= now'
  BY CacheAssumption DEF HInv, TypeOK
<1>2. ASSUME NEW k \in Keys, store'[k] # NoResponse PROVE Sound(store'[k], now')
  <2>1. store'[k] = store[k] /\ store[k] \in Responses /\ Sound(store[k], now)
    BY <1>2 DEF HInv, TypeOK, NoGrowth
  <2> QED
    BY <1>1, <2>1, SoundLater
<1>3. ASSUME NEW q \in Queries, got'[q] # NoResponse PROVE Sound(got'[q], now')
  <2>1. got'[q] = got[q] /\ got[q] \in Responses /\ Sound(got[q], now)
    BY <1>3 DEF HInv, TypeOK, NoGrowth
  <2> QED
    BY <1>1, <2>1, SoundLater
<1>4. \A q \in Queries : pc'[q] = "writing" => newTtl'[q] <= store'[key'[q]].orig[at'[q]]
  BY DEF NoGrowth
<1> QED
  BY <1>2, <1>3, <1>4 DEF NoGrowth

\* The TTL updateTtl computes is at most the one it read; so it is when it is
\* stored, whatever other Gets stored in between.
LEMMA NoGrowthStep ==
  ASSUME "wraps" \notin Casts, HInv, NoGrowth, [Next]_vars
  PROVE  NoGrowth'
<1>0. HInv'
  BY NextHInv
<1>1. ASSUME NEW q \in Queries, Compute(q) PROVE NoGrowth'
  <2> DEFINE r == store[key[q]]
  <2>1. /\ key[q] \in Keys /\ r \in Responses /\ at[q] \in DOMAIN r.ttl
        /\ r.ttl[at[q]] \in Ttls /\ r.orig[at[q]] \in Ttls /\ r.created \in 0..MaxTime
    BY <1>1, Looking DEF Compute, Getting
  <2>2. Sound(r, now)
    BY <2>1, ResponseFields DEF NoGrowth
  <2> HIDE DEF r
  <2>3. PICK t \in Cast(r.created + r.ttl[at[q]] - now) : newTtl' = [newTtl EXCEPT ![q] = t]
    BY <1>1 DEF Compute, r
  <2>4. t <= r.orig[at[q]]
    <3> DEFINE x == r.created + r.ttl[at[q]] - now
    <3>1. r.created <= now /\ r.ttl[at[q]] <= r.orig[at[q]] /\ now \in Nat
      BY <2>1, <2>2, CacheAssumption DEF HInv, TypeOK, Sound
    <3>6. /\ r.created \in Nat /\ r.ttl[at[q]] \in Nat /\ r.orig[at[q]] \in Nat
          /\ r.ttl[at[q]] <= TtlModulus - 1 /\ TtlModulus \in Nat
      BY <2>1, CacheAssumption, SMT DEF Ttls
    <3>7. x \in Int /\ x <= r.ttl[at[q]]
      BY <3>1, <3>6, SMT
    <3>8. x <= r.orig[at[q]] /\ x <= TtlModulus - 1
      BY <3>1, <3>6, <3>7, SMT
    <3>5. x \in Int /\ (x < 0 \/ x \in Ttls) /\ x <= r.orig[at[q]]
      BY <3>6, <3>7, <3>8, SMT DEF Ttls
    <3>2. 0 <= r.orig[at[q]]
      BY <2>1, CacheAssumption DEF Ttls
    <3> HIDE DEF x
    <3>3. CASE x < 0
      BY <2>3,<3>5, <3>2, <3>3, CastFacts DEF x
    <3>4. CASE x \in Ttls
      BY <2>3,<3>5, <3>4, CastFacts DEF x
    <3> QED
      BY <3>5, <3>3, <3>4
  <2>5. UNCHANGED <<now, store, got, key, at>>
    BY <1>1 DEF Compute
  <2>6. newTtl \in [Queries -> Ttls]
    BY DEF HInv, TypeOK
  <2>7. \A p \in Queries : pc'[p] = "writing" => p = q \/ pc[p] = "writing"
    BY <1>1 DEF Compute, HInv, TypeOK
  <2>8. \A p \in Queries : pc'[p] = "writing" => newTtl'[p] <= store'[key'[p]].orig[at'[p]]
    BY <2>3, <2>4, <2>5, <2>6, <2>7 DEF NoGrowth, r
  <2> QED
    BY <2>5, <2>8 DEF NoGrowth, Sound
<1>2. ASSUME NEW q \in Queries, Write(q) PROVE NoGrowth'
  <2>1. /\ key[q] \in Keys /\ store[key[q]] \in Responses /\ at[q] \in DOMAIN store[key[q]].ttl
        /\ newTtl[q] \in Ttls
    BY <1>2, Looking DEF Write, Getting, HInv, TypeOK
  <2> DEFINE n == [store[key[q]] EXCEPT !.ttl[at[q]] = newTtl[q]]
  <2>2. /\ n.created = store[key[q]].created /\ n.orig = store[key[q]].orig
        /\ n.ttl = [store[key[q]].ttl EXCEPT ![at[q]] = newTtl[q]]
        /\ DOMAIN n.ttl = DOMAIN store[key[q]].ttl /\ store[key[q]] # NoResponse
    BY <2>1, Rewritten, ResponseFields
  <2>3. store' = [store EXCEPT ![key[q]] = n] /\ UNCHANGED <<now, got, key, at>>
    BY <1>2 DEF Write
  <2> HIDE DEF n
  <2>4. store \in [Keys -> Responses \cup {NoResponse}]
    BY DEF HInv, TypeOK
  <2>5. Sound(n, now)
    BY <1>2, <2>1, <2>2 DEF Sound, NoGrowth, Write
  <2>6. \A k \in Keys : store'[k] # NoResponse => Sound(store'[k], now)
    BY <2>1, <2>3, <2>4, <2>5 DEF NoGrowth
  <2>7. \A p \in Queries : pc'[p] = "writing" => p # q /\ pc[p] = "writing" /\ newTtl'[p] = newTtl[p]
    BY <1>2 DEF Write, HInv, TypeOK
  <2>8. \A p \in Queries : pc[p] = "writing" => key[p] \in Keys
    BY DEF HInv, Handling, Getting
  <2>9. \A k \in Keys : store'[k].orig = store[k].orig
    BY <2>1, <2>2, <2>3, <2>4
  <2>10. \A p \in Queries : pc'[p] = "writing" => newTtl'[p] <= store'[key'[p]].orig[at'[p]]
    BY <2>3, <2>7, <2>8, <2>9 DEF NoGrowth
  <2> QED
    BY <2>3, <2>6, <2>10 DEF NoGrowth, Sound
<1>3. ASSUME NEW q \in Queries, Resolve(q) PROVE NoGrowth'
  <2>1. PICK a \in Answers : got' = [got EXCEPT ![q] = Response(a, now)]
    BY <1>3 DEF Resolve
  <2>2. now \in 0..MaxTime /\ got \in [Queries -> Responses \cup {NoResponse}]
    BY DEF HInv, TypeOK
  <2>3. /\ Response(a, now).created = now
        /\ Response(a, now).ttl = a /\ Response(a, now).orig = a
    BY <2>2, FreshResponse
  <2>4. \A i \in DOMAIN a : a[i] <= a[i]
    <3>1. a \in Seq(Ttls)
      BY CacheAssumption
    <3> QED
      BY <3>1, CacheAssumption DEF Ttls
  <2>5. Sound(Response(a, now), now)
    BY <2>2, <2>3, <2>4, CacheAssumption DEF Sound
  <2>6. UNCHANGED <<now, store, newTtl, key, at>>
        /\ \A p \in Queries : pc'[p] = "writing" => pc[p] = "writing"
    BY <1>3 DEF Resolve, HInv, TypeOK
  <2>7. \A p \in Queries : got'[p] # NoResponse => Sound(got'[p], now)
    BY <2>1, <2>2, <2>5 DEF NoGrowth
  <2> QED
    BY <2>6, <2>7 DEF NoGrowth, Sound
<1>4. ASSUME NEW q \in Queries, Add(q) PROVE NoGrowth'
  <2>1. key[q] \in Keys /\ got[q] # NoResponse /\ Sound(got[q], now)
    BY <1>4 DEF Add, HInv, Handling, NoGrowth
  <2>2. UNCHANGED now /\ \A p \in Queries : pc'[p] # "writing"
    BY <1>4 DEF Add, HInv, TypeOK, Reading
  <2>3. \A k \in Keys : store'[k] # NoResponse => Sound(store'[k], now)
    BY <1>4, <2>1 DEF Add, HInv, TypeOK, NoGrowth
  <2>4. \A p \in Queries : got'[p] # NoResponse => Sound(got'[p], now)
    BY <1>4 DEF Add, HInv, TypeOK, NoGrowth
  <2> QED
    BY <2>2, <2>3, <2>4 DEF NoGrowth, Sound
<1>5. ASSUME NEW q \in Queries, GetStep(q), ~Compute(q), ~Write(q) PROVE NoGrowth'
  BY <1>0, <1>5, KeptNoGrowth
     DEF GetStep, LookupMisses, LookupFinds, Check, RecheckExpired, RecheckPasses, HInv, TypeOK
<1>6. ASSUME NEW q \in Queries, GiveUp(q) \/ AddLocks(q) PROVE NoGrowth'
  BY <1>0, <1>6, KeptNoGrowth DEF GiveUp, AddLocks, HInv, TypeOK, queryVars
<1>7. CASE RemoveSlice
  <2>1. \A q \in Queries : pc'[q] # "writing"
    BY <1>7 DEF RemoveSlice, Reading, queryVars
  <2>2. \A k \in Keys : store'[k] \in {store[k], NoResponse}
    BY <1>7 DEF RemoveSlice
  <2> QED
    BY <1>0, <1>7, <2>1, <2>2, KeptNoGrowth DEF RemoveSlice, queryVars
<1>8. CASE Tick \/ UNCHANGED vars \/ (CrewStep /\ ~RemoveSlice)
  <2>1. /\ now' \in {now, now + 1}
        /\ UNCHANGED <<store, queryVars>>
    BY <1>8 DEF Tick, vars, CrewStep, CleanLocks, Clean, Receive, EvictPanics, SetPaused,
                RemoveLocks, StopTrashMan, StopJanitor
  <2> QED
    BY <1>0, <2>1, KeptNoGrowth DEF queryVars
<1> QED
  BY <1>1, <1>2, <1>3, <1>4, <1>5, <1>6, <1>7, <1>8 DEF Next, AddStep

\* Only the recheck of an unexpired record takes a Get on from there.
LEMMA OnlyPasses ==
  ASSUME HInv, [Next]_vars, NEW q \in Queries,
         pc[q] = "rechecking", pc'[q] \in {"idle", "checking"}
  PROVE  RecheckPasses(q)
<1>0. pc \in [Queries -> {"idle", "checking", "computing", "writing", "rechecking",
                         "missed", "adding"}]
  BY DEF HInv, TypeOK
<1>1. ASSUME NEW p \in Queries, GetStep(p) PROVE RecheckPasses(q)
  <2>1. CASE p = q
    BY <1>0, <1>1, <2>1 DEF GetStep, LookupMisses, LookupFinds, Check, Compute, Write, RecheckExpired
  <2>2. CASE p # q
    <3>1. pc'[q] = pc[q]
      BY <1>0, <1>1, <2>2 DEF GetStep, LookupMisses, LookupFinds, Check, Compute, Write,
                              RecheckExpired, RecheckPasses
    <3> QED
      BY <3>1
  <2> QED
    BY <2>1, <2>2
<1>2. ASSUME NEW p \in Queries, AddStep(p) PROVE FALSE
  <2>1. CASE Resolve(p) \/ GiveUp(p) \/ AddLocks(p)
    BY <1>0, <2>1 DEF Resolve, GiveUp, AddLocks, queryVars
  <2>2. CASE Add(p)
    BY <1>0, <2>2 DEF Add, Reading
  <2> QED
    BY <1>2, <2>1, <2>2 DEF AddStep
<1>3. CASE CrewStep \/ Tick \/ UNCHANGED vars
  <2>1. pc' = pc
    BY <1>3 DEF CrewStep, CleanLocks, Clean, Receive, EvictPanics, SetPaused, RemoveLocks,
                RemoveSlice, StopTrashMan, StopJanitor, Tick, vars, queryVars
  <2> QED
    BY <2>1
<1> QED
  BY <1>1, <1>2, <1>3 DEF Next

\* A cache that starts with the zone's records, all unexpired, starts sound.
LEMMA InitNoGrowth == Init => NoGrowth
<1> SUFFICES ASSUME Init PROVE NoGrowth
  OBVIOUS
<1>1. PICK z \in [Zone -> Answers] :
        store = [k \in Keys |-> IF k \in Zone THEN Response(z[k], 0) ELSE NoResponse]
  BY DEF Init
<1>2. ASSUME NEW k \in Keys, store[k] # NoResponse PROVE Sound(store[k], now)
  <2>1. store[k] = Response(z[k], 0) /\ z[k] \in Answers /\ 0 \in 0..MaxTime
    BY <1>1, <1>2, CacheAssumption
  <2>2. store[k].created = 0 /\ store[k].ttl = z[k] /\ store[k].orig = z[k]
    BY <2>1, FreshResponse
  <2>3. z[k] \in Seq(Ttls)
    BY <2>1, CacheAssumption
  <2>4. \A i \in DOMAIN z[k] : z[k][i] <= z[k][i]
    BY <2>3, CacheAssumption DEF Ttls
  <2> QED
    BY <2>2, <2>4 DEF Sound, Init
<1> QED
  BY <1>2 DEF Init, NoGrowth

Fresh ==
  \A q \in Queries :
     pc[q] = "rechecking" /\ pc'[q] \in {"idle", "checking"} =>
       LET resp == store[key[q]] IN now <= resp.created + resp.orig[at[q]]

\* Where the conversion of a negative float saturates, no Get accepts a record
\* past the TTL the upstream gave it (cache.go:258): its TTL only ever shrank.
THEOREM NeverStale ==
  ASSUME "wraps" \notin Casts
  PROVE  Spec => NoStaleHit
<1>1. Init => NoGrowth
  BY InitNoGrowth
<1>2. HInv /\ NoGrowth /\ [Next]_vars => NoGrowth'
  BY NoGrowthStep
<1>3. ASSUME HInv, NoGrowth, [Next]_vars PROVE Fresh
  <2> SUFFICES ASSUME NEW q \in Queries, pc[q] = "rechecking", pc'[q] \in {"idle", "checking"}
               PROVE  now <= store[key[q]].created + store[key[q]].orig[at[q]]
    BY DEF Fresh
  <2>1. /\ store[key[q]] # NoResponse /\ key[q] \in Keys
        /\ at[q] \in DOMAIN store[key[q]].ttl
        /\ store[key[q]].ttl[at[q]] \in Ttls /\ store[key[q]].orig[at[q]] \in Ttls
        /\ store[key[q]].created \in 0..MaxTime
    BY <1>3, Looking, ResponseFields DEF Getting
  <2>2. ~IsExpired(store[key[q]], at[q])
    BY <1>3, OnlyPasses DEF RecheckPasses
  <2>3. store[key[q]].ttl[at[q]] <= store[key[q]].orig[at[q]]
    BY <1>3, <2>1 DEF NoGrowth, Sound
  <2> QED
    BY <1>3, <2>1, <2>2, <2>3, CacheAssumption DEF IsExpired, HInv, TypeOK, Ttls
<1> QED
  BY <1>1, <1>2, <1>3, HInvariance, PTL DEF Spec, NoStaleHit, Fresh

\* Where that conversion saturates, a client is never told a TTL larger than
\* the upstream's, however many Gets rewrite the TTLs that HandleDNS copies
\* (mutex_server.go:274): what is in the cache has only shrunk.
THEOREM ToldNoMore ==
  ASSUME "wraps" \notin Casts
  PROVE  Spec => []ToldWithin
<1>1. Init => NoGrowth
  BY InitNoGrowth
<1>2. HInv /\ NoGrowth /\ [Next]_vars => NoGrowth'
  BY NoGrowthStep
<1>3. NoGrowth => ToldWithin
  BY DEF NoGrowth, Sound, ToldWithin
<1> QED
  BY <1>1, <1>2, <1>3, HInvariance, PTL DEF Spec

\* Only updateTtl brings a query to where it stores a TTL.
LEMMA OnlyComputes ==
  ASSUME HInv, [Next]_vars, NEW q \in Queries, pc[q] = "computing", pc'[q] = "writing"
  PROVE  Compute(q)
<1>0. pc \in [Queries -> {"idle", "checking", "computing", "writing", "rechecking",
                         "missed", "adding"}]
  BY DEF HInv, TypeOK
<1>1. ASSUME NEW p \in Queries, GetStep(p) PROVE Compute(q)
  <2>1. CASE p = q
    BY <1>0, <1>1, <2>1 DEF GetStep, LookupMisses, LookupFinds, Check, Write, RecheckExpired,
                            RecheckPasses
  <2>2. CASE p # q
    <3>1. pc'[q] = pc[q]
      BY <1>0, <1>1, <2>2 DEF GetStep, LookupMisses, LookupFinds, Check, Compute, Write,
                              RecheckExpired, RecheckPasses
    <3> QED
      BY <3>1
  <2> QED
    BY <2>1, <2>2
<1>2. ASSUME NEW p \in Queries, AddStep(p) PROVE FALSE
  <2>1. CASE Resolve(p) \/ GiveUp(p) \/ AddLocks(p)
    BY <1>0, <2>1 DEF Resolve, GiveUp, AddLocks, queryVars
  <2>2. CASE Add(p)
    BY <1>0, <2>2 DEF Add, Reading
  <2> QED
    BY <1>2, <2>1, <2>2 DEF AddStep
<1>3. CASE CrewStep \/ Tick \/ UNCHANGED vars
  <2>1. pc' = pc
    BY <1>3 DEF CrewStep, CleanLocks, Clean, Receive, EvictPanics, SetPaused, RemoveLocks,
                RemoveSlice, StopTrashMan, StopJanitor, Tick, vars, queryVars
  <2> QED
    BY <2>1
<1> QED
  BY <1>1, <1>2, <1>3 DEF Next

Understated ==
  \A q \in Queries :
    pc[q] = "computing" /\ pc'[q] = "writing" =>
      LET resp == store[key[q]]
          left == resp.created + resp.orig[at[q]] - now
      IN  /\ newTtl'[q] <= left \/ newTtl'[q] = 0
          /\ resp.ttl[at[q]] = resp.orig[at[q]] /\ left >= 0 => newTtl'[q] = left

\* Where that conversion saturates, the TTL a Get stores never promises a
\* client more time than the upstream's answer has left (cache.go:187); for a
\* record no Get has rewritten yet it is exactly that time.
THEOREM NeverOverstated ==
  ASSUME "wraps" \notin Casts
  PROVE  Spec => TtlNotOverstated
<1>1. Init => NoGrowth
  BY InitNoGrowth
<1>2. HInv /\ NoGrowth /\ [Next]_vars => NoGrowth'
  BY NoGrowthStep
<1>3. ASSUME HInv, NoGrowth, [Next]_vars PROVE Understated
  <2> SUFFICES ASSUME NEW q \in Queries, pc[q] = "computing", pc'[q] = "writing",
                      NEW left, left = store[key[q]].created + store[key[q]].orig[at[q]] - now
               PROVE  /\ newTtl'[q] <= left \/ newTtl'[q] = 0
                      /\ store[key[q]].ttl[at[q]] = store[key[q]].orig[at[q]] /\ left >= 0 =>
                           newTtl'[q] = left
    BY DEF Understated
  <2> DEFINE r == store[key[q]]
  <2>1. /\ key[q] \in Keys /\ r \in Responses /\ at[q] \in DOMAIN r.ttl
        /\ r.ttl[at[q]] \in Ttls /\ r.orig[at[q]] \in Ttls /\ r.created \in 0..MaxTime
    BY <1>3, Looking DEF Getting
  <2>2. Sound(r, now)
    BY <1>3, <2>1, ResponseFields DEF NoGrowth
  <2>3. Compute(q) /\ newTtl \in [Queries -> Ttls] /\ now \in 0..MaxTime
    BY <1>3, OnlyComputes DEF HInv, TypeOK
  <2> HIDE DEF r
  <2>4. PICK t \in Cast(r.created + r.ttl[at[q]] - now) : newTtl' = [newTtl EXCEPT ![q] = t]
    BY <2>3 DEF Compute, r
  <2>5. newTtl'[q] = t
    BY <2>3, <2>4
  <2>6. /\ r.created \in Nat /\ r.ttl[at[q]] \in Nat /\ r.orig[at[q]] \in Nat /\ now \in Nat
        /\ r.ttl[at[q]] <= TtlModulus - 1 /\ TtlModulus \in Nat
        /\ r.created <= now /\ r.ttl[at[q]] <= r.orig[at[q]]
    BY <2>1, <2>2, <2>3, CacheAssumption, SMT DEF Ttls, Sound
  <2> DEFINE x == r.created + r.ttl[at[q]] - now
  <2>7. /\ x \in Int /\ (x < 0 \/ x \in Ttls)
        /\ x <= left /\ (r.ttl[at[q]] = r.orig[at[q]] => x = left)
    BY <2>6, SMT DEF Ttls, r
  <2> HIDE DEF x
  <2>8. x < 0 => t = 0
    BY <2>4, <2>7, CastFacts DEF x
  <2>9. x \in Ttls => t = x
    BY <2>4, <2>7, CastFacts DEF x
  <2>10. t <= left \/ t = 0
    BY <2>7, <2>8, <2>9
  <2>11. r.ttl[at[q]] = r.orig[at[q]] /\ left >= 0 => t = left
    BY <2>7, <2>8, <2>9
  <2> QED
    BY <2>5, <2>10, <2>11 DEF r
<1> QED
  BY <1>1, <1>2, <1>3, HInvariance, PTL DEF Spec, TtlNotOverstated, Understated

-----------------------------------------------------------------------------
(* RecordCache implements TtlCache *)

SeenAs(p) == IF p = "adding" THEN "resolved"
             ELSE IF p \in {"checking", "computing", "writing", "rechecking"} THEN "looking"
             ELSE p

\* How far the abstract cache sees a query depends on where it is.
LEMMA StateByPc ==
  ASSUME NEW q \in Queries
  PROVE  StateOf(q) = SeenAs(pc[q]) /\ StateOf(q)' = SeenAs(pc'[q])
BY DEF StateOf, Reading, SeenAs

\* A response is something to the abstract cache, too.
LEMMA EntryFields ==
  ASSUME NEW r \in Responses
  PROVE  /\ EntryOf(r) # NoResponse
         /\ EntryOf(r).created = r.created /\ EntryOf(r).orig = r.orig
<1>1. r # NoResponse /\ r.created \in 0..MaxTime /\ r.orig \in Answers
  BY ResponseFields
<1>2. EntryOf(r) = [created |-> r.created, orig |-> r.orig]
  BY <1>1 DEF EntryOf
<1>3. EntryOf(r) \in [created : 0..MaxTime, orig : Answers]
  BY <1>1, <1>2
<1> QED
  BY <1>2, <1>3, CacheAssumption

\* The keys that are looked at are those of the Gets under way.
LEMMA PinnedByGets ==
  ASSUME HInv, NEW k \in Keys, Reading = {} \/ \A q \in Reading : key[q] # k
  PROVE  k \notin Promise!Pinned
<1>1. \A q \in Queries : StateOf(q) = "looking" => q \in Reading
  BY StateByPc DEF SeenAs, Reading, HInv, TypeOK
<1> QED
  BY <1>1 DEF Promise!Pinned

\* Write changes a TTL, which the abstract cache does not see.
LEMMA WriteUnseen ==
  ASSUME HInv, NEW q \in Queries, Write(q)
  PROVE  UNCHANGED Promise!cacheVars
<1>1. key[q] \in Keys /\ store[key[q]] \in Responses /\ at[q] \in DOMAIN store[key[q]].ttl
      /\ newTtl[q] \in Ttls
  BY Looking DEF Write, Getting, HInv, TypeOK
<1> DEFINE n == [store[key[q]] EXCEPT !.ttl[at[q]] = newTtl[q]]
<1>2. n \in Responses /\ n.created = store[key[q]].created /\ n.orig = store[key[q]].orig
  BY <1>1, Rewritten
<1>3. store' = [store EXCEPT ![key[q]] = n]
  BY DEF Write
<1> HIDE DEF n
<1>4. EntryOf(n) = EntryOf(store[key[q]])
  BY <1>1, <1>2, ResponseFields DEF EntryOf
<1>5. \A k \in Keys : EntryOf(store[k])' = EntryOf(store[k])
  BY <1>1, <1>3, <1>4 DEF HInv, TypeOK
<1>6. \A p \in Queries : StateOf(p)' = StateOf(p)
  BY StateByPc DEF Write, SeenAs, HInv, TypeOK
<1> QED
  BY <1>5, <1>6 DEF Promise!cacheVars, Write

\* Get is Miss, Look, Accept or Reject, or nothing the abstract cache sees.  A
\* record is accepted by the TTL it has now, which is at most the original.
LEMMA GetRefines ==
  ASSUME HInv, NoGrowth, NEW q \in Queries, GetStep(q)
  PROVE  Promise!CacheNext \/ UNCHANGED Promise!cacheVars
<1> DEFINE St == [p \in Queries |-> StateOf(p)]
<1>0. pc \in [Queries -> {"idle", "checking", "computing", "writing", "rechecking",
                          "missed", "adding"}]
      /\ store \in [Keys -> Responses \cup {NoResponse}]
  BY DEF HInv, TypeOK
<1>a. ASSUME NEW s \in {"idle", "checking", "missed"}, pc' = [pc EXCEPT ![q] = s]
      PROVE  St' = [St EXCEPT ![q] = SeenAs(s)]
  <2>1. \A p \in Queries : StateOf(p)' = IF p = q THEN SeenAs(s) ELSE StateOf(p)
    BY <1>0, <1>a, StateByPc
  <2> QED
    BY <2>1
<1>1. ASSUME NEW k \in Keys, LookupMisses(q, k) PROVE Promise!Miss(q, k)
  <2>1. St[q] = "idle" /\ EntryOf(store[k]) = NoResponse
    BY <1>1, StateByPc DEF LookupMisses, SeenAs, EntryOf
  <2>2. St' = [St EXCEPT ![q] = "missed"]
    BY <1>1, <1>a DEF LookupMisses, SeenAs
  <2> QED
    BY <1>1, <2>1, <2>2 DEF Promise!Miss, LookupMisses
<1>2. ASSUME NEW k \in Keys, LookupFinds(q, k) PROVE Promise!Look(q, k)
  <2>1. St[q] = "idle" /\ store[k] \in Responses
    BY <1>0, <1>2, StateByPc DEF LookupFinds, SeenAs
  <2>2. EntryOf(store[k]) # NoResponse /\ 1 \in DOMAIN EntryOf(store[k]).orig
    BY <1>2, <2>1, EntryFields, ResponseFields DEF LookupFinds
  <2>3. St' = [St EXCEPT ![q] = "looking"]
    BY <1>2, <1>a DEF LookupFinds, SeenAs
  <2> QED
    BY <1>2, <2>1, <2>2, <2>3 DEF Promise!Look, LookupFinds
<1>3. CASE Check(q) \/ Compute(q)
  <2>1. \A p \in Queries : StateOf(p)' = StateOf(p)
    BY <1>0, <1>3, StateByPc DEF Check, Compute, SeenAs
  <2> QED
    BY <1>3, <2>1 DEF Check, Compute, Promise!cacheVars
<1>4. CASE RecheckExpired(q)
  <2>1. St[q] = "looking"
    BY <1>4, StateByPc DEF RecheckExpired, SeenAs
  <2>2. St' = [St EXCEPT ![q] = "missed"]
    BY <1>4, <1>a DEF RecheckExpired, SeenAs
  <2> QED
    BY <1>4, <2>1, <2>2 DEF Promise!Reject, Promise!CacheNext, RecheckExpired
<1>5. CASE RecheckPasses(q)
  <2>1. St[q] = "looking" /\ St[q] = SeenAs("checking")
    BY <1>5, StateByPc DEF RecheckPasses, SeenAs
  <2>2. /\ key[q] \in Keys /\ store[key[q]] \in Responses
        /\ at[q] \in DOMAIN store[key[q]].ttl
        /\ store[key[q]].ttl[at[q]] \in Ttls /\ store[key[q]].orig[at[q]] \in Ttls
        /\ store[key[q]].created \in 0..MaxTime
    BY <1>5, Looking DEF RecheckPasses, Getting
  <2>3. store[key[q]] # NoResponse /\ DOMAIN store[key[q]].ttl = DOMAIN store[key[q]].orig
    BY <2>2, ResponseFields
  <2>4. /\ EntryOf(store[key[q]]).created = store[key[q]].created
        /\ EntryOf(store[key[q]]).orig = store[key[q]].orig
    BY <2>2, EntryFields
  <2>5. store[key[q]].ttl[at[q]] <= store[key[q]].orig[at[q]]
    BY <2>2, <2>3 DEF NoGrowth, Sound
  <2>6. now <= store[key[q]].created + store[key[q]].orig[at[q]]
    BY <1>5, <2>2, <2>5, CacheAssumption DEF RecheckPasses, IsExpired, HInv, TypeOK, Ttls
  <2>7. CASE at[q] + 1 \in DOMAIN store[key[q]].ttl
    <3>1. St' = [St EXCEPT ![q] = St[q]]
      BY <1>5, <1>a, <2>1, <2>7 DEF RecheckPasses
    <3>2. St' = St
      BY <3>1
    <3> QED
      BY <1>5, <2>1, <2>2, <2>3, <2>4, <2>6, <2>7, <3>2
         DEF Promise!Accept, Promise!CacheNext, RecheckPasses
  <2>8. CASE at[q] + 1 \notin DOMAIN store[key[q]].ttl
    <3>1. St' = [St EXCEPT ![q] = "idle"]
      BY <1>5, <1>a, <2>8 DEF RecheckPasses, SeenAs
    <3> QED
      BY <1>5, <2>1, <2>2, <2>3, <2>4, <2>6, <2>8, <3>1
         DEF Promise!Accept, Promise!CacheNext, RecheckPasses
  <2> QED
    BY <2>7, <2>8
<1> QED
  BY <1>1, <1>2, <1>3, <1>4, <1>5, WriteUnseen DEF GetStep, Promise!CacheNext

\* Resolve and Add are Resolved and Store: Add has the write lock, so nobody
\* looks at what it replaces.
LEMMA AddRefines ==
  ASSUME HInv, NEW q \in Queries, AddStep(q)
  PROVE  Promise!CacheNext \/ UNCHANGED Promise!cacheVars
<1> DEFINE St == [p \in Queries |-> StateOf(p)]
           En == [k \in Keys |-> EntryOf(store[k])]
           An == [p \in Queries |-> EntryOf(got[p])]
<1>0. /\ pc \in [Queries -> {"idle", "checking", "computing", "writing", "rechecking",
                             "missed", "adding"}]
      /\ store \in [Keys -> Responses \cup {NoResponse}]
      /\ got \in [Queries -> Responses \cup {NoResponse}]
  BY DEF HInv, TypeOK
<1>a. ASSUME NEW s \in {"idle", "adding"}, pc' = [pc EXCEPT ![q] = s]
      PROVE  St' = [St EXCEPT ![q] = SeenAs(s)]
  <2>1. \A p \in Queries : StateOf(p)' = IF p = q THEN SeenAs(s) ELSE StateOf(p)
    BY <1>0, <1>a, StateByPc
  <2> QED
    BY <2>1
<1>1. CASE Resolve(q)
  <2>1. PICK a \in Answers : got' = [got EXCEPT ![q] = Response(a, now)]
    BY <1>1 DEF Resolve
  <2>2. Response(a, now) \in Responses /\ Response(a, now).created = now
        /\ Response(a, now).orig = a
    BY FreshResponse DEF HInv, TypeOK
  <2>3. EntryOf(Response(a, now)) = Promise!Entry(a, now)
    BY <2>2, ResponseFields DEF EntryOf, Promise!Entry
  <2>4. \A p \in Queries : EntryOf(got[p])' = IF p = q THEN Promise!Entry(a, now) ELSE EntryOf(got[p])
    BY <1>0, <2>1, <2>3
  <2>5. An' = [An EXCEPT ![q] = Promise!Entry(a, now)]
    BY <2>4
  <2>6. St[q] = "missed"
    BY <1>1, StateByPc DEF Resolve, SeenAs
  <2>7. St' = [St EXCEPT ![q] = "resolved"]
    BY <1>1, <1>a DEF Resolve, SeenAs
  <2>8. Promise!Resolved(q)
    BY <1>1, <2>5, <2>6, <2>7 DEF Promise!Resolved, Resolve
  <2> QED
    BY <2>8 DEF Promise!CacheNext
<1>2. CASE GiveUp(q)
  <2>1. St[q] = "missed"
    BY <1>2, StateByPc DEF GiveUp, SeenAs
  <2>2. St' = [St EXCEPT ![q] = "idle"]
    BY <1>2, <1>a DEF GiveUp, SeenAs
  <2> QED
    BY <1>2, <2>1, <2>2 DEF Promise!Unresolved, Promise!CacheNext, GiveUp
<1>3. CASE AddLocks(q)
  <2>1. \A p \in Queries : StateOf(p)' = StateOf(p)
    BY <1>3, StateByPc DEF AddLocks, queryVars
  <2> QED
    BY <1>3, <2>1 DEF AddLocks, queryVars, Promise!cacheVars
<1>4. CASE Add(q)
  <2>1. pc[q] = "adding" /\ key[q] \in Keys /\ Reading = {}
    BY <1>4 DEF Add, HInv, Handling
  <2>2. key[q] \notin Promise!Pinned
    BY <2>1, PinnedByGets
  <2>3. St[q] = "resolved"
    BY <2>1, StateByPc DEF SeenAs
  <2>4. St' = [St EXCEPT ![q] = "idle"]
    BY <1>4, <1>a DEF Add, SeenAs
  <2>5. \A k \in Keys : EntryOf(store[k])' = IF k = key[q] THEN EntryOf(got[q]) ELSE EntryOf(store[k])
    BY <1>0, <1>4, <2>1 DEF Add
  <2>6. En' = [En EXCEPT ![key[q]] = An[q]]
    BY <2>5
  <2>7. \A p \in Queries : EntryOf(got[p])' = IF p = q THEN NoResponse ELSE EntryOf(got[p])
    BY <1>0, <1>4 DEF Add, EntryOf
  <2>8. An' = [An EXCEPT ![q] = NoResponse]
    BY <2>7
  <2> QED
    BY <1>4, <2>2, <2>3, <2>4, <2>6, <2>8 DEF Promise!Store, Promise!CacheNext, Add
<1> QED
  BY <1>1, <1>2, <1>3, <1>4 DEF AddStep

\* All the abstract cache sees of the crew is that RemoveSlice forgets, under
\* the write lock.
LEMMA CrewRefines ==
  ASSUME HInv, CrewStep \/ Tick \/ UNCHANGED vars
  PROVE  Promise!CacheNext \/ UNCHANGED Promise!cacheVars
<1>1. CASE RemoveSlice
  <2>1. buffer \subseteq Keys /\ \A k \in Keys : k \notin Promise!Pinned
    BY <1>1, PinnedByGets DEF RemoveSlice, HInv, TypeOK
  <2>2. \A k \in Keys : EntryOf(store[k])' = IF k \in buffer THEN NoResponse ELSE EntryOf(store[k])
    BY <1>1 DEF RemoveSlice, EntryOf
  <2>3. \A p \in Queries : StateOf(p)' = StateOf(p)
    BY <1>1, StateByPc DEF RemoveSlice, queryVars
  <2>4. Promise!Forget(buffer)
    BY <1>1, <2>1, <2>2, <2>3 DEF Promise!Forget, RemoveSlice, queryVars
  <2> QED
    BY <2>1, <2>4 DEF Promise!CacheNext
<1>2. CASE Tick
  <2>1. \A p \in Queries : StateOf(p)' = StateOf(p)
    BY <1>2, StateByPc DEF Tick, queryVars
  <2> QED
    BY <1>2, <2>1 DEF Tick, queryVars, Promise!Pass, Promise!CacheNext
<1>3. CASE (CrewStep /\ ~RemoveSlice) \/ UNCHANGED vars
  <2>1. UNCHANGED <<now, store, queryVars>>
    BY <1>3 DEF vars, CrewStep, CleanLocks, Clean, Receive, EvictPanics, SetPaused,
                RemoveLocks, StopTrashMan, StopJanitor
  <2>2. \A p \in Queries : StateOf(p)' = StateOf(p)
    BY <2>1, StateByPc DEF queryVars
  <2> QED
    BY <2>1, <2>2 DEF queryVars, Promise!cacheVars
<1> QED
  BY <1>1, <1>2, <1>3

\* Where the conversion of a negative float saturates, RecordCache keeps the
\* promise of TtlCache (cache.go:209-317): a query is given records of one
\* answer an upstream gave after a miss, each within the TTL it came with, and
\* the answer stays in the cache while it is looked at, whatever the crew
\* removes and other queries rewrite.
THEOREM ImplementsTtlCache ==
  ASSUME "wraps" \notin Casts
  PROVE  Spec => KeepsFresh
<1>1. ASSUME Init PROVE Promise!CacheInit
  <2>1. PICK z \in [Zone -> Answers] :
          store = [k \in Keys |-> IF k \in Zone THEN Response(z[k], 0) ELSE NoResponse]
    BY <1>1 DEF Init
  <2>2. \A k \in Zone : EntryOf(Response(z[k], 0)) = Promise!Entry(z[k], 0)
    <3> TAKE k \in Zone
    <3>1. z[k] \in Answers /\ 0 \in 0..MaxTime
      BY CacheAssumption
    <3>2. /\ Response(z[k], 0) \in Responses /\ Response(z[k], 0).created = 0
          /\ Response(z[k], 0).orig = z[k]
      BY <3>1, FreshResponse
    <3> QED
      BY <3>2, ResponseFields DEF EntryOf, Promise!Entry
  <2>3. [k \in Keys |-> EntryOf(store[k])]
          = [k \in Keys |-> IF k \in Zone THEN Promise!Entry(z[k], 0) ELSE NoResponse]
    BY <2>1, <2>2 DEF EntryOf
  <2>4. \A q \in Queries : StateOf(q) = "idle" /\ EntryOf(got[q]) = NoResponse
    BY <1>1, StateByPc DEF Init, SeenAs, EntryOf
  <2> QED
    BY <1>1, <2>3, <2>4 DEF Promise!CacheInit, Init
<1>2. HInv /\ NoGrowth /\ [Next]_vars => NoGrowth'
  BY NoGrowthStep
<1>3. HInv /\ NoGrowth /\ [Next]_vars => [Promise!CacheNext]_(Promise!cacheVars)
  BY GetRefines, AddRefines, CrewRefines DEF Next
<1> QED
  BY <1>1, <1>2, <1>3, InitNoGrowth, HInvariance, PTL DEF Spec, KeepsFresh, Promise!CacheSpec
============================================================================
