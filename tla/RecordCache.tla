---------------------------- MODULE RecordCache ----------------------------
(***************************************************************************)
(* The response cache (cache.go): Get, Add and Clean, and its cleaning     *)
(* crew, the janitor that looks for expired responses and the trashman     *)
(* that removes them, fed by one goroutine per eviction.                   *)
(*                                                                         *)
(* Get holds the cache's lock for reading only, but rewrites the TTL of    *)
(* every record it looks at, so two Gets of one response interleave: each  *)
(* of their reads and writes of the shared record is a step.  What runs    *)
(* under the write lock is one step.  The lock is Go's: a writer that      *)
(* waits keeps new readers out.                                            *)
(*                                                                         *)
(* What is abstracted.  A response is the TTLs of its answer records; its  *)
(* key stands for name and type.  The clock counts seconds; a TTL is the   *)
(* whole seconds left, as in the code, so no record lives or dies by the   *)
(* fraction that is left out.                                              *)
(***************************************************************************)
EXTENDS Integers, Sequences, FiniteSets

CONSTANTS
  Keys,          \* Response.FormatKey: name and query type
  Queries,       \* the goroutines that call Get and, after a miss, Add
  Answers,       \* what an upstream or a zone file may answer: sequences of TTLs
  Zone,          \* the keys loaded before the first query (loadLocalZones)
  Hosted,        \* TRUE for HostedCache, which has no cleaning crew
  BatchSize,     \* config.EvictionBatchSize
  TtlModulus,    \* 2^32: a TTL is a uint32
  Casts,         \* what uint32() makes of a negative float64: "wraps" (amd64),
                 \* "saturates" (arm64)
  MaxTime,       \* bound on the clock
  MaxEvictions,  \* bound on the goroutines that evict one key at a time
  NoResponse,    \* no such key in the map
  NoKey          \* no key asked for

Ttls == 0..(TtlModulus - 1)

\* Response: the answer as it was (only properties read it) and the TTLs its
\* records have now.
Responses == UNION { [created : 0..MaxTime, orig : {a}, ttl : [DOMAIN a -> Ttls]] :
                       a \in Answers }

ASSUME CacheAssumption ==
  /\ TtlModulus \in Nat \ {0} /\ MaxTime \in Nat /\ MaxEvictions \in Nat
  /\ BatchSize \in Nat
  /\ Answers \subseteq Seq(Ttls)
  /\ Zone \subseteq Keys /\ NoKey \notin Keys /\ Hosted \in BOOLEAN
  /\ Casts \subseteq {"wraps", "saturates"} /\ Casts # {}
  /\ {"free", "janitor", "trashman"} \cap Queries = {}
  /\ NoResponse \notin Responses
  /\ NoResponse \notin [created : 0..MaxTime, orig : Answers]

VARIABLES
  now,       \* time.Now()
  store,     \* RecordCache.cache
  lock,      \* who waits for, or has, the write lock; "free" if nobody
  \* cleaning crew
  evicting,  \* evicting[k]: goroutines of Evict blocked on the channel with k
  trash,     \* trashMan.responses: the keys queued for removal
  buffer,    \* flushBuffer of a FlushResponses under way
  tm,        \* where the trashman is
  paused,    \* trashMan.paused
  janitor,   \* whether the janitor runs
  \* queries
  pc,        \* where a query is
  key,       \* key[q]: the key q asked for
  at,        \* at[q]: the record Get is looking at
  newTtl,    \* newTtl[q]: the TTL updateTtl has computed and not yet stored
  got        \* got[q]: what the upstream answered q, not yet added

crewVars  == <<evicting, trash, buffer, tm, paused, janitor>>
queryVars == <<pc, key, at, newTtl, got>>
vars == <<now, store, lock, crewVars, queryVars>>

-----------------------------------------------------------------------------
(* Responses and their age *)

\* A response as processResults or ParseZoneFile makes it.
Response(a, t) == [created |-> t, orig |-> a, ttl |-> a]

\* Mutant: a record outlives its TTL by a second.
IsExpiredLate(resp, i) == resp.created + resp.ttl[i] + 1 < now

\* IsExpired, of the TTL the record has now.
IsExpired(resp, i) == resp.created + resp.ttl[i] < now

\* A single expired record makes the response expired.
Stale(resp) == resp # NoResponse /\ \E i \in DOMAIN resp.ttl : IsExpired(resp, i)

\* Mutant: the TTL is kept as a signed number.
CastSigned(x) == {x}

\* Mutant: a negative time left is not a case of its own.
CastModular(x) == {x % TtlModulus}

\* uint32(ttl).  Go leaves the conversion of a negative float to the platform.
Cast(x) == IF x >= 0 THEN {x % TtlModulus}
           ELSE { IF c = "wraps" THEN x % TtlModulus ELSE 0 : c \in Casts }

\* The queries that hold the read lock.
Reading == { q \in Queries :
               pc[q] \in {"checking", "computing", "writing", "rechecking"} }

\* Room for the evictions that the Gets under way, and one more Get or Clean,
\* may start (the bound MaxEvictions).
Room(k) == evicting[k] + Cardinality({ q \in Reading : key[q] = k }) < MaxEvictions

-----------------------------------------------------------------------------
(* Get, by a query's goroutine *)

\* Get takes the read lock and finds no response ...
LookupMisses(q, k) ==
  /\ pc[q] = "idle" /\ lock = "free"
  /\ store[k] = NoResponse
  /\ key' = [key EXCEPT ![q] = k]
  /\ pc' = [pc EXCEPT ![q] = "missed"]
  /\ UNCHANGED <<now, store, lock, crewVars, at, newTtl, got>>

\* ... or one, and looks at its first record.  A response without records is
\* returned at once, however old it is, and nothing changes.
LookupFinds(q, k) ==
  /\ pc[q] = "idle" /\ lock = "free" /\ Room(k)
  /\ store[k] # NoResponse /\ 1 \in DOMAIN store[k].ttl
  /\ key' = [key EXCEPT ![q] = k]
  /\ at' = [at EXCEPT ![q] = 1]
  /\ pc' = [pc EXCEPT ![q] = "checking"]
  /\ UNCHANGED <<now, store, lock, crewVars, newTtl, got>>

\* updateTtl leaves an expired record alone.
Check(q) ==
  /\ pc[q] = "checking"
  /\ pc' = [pc EXCEPT ![q] = IF IsExpired(store[key[q]], at[q])
                             THEN "rechecking" ELSE "computing"]
  /\ UNCHANGED <<now, store, lock, crewVars, key, at, newTtl, got>>

\* updateTtl reads the TTL and the clock once more, for the time left.  The
\* creation time stays, so the TTL it stores is counted from there again.
Compute(q) ==
  LET resp == store[key[q]] IN
  /\ pc[q] = "computing"
  /\ \E t \in Cast(resp.created + resp.ttl[at[q]] - now) :
       newTtl' = [newTtl EXCEPT ![q] = t]
  /\ pc' = [pc EXCEPT ![q] = "writing"]
  /\ UNCHANGED <<now, store, lock, crewVars, key, at, got>>

\* updateTtl stores the TTL in the cached record.
Write(q) ==
  /\ pc[q] = "writing"
  /\ store' = [store EXCEPT ![key[q]].ttl[at[q]] = newTtl[q]]
  /\ newTtl' = [newTtl EXCEPT ![q] = 0]
  /\ pc' = [pc EXCEPT ![q] = "rechecking"]
  /\ UNCHANGED <<now, lock, crewVars, key, at, got>>

\* Mutant: the caller itself hands the response to the trashman.
RecheckExpiredSync(q) ==
  /\ pc[q] = "rechecking" /\ tm = "select"
  /\ IsExpired(store[key[q]], at[q])
  /\ evicting' = [evicting EXCEPT ![key[q]] = @ + 1]
  /\ at' = [at EXCEPT ![q] = 0]
  /\ pc' = [pc EXCEPT ![q] = "missed"]
  /\ UNCHANGED <<now, store, lock, trash, buffer, tm, paused, janitor, key, newTtl, got>>

\* The record has expired: Get evicts the response, unlocks and reports a miss.
RecheckExpired(q) ==
  /\ pc[q] = "rechecking"
  /\ IsExpired(store[key[q]], at[q])
  /\ evicting' = [evicting EXCEPT ![key[q]] = @ + 1]
  /\ at' = [at EXCEPT ![q] = 0]
  /\ pc' = [pc EXCEPT ![q] = "missed"]
  /\ UNCHANGED <<now, store, lock, trash, buffer, tm, paused, janitor, key, newTtl, got>>

\* It has not: Get goes on to the next record or, after the last, unlocks and
\* returns the response.
RecheckPasses(q) ==
  /\ pc[q] = "rechecking"
  /\ ~IsExpired(store[key[q]], at[q])
  /\ IF at[q] + 1 \in DOMAIN store[key[q]].ttl
     THEN /\ at' = [at EXCEPT ![q] = @ + 1]
          /\ pc' = [pc EXCEPT ![q] = "checking"]
          /\ UNCHANGED key
     ELSE /\ at' = [at EXCEPT ![q] = 0]
          /\ pc' = [pc EXCEPT ![q] = "idle"]
          /\ key' = [key EXCEPT ![q] = NoKey]
  /\ UNCHANGED <<now, store, lock, crewVars, newTtl, got>>

-----------------------------------------------------------------------------
(* After a miss *)

\* RecursiveQuery answers; processResults stamps the response.
Resolve(q) ==
  /\ pc[q] = "missed" /\ ~Hosted
  /\ \E a \in Answers : got' = [got EXCEPT ![q] = Response(a, now)]
  /\ pc' = [pc EXCEPT ![q] = "adding"]
  /\ UNCHANGED <<now, store, lock, crewVars, key, at, newTtl>>

\* It fails; or this is the hosted cache, to which nothing is added.
GiveUp(q) ==
  /\ pc[q] = "missed"
  /\ pc' = [pc EXCEPT ![q] = "idle"]
  /\ key' = [key EXCEPT ![q] = NoKey]
  /\ UNCHANGED <<now, store, lock, crewVars, at, newTtl, got>>

\* A goroutine asks for the write lock: from now on no Get starts.
AddLocks(q) ==
  /\ pc[q] = "adding" /\ lock = "free"
  /\ lock' = q
  /\ UNCHANGED <<now, store, crewVars, queryVars>>

\* Mutant: the response is stamped when it is added, not when it was answered.
AddRestamped(q) ==
  /\ lock = q /\ Reading = {}
  /\ store' = [store EXCEPT ![key[q]] = Response(got[q].orig, now)]
  /\ got' = [got EXCEPT ![q] = NoResponse]
  /\ pc' = [pc EXCEPT ![q] = "idle"]
  /\ key' = [key EXCEPT ![q] = NoKey]
  /\ lock' = "free"
  /\ UNCHANGED <<now, crewVars, at, newTtl>>

\* Add: whatever is cached under the key is replaced.
Add(q) ==
  /\ lock = q /\ Reading = {}
  /\ store' = [store EXCEPT ![key[q]] = got[q]]
  /\ got' = [got EXCEPT ![q] = NoResponse]
  /\ pc' = [pc EXCEPT ![q] = "idle"]
  /\ key' = [key EXCEPT ![q] = NoKey]
  /\ lock' = "free"
  /\ UNCHANGED <<now, crewVars, at, newTtl>>

-----------------------------------------------------------------------------
(* The cleaning crew *)

\* The janitor's ticker fires.
CleanLocks ==
  /\ janitor /\ lock = "free"
  /\ \A k \in Keys : Room(k)
  /\ lock' = "janitor"
  /\ UNCHANGED <<now, store, crewVars, queryVars>>

\* Mutant: the loop over the cache ends with the first expired response.
CleanFirst ==
  /\ lock = "janitor" /\ Reading = {}
  /\ IF \E k \in Keys : Stale(store[k])
     THEN \E k \in Keys : Stale(store[k]) /\ evicting' = [evicting EXCEPT ![k] = @ + 1]
     ELSE UNCHANGED evicting
  /\ lock' = "free"
  /\ UNCHANGED <<now, store, trash, buffer, tm, paused, janitor, queryVars>>

\* Clean: every response with an expired record is evicted, by a goroutine
\* each, also if it was evicted before and is still there.
Clean ==
  /\ lock = "janitor" /\ Reading = {}
  /\ evicting' = [k \in Keys |-> IF Stale(store[k]) THEN evicting[k] + 1
                                 ELSE evicting[k]]
  /\ lock' = "free"
  /\ UNCHANGED <<now, store, trash, buffer, tm, paused, janitor, queryVars>>

\* FlushResponses: the queue becomes the slice to remove.
Flush(queued) == buffer' = queued /\ trash' = {} /\ tm' = "flushing"

\* Mutant: the batch is flushed one response late.
ReceiveLate(k) ==
  LET queued == trash \cup {k} IN
  /\ tm = "select" /\ evicting[k] > 0
  /\ evicting' = [evicting EXCEPT ![k] = @ - 1]
  /\ IF Cardinality(queued) > BatchSize /\ ~paused
     THEN Flush(queued)
     ELSE trash' = queued /\ UNCHANGED <<buffer, tm>>
  /\ UNCHANGED <<now, store, lock, paused, janitor, queryVars>>

\* Mutant: a full batch is flushed before the response received last is in it.
ReceiveFlushesFirst(k) ==
  LET queued == trash \cup {k} IN
  /\ tm = "select" /\ evicting[k] > 0
  /\ evicting' = [evicting EXCEPT ![k] = @ - 1]
  /\ IF Cardinality(queued) >= BatchSize /\ ~paused
     THEN Flush(trash)
     ELSE trash' = queued /\ UNCHANGED <<buffer, tm>>
  /\ UNCHANGED <<now, store, lock, paused, janitor, queryVars>>

\* The trashman receives a response and queues it, by its key; it flushes a
\* full batch unless it is paused.
Receive(k) ==
  LET queued == trash \cup {k} IN
  /\ tm = "select" /\ evicting[k] > 0
  /\ evicting' = [evicting EXCEPT ![k] = @ - 1]
  /\ IF Cardinality(queued) >= BatchSize /\ ~paused
     THEN Flush(queued)
     ELSE trash' = queued /\ UNCHANGED <<buffer, tm>>
  /\ UNCHANGED <<now, store, lock, paused, janitor, queryVars>>

\* Pause and Unpause: unpausing flushes a full batch.
SetPaused(p) ==
  /\ tm = "select"
  /\ paused' = p
  /\ IF ~p /\ Cardinality(trash) >= BatchSize
     THEN Flush(trash)
     ELSE UNCHANGED <<trash, buffer, tm>>
  /\ UNCHANGED <<now, store, lock, evicting, janitor, queryVars>>

RemoveLocks ==
  /\ tm = "flushing" /\ lock = "free"
  /\ lock' = "trashman"
  /\ UNCHANGED <<now, store, crewVars, queryVars>>

\* Mutant: the slice is removed under the read lock.
RemoveSliceShared ==
  /\ lock = "trashman"
  /\ store' = [k \in Keys |-> IF k \in buffer THEN NoResponse ELSE store[k]]
  /\ buffer' = {}
  /\ tm' = "select"
  /\ lock' = "free"
  /\ UNCHANGED <<now, evicting, trash, paused, janitor, queryVars>>

\* RemoveSlice: whatever is cached now under those keys is deleted.
RemoveSlice ==
  /\ lock = "trashman" /\ Reading = {}
  /\ store' = [k \in Keys |-> IF k \in buffer THEN NoResponse ELSE store[k]]
  /\ buffer' = {}
  /\ tm' = "select"
  /\ lock' = "free"
  /\ UNCHANGED <<now, evicting, trash, paused, janitor, queryVars>>

\* StopCleaningCrew: first the trashman, then the janitor.
StopTrashMan ==
  /\ tm = "select"
  /\ tm' = "stopped"
  /\ UNCHANGED <<now, store, lock, evicting, trash, buffer, paused, janitor, queryVars>>

StopJanitor ==
  /\ tm = "stopped" /\ janitor /\ lock # "janitor"
  /\ janitor' = FALSE
  /\ UNCHANGED <<now, store, lock, evicting, trash, buffer, tm, paused, queryVars>>

\* Evict's goroutine calls the TrashMan of a cache that has none: it panics,
\* and the process with it.
EvictPanics(k) ==
  /\ tm = "absent" /\ evicting[k] > 0
  /\ tm' = "panicked"
  /\ UNCHANGED <<now, store, lock, evicting, trash, buffer, paused, janitor, queryVars>>

Tick ==
  /\ now < MaxTime
  /\ now' = now + 1
  /\ UNCHANGED <<store, lock, crewVars, queryVars>>

-----------------------------------------------------------------------------

\* NewCache; loadLocalZones; StartCleaningCrew, for the lookup cache only.
Init ==
  /\ now = 0
  /\ store \in { [k \in Keys |-> IF k \in Zone THEN Response(z[k], 0)
                                 ELSE NoResponse] : z \in [Zone -> Answers] }
  /\ lock = "free"
  /\ evicting = [k \in Keys |-> 0]
  /\ trash = {} /\ buffer = {} /\ paused = FALSE
  /\ tm = IF Hosted THEN "absent" ELSE "select"
  /\ janitor = ~Hosted
  /\ pc = [q \in Queries |-> "idle"]
  /\ key = [q \in Queries |-> NoKey]
  /\ at = [q \in Queries |-> 0]
  /\ newTtl = [q \in Queries |-> 0]
  /\ got = [q \in Queries |-> NoResponse]

GetStep(q) ==
  \/ \E k \in Keys : LookupMisses(q, k) \/ LookupFinds(q, k)
  \/ Check(q) \/ Compute(q) \/ Write(q) \/ RecheckExpired(q) \/ RecheckPasses(q)

AddStep(q) == Resolve(q) \/ GiveUp(q) \/ AddLocks(q) \/ Add(q)

CrewStep ==
  \/ CleanLocks \/ Clean
  \/ \E k \in Keys : Receive(k) \/ EvictPanics(k)
  \/ \E p \in BOOLEAN : SetPaused(p)
  \/ RemoveLocks \/ RemoveSlice
  \/ StopTrashMan \/ StopJanitor

Next ==
  /\ tm # "panicked"
  /\ \/ \E q \in Queries : GetStep(q) \/ AddStep(q)
     \/ CrewStep
     \/ Tick

Spec == Init /\ [][Next]_vars

\* Goroutines run, Gets end, and the ticker fires again and again.  A writer
\* that asks for a free lock gets it sooner or later, and blocked senders leave
\* the channel in the order they came (both strong: the lock and the trashman
\* are busy in between).  Resolving ends, one way or the other.
Fairness ==
  /\ \A q \in Queries :
       /\ WF_vars(Check(q) \/ Compute(q) \/ Write(q) \/ RecheckExpired(q) \/ RecheckPasses(q))
       /\ WF_vars(Resolve(q) \/ GiveUp(q))
       /\ SF_vars(AddLocks(q)) /\ WF_vars(Add(q))
  /\ SF_vars(CleanLocks) /\ WF_vars(Clean)
  /\ SF_vars(RemoveLocks) /\ WF_vars(RemoveSlice)
  /\ \A k \in Keys : SF_vars(Receive(k))

FairSpec == Spec /\ Fairness

-----------------------------------------------------------------------------
(* Properties *)

\* The cache maps keys to responses, the crew's queues hold keys, a query is in
\* one of the steps of Get or on its way to Add.
TypeOK ==
  /\ now \in 0..MaxTime
  /\ store \in [Keys -> Responses \cup {NoResponse}]
  /\ lock \in {"free", "janitor", "trashman"} \cup Queries
  /\ evicting \in [Keys -> Nat]
  /\ trash \subseteq Keys /\ buffer \subseteq Keys
  /\ tm \in {"absent", "select", "flushing", "stopped", "panicked"}
  /\ paused \in BOOLEAN /\ janitor \in BOOLEAN
  /\ pc \in [Queries -> {"idle", "checking", "computing", "writing", "rechecking",
                         "missed", "adding"}]
  /\ key \in [Queries -> Keys \cup {NoKey}]
  /\ at \in [Queries -> Nat]
  /\ newTtl \in [Queries -> Ttls]
  /\ got \in [Queries -> Responses \cup {NoResponse}]

\* No Get accepts a record past the TTL the upstream gave it (cache.go:258),
\* however its TTL was rewritten, by this Get or by others, since it was added.
NoStaleHit ==
  [][\A q \in Queries :
       pc[q] = "rechecking" /\ pc'[q] \in {"idle", "checking"} =>
         LET resp == store[key[q]] IN now <= resp.created + resp.orig[at[q]]]_vars

\* HandleDNS copies the response for the client after Get has given up the lock
\* (mutex_server.go:274), and does so with a response it has just added, too,
\* while Gets rewrite its TTLs: from whichever of those rewrites the copy takes
\* each TTL, the client is not told more than the upstream said.
ToldWithin ==
  \A k \in Keys : store[k] # NoResponse =>
    \A i \in DOMAIN store[k].ttl : store[k].ttl[i] <= store[k].orig[i]

\* The read lock keeps the response a Get is looking at where it is
\* (cache.go:219): neither Add nor the trashman replaces it meanwhile.
HeldStill ==
  [][\A q \in Reading :
       /\ store'[key[q]] # NoResponse
       /\ store'[key[q]].created = store[key[q]].created
       /\ store'[key[q]].orig = store[key[q]].orig]_vars

\* A batch that is full is not left in the queue (cache.go:493, 501): between
\* its steps an unpaused trashman has less than a batch of responses, and none
\* at all with the default batch size.
BatchFlushed ==
  tm = "select" /\ ~paused =>
    trash = {} \/ Cardinality(trash) < BatchSize

\* A response somebody has handed over for removal.
Evicted(k) == evicting[k] > 0 \/ k \in trash \/ k \in buffer

\* "queues a response to be removed from the cache" (cache.go:47): what was
\* evicted stays so, on its way through the channel, the queue and the slice a
\* flush works on, until it is not in the cache; pausing, unpausing and
\* stopping the crew lose none, and what comes while a flush works waits for it.
EvictionsKept ==
  [][\A k \in Keys : Evicted(k) => Evicted(k)' \/ store'[k] = NoResponse]_vars

\* The trashman gets the lock it removes with: nobody who holds it waits for
\* the trashman (cache.go:386, the reason why Evict starts a goroutine).
FlushEnds == tm = "flushing" ~> tm # "flushing"

\* An expired response leaves the cache, whether a Get or the janitor finds it,
\* as long as the crew works (cache.go:41), or waits for a batch to fill: at
\* once with the default batch size, and else not before others expire too.
ExpiredLeaves ==
  \A k \in Keys :
    Stale(store[k]) ~> \/ ~Stale(store[k]) \/ paused \/ tm = "stopped"
                       \/ BatchSize > 1 /\ k \in trash

\* What updateTtl computes errs on one side only (cache.go:187): the time left
\* by the upstream's TTL while no Get has rewritten the record, and never more
\* than that time, however often Gets have; when none is left, it is zero.
TtlNotOverstated ==
  [][\A q \in Queries :
       pc[q] = "computing" /\ pc'[q] = "writing" =>
         LET resp == store[key[q]]
             left == resp.created + resp.orig[at[q]] - now
         IN  /\ newTtl'[q] <= left \/ newTtl'[q] = 0
             /\ resp.ttl[at[q]] = resp.orig[at[q]] /\ left >= 0 => newTtl'[q] = left]_vars

\* What the abstract cache has of a response: not the TTLs as rewritten.
EntryOf(resp) == IF resp = NoResponse THEN NoResponse
                 ELSE [created |-> resp.created, orig |-> resp.orig]

\* How far a query is for who does not see the lock and the TTLs.
StateOf(q) ==
  CASE pc[q] = "adding" -> "resolved"
    [] q \in Reading    -> "looking"
    [] OTHER            -> pc[q]

Promise == INSTANCE TtlCache
             WITH NoEntry <- NoResponse,
                  entries <- [k \in Keys |-> EntryOf(store[k])],
                  state <- [q \in Queries |-> StateOf(q)],
                  answer <- [q \in Queries |-> EntryOf(got[q])]

\* The cache keeps the promise of TtlCache (cache.go:17): whatever the crew
\* removes, whoever else looks, adds and rewrites TTLs in between, a query
\* accepts only records of one answer an upstream gave, each within its TTL.
KeepsFresh == Promise!CacheSpec

-----------------------------------------------------------------------------
(* Statements of the source that the cache does not keep *)

\* cache.go:179: "Updates the TTL on the cached record so that the client gets
\* the accurate number".  The TTL a Get stores for a record that is alive is
\* the time it has left.
TtlAccurate ==
  [][\A q \in Queries :
       pc[q] = "computing" /\ pc'[q] = "writing" =>
         LET resp == store[key[q]]
             left == resp.created + resp.orig[at[q]] - now
         IN  left >= 0 => newTtl'[q] = left]_vars

\* cache.go:47: "queues a response to be removed from the cache".  An eviction
\* has a trashman to go to.
EvictionsQueued == tm # "panicked"
=============================================================================
