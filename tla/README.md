# funkyd in TLA+

funkyd is a caching DNS server. A query is answered from a cache of responses,
from local zone files, or by an upstream server over a pooled TLS connection.
This directory holds TLA+ models of the parts where its goroutines meet, TLC
configurations that check them on small instances, and proofs, checked by
TLAPS, for every value of the constants.

    tlc -config MCConnPool.cfg MCConnPool      # one run
    tlapm ConnPoolProofs.tla                   # the proofs of a module

## The system

| Component | Files | State | Operations | Model |
|---|---|---|---|---|
| connection pool | connpool.go, upstream.go | upstreams with weight and wake-up time, in order; a list of idle connections per upstream | Get, NewConnection, Add, CloseConnection, AddUpstream | ConnPool, ConnLife |
| response cache | cache.go, bind.go | a map from name and type to response; the trashman's queue, whether it is paused | Get, Add, Clean, Evict, RemoveSlice, FlushResponses, Pause, StopCleaningCrew | RecordCache, TtlCache |
| mutex server | mutex_server.go, server.go, base_server.go | a weighted semaphore; per query a retry counter | HandleDNS, RetrieveRecords, RecursiveQuery, attemptExchange | MutexServer, QueryService |
| pipeline server | pipeline_server.go | the query each worker has in hand | five worker loops and the channels between them | PipelineServer |
| start and shutdown | main.go | the list of listeners and how far each is, a mutex | main, addServer, loadLocalZones, Shutdown | Process |
| HTTP API | http.go | none | shutdown, version, configuration | Process, as far as it shuts down |
| blackhole server | blackhole_server.go, main.go | none | ServeDNS, in place of the other listeners | Process, as far as main starts it |
| configuration, logging, metrics, version | config.go, log.go, prom.go, version.go | values read once; output; counters nothing reads back | | no |

How they meet. `main` builds a MutexServer and hands it to two listeners of the
dns library, which call HandleDNS from a goroutine per query. HandleDNS blocks
on the semaphore and starts a goroutine that owns a permit until it ends. That
goroutine calls the lookup cache, then the hosted cache (the zone files), and
then loops over attempts: borrow a connection from the pool or dial one,
exchange, give it back or close it. The answer goes into the lookup cache and
to the client. In the background purgeUpstream starts a goroutine for every
connection it takes out of the pool, Evict one for every expired response, the
janitor cleans by a ticker and the trashman removes what was evicted. A request
to the HTTP API may shut the listeners down at any time; main then ends and
takes every goroutine with it. The pipeline is a second server of the same
interface, built in the tests only.

What is hard in it, and what makes each part correct:

* *Pool.* Closing goroutines run at any later time and re-weigh, re-cool and
  re-purge an upstream by a connection that left the pool long ago. A
  connection must have one owner from its dial to its close; Get must find the
  lightest one whatever order weights are written in; cooling must leave no
  connection behind.
* *Cache.* Get rewrites TTLs under the read lock, so Gets race with each other
  on shared records; eviction goes by key, some time after the response was
  found expired. No record may be served past its TTL; nothing may replace a
  response somebody is reading; whoever holds the lock must not wait for the
  trashman; what has expired must leave.
* *Mutex server.* Every way out of a query must give back one permit and all
  connections; the retry loop must end; waiting queries must move up.
* *Pipeline.* Five goroutines in a circle of unbuffered channels: queries must
  not be lost, worked on twice, or stop the circle, and no connection may be
  lost.
* *Start and shutdown.* Two listeners in two goroutines, requests that shut
  down both in turn with a timeout each, and main, which comes out of one
  listener and must not end before the requests are through with the other. A
  shutdown must end the process whatever else goes on, and cut off no query
  before its permit that it has the time to wait for.

PROJECT.json lists the hazards one by one, each at its line and with the
properties that cover it.

## The modules

### ConnPool

`order`, `weight`, `cooling`, `cached`, `idle` are the pool's fields: the slice
of upstreams, each one's weight, whether its wakeupTime is ahead, the keys of
the cache map and its lists. `entry` is the connEntry of each open connection,
`reaping` the goroutines of purgeUpstream that still have it to close. A worker
is a goroutine in attemptExchange: `pc`, the upstream it is `dialing`, the
connection it has `held`. All pool methods run under one lock and are one
action each: Get is `GetCached` or `GetUpstream`; a method's call of
updateUpstream (weigh, cool, purge, sort) is part of its action. Dialling, the
exchange and the start of a closing goroutine happen outside the lock and are
steps of their own.

Weights are compared and tested for zero only, so an exchange moves a
connection's mean to any member of `Weights`; `wakeupTime` is compared with the
clock only, so an upstream cools until `Wake`. sort.Slice is not stable:
`SortedOrders` allows every order of equal weights. `Orders` is the list as
AddUpstream builds it.

Properties: `Ownership` (no connection is shared, used after its close, closed
twice or leaked, and a list holds its own upstream's connections),
`LightestFirst` (action property of Get), `CoolingPurges` (action property of
every step that cools an upstream), and the refinement `KeepsTrack`.

### ConnLife, what ConnPool promises

The life of a connection without lists, weights and cooldowns: where it is
connected to (`home`), the connections nobody uses (`spare`), the one each
worker has (`lent`) and those about to be closed (`purged`). A worker dials,
borrows, returns or drops one; `Purge` takes all that is spare of one upstream.
A return, a drop or a close may purge the upstream of the connection it is
about, and no other, which `Ownership` does not say: closing a connection that
left the pool long ago must not reach the list of a different upstream.
`OneOwner` is what it comes to: a connection is open exactly as long as it has
an owner, and then it has one. `KeepsTrack` is `LifeSpec` under the mapping of
`Homes`, `Spare` and `Purging` in ConnPool.

### RecordCache

`store` is the map, a response being its creation time, the TTLs its records
came with (`orig`, which only properties read) and the TTLs they have now. Go's
RWMutex is `lock`, the one writer that waits for or has it, and `Reading`, the
Gets that hold it for reading: a waiting writer keeps new readers out. Get is
taken apart into its reads and writes of the shared record (`LookupFinds`,
`Check`, `Compute`, `Write`, and `RecheckExpired` or `RecheckPasses`); what
runs under the write lock is one step. `evicting` counts the goroutines of
Evict that wait for the trashman, `trash` and `buffer` are its queue and the
slice it removes. uint32() of a negative float64 is left to the platform by Go:
`Casts` says which of the two real outcomes there are. `Hosted` makes it the
hosted cache, whose crew nobody starts.

Properties: `NoStaleHit`, `HeldStill`, `BatchFlushed`, `ToldWithin` (HandleDNS
copies a response when the lock is gone and other Gets rewrite it; none of the
TTLs it may find is larger than the upstream's), `EvictionsKept` (a response
handed over for removal is in the channel, the queue or the slice until it is
not in the cache: the crew is paused and stopped, evictions come in while a
flush works, and none is lost), `TtlNotOverstated` (what updateTtl stores is
never more than the time left, and exactly that the first time; `TtlAccurate`
fails from the second time on), the refinement `KeepsFresh`, and the liveness
properties `FlushEnds` and `ExpiredLeaves`.

### TtlCache, what RecordCache promises

The cache for who asks it: `entries`, answers with the time they were given;
no lock, no crew, no rewritten TTLs. A query misses, or looks at the records of
one answer and accepts each within its TTL or rejects it; what it was answered
after a miss replaces the entry unless somebody looks at that (`Store`);
whatever nobody looks at may be forgotten (`Forget`). `KeepsFresh` is
`CacheSpec` under the mapping of `EntryOf` and `StateOf` in RecordCache: a
response is its creation and its original TTLs, and the four points of a Get
are all "looking". Forget is weaker than one would like, on purpose: the
trashman removes by key (cache.go:450), and what it removes may be a fresh
response that has come in meanwhile.

### MutexServer, on top of ConnPool

MutexServer EXTENDS ConnPool: a worker of the pool is a query. It adds
`phase`, how far HandleDNS is with the query, `attempt`, the loop counter of
RecursiveQuery, and the semaphore: `avail` and `waiting`, the queue in which
semaphore.Weighted serves. Every action of an attempt is the pool's action
together with what the retry loop does about its outcome; the pool's closing
goroutines and cooldowns go on beside it (`PoolStep`).

Properties: `PermitsConserved`, `BorrowersAdmitted` (connections away from the
pool are bounded by the permits), `UsesPool` (the server implements ConnPool's
specification, so all that holds there holds here), `KeepsPromise` (it
implements QueryService) and the liveness property `Answered`.

### QueryService, what MutexServer promises

`status` of each query and the `queue` of those that wait for a permit: at most
`Permits` queries are worked on, the others are served in the order they came,
each is answered once and passes its permit on after that. `PermitsUsed`: no
more queries are worked on than that, and exactly as many if one waits.
MutexServer's `replies`, how often WriteMsg was called for a query, and
`StatusOf`, which maps its phases, make the refinement mapping. Caches,
attempts and connections are steps the service does not see.

### PipelineServer

`at` and `work` are the point of each worker's loop and the query it has;
`asking` the HandleDNS goroutines blocked on the cacher. A send and its receive
on an unbuffered channel are one step of both ends. `conn` and `dials` are the
fields Conn and ConnectionRetries of a query. The pool is reduced to what its
one caller sees, the set of connections in its lists. Three channels are wired
to nothing; the module's head says which and what follows.

Properties: `Delivered` (each unanswered query is with exactly one goroutine),
`ConnsExclusive`, `NoneDropped` (a connection is lost only where a query whose
exchange failed is assigned another, and there it is, unclosed),
`StopsOnlyStuck` (a pipeline that has queries, has not panicked and whose
workers all wait for one another is in one of three deadlocks, and a query that
is alone can be in only one of them, that of its failed dials),
`MovesUnlessWaiting` (waiting for one another, `~CanMove`, is the only way in
which the workers have no step left), `PanicsOnlyExhausted` (GetConn panics
only on a query that has used up its dials), `StuckForGood` (the deadlocks are
permanent) and `RoundsEnd` (failed exchanges send queries round without end
only as long as other queries are finished without end: ConnectionRetries does
not count those rounds, and what bounds them is that each takes a dial or a
connection somebody has given back).

### Process, around QueryService

Process EXTENDS QueryService: the server is what it promises, and MutexServer
keeps that. It adds `main`, from the start of the HTTP API to the end of the
process; `servers`, the slice Shutdown ranges over; `listener`, how far each
dns.Server is; `via`, the listener whose handler goroutine still has a query
(ServeDNS returns when the query has its permit); `mutex`, shutdownMutex; and
per request `request` and `left`, where its Shutdown is in its loop. `gaveUp`
are the listeners that were given up on after 5 seconds; only a property reads
it. A shutdown is taken apart into its lock, the call that stops a listener
(`TellStop`), the end of the wait (`SeeStopped` or `TimeOut`) and the unlock.
dns.Server is external: one that was not started, or was stopped before,
refuses (`Skip`), and ListenAndServe returns when it was told to stop, or its
socket breaks, and its handlers have returned.

What the code does, and the model with it:

* The HTTP API is up before the listeners. A shutdown during the boot, or in
  blackhole mode, finds nothing to stop, and nothing comes of it; so
  `ShutdownExits` asks for TCP to be up.
* addServer appends to the slice without the lock, while a request may range
  over it: a data race, and `RangeTorn` has its outcomes besides those of a
  slice read whole.
* main stays in the ListenAndServe of TCP until its handlers have returned,
  longer than 5 seconds if need be. For the UDP handlers it waits only as long
  as Shutdown does, because a Shutdown has the mutex; and the shutdown that
  waits for UDP need not be the one that stops TCP.
* Queries that have a permit are not waited for. After the stop dns.Server
  closes a TCP connection when its handler returns, which ServeDNS does at the
  permit: the replies of all TCP queries that were waiting then may be lost, of
  however many, besides those that main's return cuts off.
* A socket may break while it is served (`ListenBreaks`): main exits when it is
  TCP's, and the UDP goroutine logs it.

Properties: `ExitWaits` (which queries may still wait for a permit when main
returns: none from TCP, and from UDP only if its 5 seconds are over or it came
up late), `NobodyWaiting` (then the semaphore's queue is empty, too),
`LockHeld` (shutdownMutex is had by exactly the request that is in the loop of
its Shutdown, whatever panics, or by main at its end) and the liveness property
`ShutdownExits`.

## The runs

| Run | Instance | Shows |
|---|---|---|
| pool | 2 upstreams, 3 connections, 2 workers, weights 0 to 2 | TypeOK, Ownership, LightestFirst, CoolingPurges, KeepsTrack hold |
| pool_cooling | 2 upstreams, 2 connections | config.go:31 does not hold: Get sends a worker to a cooling upstream although another one is not |
| pool_slow | the same | a connection flagged as slow is put back and handed out again |
| cache | 1 name, 2 queries, TTLs up to 2, clock to 4 | TypeOK, ToldWithin, NoStaleHit, HeldStill, KeepsFresh hold where the cast saturates |
| cache_crew | 2 names, 1 query, batches of 2 | BatchFlushed, EvictionsKept, FlushEnds, ExpiredLeaves hold |
| cache_wrap | the cast wraps | two Gets of one name give it a TTL near 2^32 and an expired record is served |
| cache_ttl | 1 query, a TTL of 4 | the second Get of a record counts its age twice |
| cache_hosted | a zone record, no crew | the first Get of an expired zone record starts a goroutine that panics |
| server | 3 queries, 2 permits, 1 retry, 2 connections | PermitsConserved, BorrowersAdmitted, UsesPool, KeepsPromise, Answered hold |
| pipeline | 3 queries, 3 connections, 2 dials | TypeOK, Delivered, ConnsExclusive, StopsOnlyStuck, MovesUnlessWaiting, PanicsOnlyExhausted, NoneDropped, StuckForGood, RoundsEnd hold |
| pipeline_servfail | 1 query | a query whose dials fail is never answered |
| shutdown | 3 queries, 1 permit, 2 requests | ProcessTypeOK, ExitWaits, NobodyWaiting, LockHeld, ShutdownExits hold |

The runs expected to end in a violation check one statement of a comment, a
test or a doc each; "findings" in PROJECT.json quotes it and names the line
that breaks it. For each property of the other runs, the module has a variant
of one action, marked "Mutant", that breaks it the way a slip in the code
would.

Why the bounds are enough. *Pool:* two upstreams give an order to get wrong;
three connections let one be in a list, one in a worker's hands and one with a
closing goroutine at once; three weights allow a lighter, a heavier and an
unweighed upstream. *Cache:* two Gets of one record are what its race takes,
and the proof covers any number; clock and TTLs only need room for a record to
be halved, to expire and to be added again; a modulus of 8 wraps as 2^32 does.
Two names and batches of two are the smallest batch that can stay unfilled.
MaxEvictions bounds the goroutines that carry the same name: they are
interchangeable, and a second one is what makes a repeated eviction possible.
*Server:* three queries for two permits make one wait while two compete for
connections; one retry makes the last attempt differ from the first.
*Pipeline:* the longest deadlock takes three queries, and a query that goes
round needs one other that gives its connection back. *Shutdown:* the request
that stops TCP differs from the one that waits for UDP only if there are two;
with three queries for one permit, handlers of both listeners wait while a
query is worked on. Symmetry is used in runs without liveness only, over
workers, queries, upstreams and connections, which the modules treat alike.

Deadlock checking is off where the system may stop: the cache's clock is
bounded and its crew may be stopped, the process ends, and the pipeline does
get stuck, which is what `StopsOnlyStuck` and `MovesUnlessWaiting` are about.

## Fairness

* *MutexServer:* weak fairness of each query's next step. Goroutines are
  scheduled, and all they wait for outside is a dial or an exchange, which
  BuildClient gives a timeout. Nothing is assumed of cooldowns, of closing
  goroutines, or of queries coming in.
* *RecordCache:* weak fairness of the steps of a Get and of work under the
  lock; strong fairness of taking the write lock, since Go's RWMutex holds new
  readers back for a waiting writer and wakes writers in turn, and of the
  trashman's receive, since senders on a channel queue up.
* *PipelineServer:* weak fairness of each worker. The liveness violation found
  there needs no more: the worker blocks on a channel that does not exist.
  `RoundsEnd` assumes none at all: it holds because the rounds use something up.
* *Process:* weak fairness of the handlers and of the server's answers (what
  `Answered` shows of MutexServer), of a listener that can stop and of
  Shutdown's next step, its timer included; strong fairness of taking
  shutdownMutex, since Go's mutex is handed to whoever has waited for a
  millisecond. Nothing is assumed of queries, requests and sockets.

## The proofs

All theorems are about the specifications the runs check, for every number of
upstreams, connections, workers, queries, keys, permits, retries and so on,
from the assumptions named in the modules (`PoolAssumption`, `CacheAssumption`,
`ServerAssumption`, `PermitsAssumption`, `PipelineAssumption`,
`ProcessAssumption`): finitely many upstreams and at least
one, at least one permit, and that the model's "nobody" values are not members
of the sets they stand beside.

* **ConnPoolProofs.** `IInv` is TypeOK, `Handling`, Ownership and `Sorted`.
  Ownership is not inductive alone: that the connection a worker adds has an
  upstream to add it to is that it is still open, which needs that nobody else
  had it to close. Handling says at which points a worker has a connection;
  Sorted, that the list is in order between steps, which only updateUpstream
  keeps. From it: `TypeCorrect`, `OwnershipCorrect`, `GetsLightest`,
  `CoolingIsPurged`.
* **ConnLifeProofs.** `ImplementsConnLife`, from the same `IInv`: each action
  of the pool is an action of ConnLife or a step it does not see (Wake, an
  exchange, a Get that names an upstream to dial). What a purge takes (`Kin`)
  is the one list purgeUpstream empties, because a list holds the connections
  of its own upstream and each only once; that a connection added after a purge
  of its upstream survives it is the order of Add. The server implements
  ConnPool (below), and so it implements ConnLife.
* **ConnLifeOwners.** About ConnLife itself, `LivesAreOwned`: its specification
  keeps OneOwner, from the types of its variables and OneOwner together. The
  promise the pool keeps is thus not an empty one. It assumes only that the
  "nobody" values are not members of Conns and Upstreams.
* **RecordCacheProofs.** `HInv` is TypeOK and `Handling`: what a Get looks at
  is there, and lock and program counters agree. `ReadLockHolds` follows from
  it. `NoFullBatchWaits` adds `Queue`, the trashman's side. `EvictionsAreKept`
  adds `Emptied`: the slice is empty between flushes, so none is overwritten
  when the queue becomes the next one. `NeverStale` adds
  `NoGrowth`: no TTL in the cache, or about to be stored, is larger than the
  one the record came with; so does `ToldNoMore`. `ImplementsTtlCache` shows
  step by step that the cache implements TtlCache: a Get's steps are one of
  looking, accepting and rejecting, or change TTLs only, which TtlCache does
  not see; Add and the trashman store and forget what nobody looks at, as the
  lock keeps readers out; NoGrowth makes an accepted record one within its
  original TTL. `NeverOverstated` is TtlNotOverstated, from NoGrowth and what
  uint32() makes of the time left. These four assume that no cast wraps; the
  run cache_wrap shows that this is needed for the first of them.
* **MutexServerProofs.** `ServerImplementsPool`: every step of the server is a
  step of ConnPool or leaves the pool alone. `ServerKeepsPool` carries the
  pool's theorems over, `ImplementsConnLife` among them.
  `SInv` counts: admitted queries and free permits make up the semaphore, the
  queue is the set of waiting queries without repetition, and only queries in
  the retry loop are away from the pool's start. From it and the pool's
  invariant: `ServerTypeCorrect`, `PermitsAreConserved`, `BorrowingIsBounded`
  (an injection from borrowed connections to admitted queries).
  `ServerImplementsService`: from the same count, a query that finds a free
  permit and nobody waiting is one that finds fewer than Permits being served,
  and a permit given back is the next query's; all other steps stutter.
* **PipelineServerProofs.** `PInv` is TypeOK, Delivered, ConnsExclusive and
  `Equipped`, what a query has by the time a worker has it: what comes back to
  the pool has to be a real connection of a query nobody else has. From it:
  `TypeCorrect`, `QueriesDelivered`, `ConnsAreExclusive`, `NoConnDropped`,
  `StuckStays`, and `StopsStuck`: where every query is (Delivered) leaves, when
  nobody can move, the three deadlocks and no other, and a query that is alone
  is in one worker's hands only, which rules out two of them.
  `PanicsAreExhausted` adds `Exhausted`: a query that reaches the querier
  without a connection is one whose dials are used up. `MoversAreAble` adds
  `HasEntry`, that the querier gets no query to which nothing was assigned:
  a worker that does not wait for another (`CanMove`) finds what the code asks
  of its next step (`Able`).
* **QueryServiceProofs.** `PermitsAreUsed`. `SvcInv` is ServiceTypeOK with two
  more parts: the queue is the set of waiting queries, each in it once, and the
  semaphore counts. A permit is left only if nobody waits, so PermitsUsed is
  inductive with them.
* **ProcessProofs.** `PInv` is ProcessTypeOK, `Locked`, `Watched` and
  `Drained`: one request at most is in Shutdown's loop and has the mutex; a UDP
  listener that was told to stop has a request that waits for it, unless one
  gave up on it; a stopped listener has no handlers, and main comes out of TCP
  when TCP has stopped. ExitWaits alone is not inductive, since what it says of
  UDP rests on the request that has the mutex while main waits for it. From it:
  `ProcessTypeCorrect`, `ShutdownsComplete`, `LockIsHeld`. Every step of the
  process is a step of QueryService or leaves it alone, so SvcInv holds in it.
  With `Attended`, that a query in the semaphore's queue has its handler
  waiting with it, what ExitWaits says of handlers holds of the queue:
  `NobodyLeftWaiting`.

Only model-checked: the liveness properties (`Answered`, `FlushEnds`,
`ExpiredLeaves`, `RoundsEnd`, `ShutdownExits`), because TLAPS does not prove
liveness, and `MovesUnlessWaiting`, because it is about ENABLED.
The half of it that takes an invariant is proved without ENABLED, as
`MoversAreAble`; what is left to TLC is that the guards listed in `Able` are
all that its steps need, and that a worker has no step while it waits, which
the guards of the actions say. It is what connects the theorem StopsStuck,
stated with `CanMove`, to the actions. Only proved, and in no run: `OneOwner`,
`PermitsUsed` and `TtlNotOverstated`.

## What is left out, and the plan

Left out of the models: message contents and the question section, the
concrete TLS and DNS exchange (it succeeds, succeeds slowly or fails), metrics
and logs, CNAME and zone syntax, and cancelChannel of the pipeline, which only
tests use. `Size` and `Remove` of the cache serve tests and metrics.
Restarting a stopped cleaning crew is left out, as nothing does it.

Not modelled at all: configuration (a file read once; its values are the
constants here), logging, metrics and version. They keep no state the rest
reads back and have no steps that meet.

Of start and shutdown: what happens before the HTTP API starts can only end the
process. Which sockets the dns library closes under a query that still runs,
and whether the reply to /v1/shutdown leaves before the process does, is
decided outside src/.

Left, in the order of their weight:

1. *Open connections of the pipeline*: a variable for them, so that the
   statement of server.go:139, that the caller closes a connection after an
   error, becomes a property of its own (`NoneDropped` says where it fails).
2. *TtlCache inside MutexServer*, in place of a lookup that hits or misses.
