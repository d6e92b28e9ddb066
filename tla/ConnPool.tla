------------------------------ MODULE ConnPool ------------------------------
(***************************************************************************)
(* The pool of upstream connections (connpool.go, upstream.go) and the     *)
(* workers that borrow from it the way MutexServer does: Get, possibly     *)
(* dial, exchange one query, then Add the connection back or close it.     *)
(*                                                                         *)
(* Every pool method runs under connPool.lock from its first line to its   *)
(* last, so each is one action.  Three things happen outside the lock and  *)
(* are steps of their own: dialling, the exchange with the upstream, and   *)
(* the goroutines purgeUpstream starts to close what it took out of the    *)
(* cache.                                                                  *)
(*                                                                         *)
(* What is abstracted.  A connEntry's weight is the mean round trip of its *)
(* exchanges; the pool only compares weights and tests them against 0, so  *)
(* an exchange moves the mean to any member of Weights.  wakeupTime is     *)
(* only ever compared with the clock, so an upstream is cooling or it is   *)
(* not, and the passing of its wakeupTime is the action Wake.              *)
(***************************************************************************)
EXTENDS Integers, SequencesExt

CONSTANTS
  Upstreams,   \* the addresses of the configured upstreams
  Conns,       \* connection identities; bounds the connections open at once
  Workers,     \* the goroutines that use the pool
  Weights,     \* the values a weight can take, in milliseconds
  NoUpstream,  \* the zero Upstream{}
  NoConn       \* no connection entry

\* getBestUpstream falls back to upstreams[0]: there has to be one.
ASSUME PoolAssumption ==
  /\ IsFiniteSet(Upstreams) /\ Upstreams # {} /\ NoUpstream \notin Upstreams
  /\ NoConn \notin Conns
  /\ Weights \subseteq Nat /\ 0 \in Weights

VARIABLES
  \* fields of connPool and of its Upstreams
  order,     \* the slice c.upstreams, by address
  weight,    \* weight[u]: Upstream.weight
  cooling,   \* the upstreams whose wakeupTime is in the future
  cached,    \* the keys of the map c.cache
  idle,      \* idle[u]: the slice c.cache[u], <<>> when there is no key u
  \* connection entries
  entry,     \* entry[c]: the connEntry of connection c, NoEntry if c is not open
  reaping,   \* reaping[c]: goroutines of purgeUpstream still to close c
  \* workers
  pc,        \* where a worker is in attemptExchange
  dialing,   \* dialing[w]: the upstream Get told w to connect to
  held       \* held[w]: the connection w has in its hands

poolVars   == <<order, weight, cooling, cached, idle>>
connVars   == <<entry, reaping>>
workerVars == <<pc, dialing, held>>
vars == <<poolVars, connVars, workerVars>>

\* The zero connEntry{}: this connection was not dialled yet, or it was closed.
NoEntry == [up |-> NoUpstream, weight |-> 0, error |-> FALSE]
Open == { c \in Conns : entry[c] # NoEntry }

-----------------------------------------------------------------------------
(* The upstream list and its order *)

\* Every arrangement of the upstreams: a function from 1..N onto N elements.
Orders == { s \in [1..Cardinality(Upstreams) -> Upstreams] :
              \A u \in Upstreams : \E i \in DOMAIN s : s[i] = u }

InOrder(s, w) == \A i, j \in DOMAIN s : i < j => w[s[i]] <= w[s[j]]

\* Mutant: the sort loses the first upstream.
SortedOrdersShort(w) == { Tail(s) : s \in { r \in Orders : InOrder(r, w) } }

\* sortUpstreams.  sort.Slice is not stable: upstreams of equal weight may
\* come out in any order.
SortedOrders(w) == { s \in Orders : InOrder(s, w) }

\* getBestUpstream.  An upstream that has no key in the cache is passed over,
\* whether it is cooling or not.
BestUpstream ==
  LET open_for_use == { i \in DOMAIN order : /\ order[i] \in cached
                                             /\ order[i] \notin cooling }
      with_conns   == { i \in open_for_use : idle[order[i]] # <<>> }
  IN  IF with_conns # {} THEN order[Min(with_conns)]
      ELSE IF open_for_use # {} THEN order[Min(open_for_use)]
      ELSE order[1]

-----------------------------------------------------------------------------
(* Cooling, purging and weighting: helpers that run under the lock *)

Occurrences(c, s) == Cardinality({ i \in DOMAIN s : s[i] = c })

\* Mutant: the goroutines are started and the list is left as it is.
PurgedNothing(u) == idle

\* purgeUpstream: the list of u is emptied ...
Purged(u) == [idle EXCEPT ![u] = <<>>]

\* ... and one goroutine is started for each connection that was in it.
Reapers(u) == [c \in Conns |-> reaping[c] + Occurrences(c, idle[u])]

\* weightUpstream: the upstream takes the weight of the connection, unless
\* the connection has none.
Reweighed(c) == IF entry[c].weight # 0
                THEN [weight EXCEPT ![entry[c].up] = entry[c].weight]
                ELSE weight

\* Mutant: the list is sorted before the new weight is set.
UpdateUpstreamSortsFirst(c) ==
  /\ weight' = Reweighed(c)
  /\ cooling' = IF entry[c].error THEN cooling \cup {entry[c].up} ELSE cooling
  /\ order' \in SortedOrders(weight)

\* updateUpstream: what Add and CloseConnection do to the upstream of c first.
UpdateUpstream(c) ==
  /\ weight' = Reweighed(c)
  /\ cooling' = IF entry[c].error THEN cooling \cup {entry[c].up} ELSE cooling
  /\ order' \in SortedOrders(Reweighed(c))

\* Mutant: the upstream is cooled and its connections are kept.
IdleAfterUpdateKept(c) == idle

IdleAfterUpdate(c) == IF entry[c].error THEN Purged(entry[c].up) ELSE idle
ReapersAfterUpdate(c) == IF entry[c].error THEN Reapers(entry[c].up) ELSE reaping

\* connEntry.AddExchange: a new mean round trip, and the error flag once the
\* exchange took longer than the configured timeout.  Nothing clears the flag.
AddExchange(c, mean, slow) ==
  entry' = [entry EXCEPT ![c] =
              [up |-> @.up, weight |-> mean, error |-> @.error \/ slow]]

-----------------------------------------------------------------------------
(* The pool's methods, as the workers call them *)

\* Get, a cached connection: the best upstream has one, its oldest is popped.
GetCached(w) ==
  LET u == BestUpstream IN
  /\ pc[w] = "start"
  /\ idle[u] # <<>>
  /\ idle' = [idle EXCEPT ![u] = Tail(@)]
  /\ held' = [held EXCEPT ![w] = Head(idle[u])]
  /\ pc' = [pc EXCEPT ![w] = "exchanging"]
  /\ UNCHANGED <<order, weight, cooling, cached, connVars, dialing>>

\* Get, none: the caller is told which upstream to connect to.
GetUpstream(w) ==
  LET u == BestUpstream IN
  /\ pc[w] = "start"
  /\ idle[u] = <<>>
  /\ dialing' = [dialing EXCEPT ![w] = u]
  /\ pc' = [pc EXCEPT ![w] = "dialing"]
  /\ UNCHANGED <<poolVars, connVars, held>>

Get(w) == GetCached(w) \/ GetUpstream(w)

\* NewConnection, dialFunc succeeded: a fresh entry, whose first exchange is
\* the dial itself.  The pool is not locked and not changed.
NewConnection(w) ==
  /\ pc[w] = "dialing"
  /\ \E c \in Conns \ Open, mean \in Weights, slow \in BOOLEAN :
       /\ entry' = [entry EXCEPT ![c] =
                      [up |-> dialing[w], weight |-> mean, error |-> slow]]
       /\ held' = [held EXCEPT ![w] = c]
  /\ dialing' = [dialing EXCEPT ![w] = NoUpstream]
  /\ pc' = [pc EXCEPT ![w] = "exchanging"]
  /\ UNCHANGED <<poolVars, reaping>>

\* NewConnection, dialFunc failed: the upstream is cooled and purged.  This
\* path does not sort.
NewConnectionFails(w) ==
  LET u == dialing[w] IN
  /\ pc[w] = "dialing"
  /\ cooling' = cooling \cup {u}
  /\ idle' = Purged(u)
  /\ reaping' = Reapers(u)
  /\ dialing' = [dialing EXCEPT ![w] = NoUpstream]
  /\ pc' = [pc EXCEPT ![w] = "start"]
  /\ UNCHANGED <<order, weight, cached, entry, held>>

\* attemptExchange, answered: the round trip is recorded on the entry.
ExchangeOk(w) ==
  /\ pc[w] = "exchanging"
  /\ \E mean \in Weights, slow \in BOOLEAN : AddExchange(held[w], mean, slow)
  /\ pc' = [pc EXCEPT ![w] = "adding"]
  /\ UNCHANGED <<poolVars, reaping, dialing, held>>

\* attemptExchange, failed: recorded all the same, then MutexServer flags the
\* entry (AddError) and goes on to close it.
ExchangeFails(w) ==
  /\ pc[w] = "exchanging"
  /\ \E mean \in Weights : AddExchange(held[w], mean, TRUE)
  /\ pc' = [pc EXCEPT ![w] = "closing"]
  /\ UNCHANGED <<poolVars, reaping, dialing, held>>

\* Add: the upstream is updated (and purged, if the entry carries an error),
\* then the entry is appended to its list, whether it carries an error or not.
Add(w) ==
  LET c == held[w] IN
  /\ pc[w] = "adding"
  /\ UpdateUpstream(c)
  /\ idle' = [IdleAfterUpdate(c) EXCEPT ![entry[c].up] = Append(@, c)]
  /\ reaping' = ReapersAfterUpdate(c)
  /\ cached' = cached \cup {entry[c].up}
  /\ held' = [held EXCEPT ![w] = NoConn]
  /\ pc' = [pc EXCEPT ![w] = "start"]
  /\ UNCHANGED <<entry, dialing>>

\* CloseConnection by the worker whose exchange failed.
CloseConnection(w) ==
  LET c == held[w] IN
  /\ pc[w] = "closing"
  /\ UpdateUpstream(c)
  /\ idle' = IdleAfterUpdate(c)
  /\ reaping' = ReapersAfterUpdate(c)
  /\ entry' = [entry EXCEPT ![c] = NoEntry]
  /\ held' = [held EXCEPT ![w] = NoConn]
  /\ pc' = [pc EXCEPT ![w] = "start"]
  /\ UNCHANGED <<cached, dialing>>

\* Mutant: the goroutine adds the connection back instead of closing it.
ReapAdds(c) ==
  /\ reaping[c] > 0
  /\ UpdateUpstream(c)
  /\ idle' = [IdleAfterUpdate(c) EXCEPT ![entry[c].up] = Append(@, c)]
  /\ reaping' = [ReapersAfterUpdate(c) EXCEPT ![c] = @ - 1]
  /\ UNCHANGED <<cached, entry, workerVars>>

\* CloseConnection by a goroutine of purgeUpstream: the same method, so the
\* upstream is weighted, and cooled and purged again, by a connection that
\* left the pool some time ago.
Reap(c) ==
  /\ reaping[c] > 0
  /\ UpdateUpstream(c)
  /\ idle' = IdleAfterUpdate(c)
  /\ reaping' = [ReapersAfterUpdate(c) EXCEPT ![c] = @ - 1]
  /\ entry' = [entry EXCEPT ![c] = NoEntry]
  /\ UNCHANGED <<cached, workerVars>>

\* wakeupTime passes.
Wake(u) ==
  /\ u \in cooling
  /\ cooling' = cooling \ {u}
  /\ UNCHANGED <<order, weight, cached, idle, connVars, workerVars>>

-----------------------------------------------------------------------------

\* AddUpstream, once per configured name: any order, nothing weighed, no map
\* key.
Init ==
  /\ order \in Orders
  /\ weight = [u \in Upstreams |-> 0]
  /\ cooling = {}
  /\ cached = {}
  /\ idle = [u \in Upstreams |-> <<>>]
  /\ entry = [c \in Conns |-> NoEntry]
  /\ reaping = [c \in Conns |-> 0]
  /\ pc = [w \in Workers |-> "start"]
  /\ dialing = [w \in Workers |-> NoUpstream]
  /\ held = [w \in Workers |-> NoConn]

WorkerStep(w) ==
  \/ Get(w)
  \/ NewConnection(w) \/ NewConnectionFails(w)
  \/ ExchangeOk(w) \/ ExchangeFails(w)
  \/ Add(w) \/ CloseConnection(w)

Next ==
  \/ \E w \in Workers : WorkerStep(w)
  \/ \E c \in Conns : Reap(c)
  \/ \E u \in Upstreams : Wake(u)

Spec == Init /\ [][Next]_vars

-----------------------------------------------------------------------------
(* Properties *)

Entry == [up : Upstreams, weight : Weights, error : BOOLEAN] \cup {NoEntry}

\* The shape of the pool: connection lists hold connections, a reaper is a
\* goroutine count, a worker is in one of the steps of attemptExchange.
TypeOK ==
  /\ order \in Orders
  /\ weight \in [Upstreams -> Weights]
  /\ cooling \subseteq Upstreams
  /\ cached \subseteq Upstreams
  /\ idle \in [Upstreams -> Seq(Conns)]
  /\ entry \in [Conns -> Entry]
  /\ reaping \in [Conns -> Nat]
  /\ pc \in [Workers -> {"start", "dialing", "exchanging", "adding", "closing"}]
  /\ dialing \in [Workers -> Upstreams \cup {NoUpstream}]
  /\ held \in [Workers -> Conns \cup {NoConn}]

Pooled(c) == \E u \in Upstreams : \E i \in DOMAIN idle[u] : idle[u][i] = c
Held(c)   == \E w \in Workers : held[w] = c
Reaped(c) == reaping[c] > 0

\* No connection is shared: at most one worker, one slot of one list, one
\* goroutine has it, and only one of the three.
Exclusive ==
  /\ \A v, w \in Workers : held[v] = held[w] => v = w \/ held[v] = NoConn
  /\ \A u, v \in Upstreams : \A i \in DOMAIN idle[u], j \in DOMAIN idle[v] :
       idle[u][i] = idle[v][j] => u = v /\ i = j
  /\ \A c \in Conns : /\ reaping[c] <= 1
                      /\ ~(Pooled(c) /\ Held(c))
                      /\ ~(Pooled(c) /\ Reaped(c))
                      /\ ~(Held(c) /\ Reaped(c))

\* Every connection that somebody has is open, and every open one somebody
\* has: none is used after it was closed, none is closed twice, none leaks.
Accounted == \A c \in Conns : c \in Open <=> Pooled(c) \/ Held(c) \/ Reaped(c)

\* A list holds connections to its own upstream, and its key is in the map.
Homed == \A u \in Upstreams : \A i \in DOMAIN idle[u] :
           u \in cached /\ entry[idle[u][i]].up = u

\* The connections of the pool are handed from owner to owner: by Get and Add
\* between the lists and the workers, by purgeUpstream from the lists to the
\* goroutines that close them (connpool.go:443), and CloseConnection is the end.
Ownership == Exclusive /\ Accounted /\ Homed

\* The upstreams Get should take a connection from.
Ready == { u \in Upstreams : u \notin cooling /\ idle[u] # <<>> }

\* getBestUpstream hands out the lightest cached connection (connpool.go:202):
\* a worker gets one of a cooling upstream, or is sent to dial, only if no
\* upstream that is not cooling has one, and never while a lighter one has.
\* That needs the list to be in order whichever weights the reapers write.
LightestFirst ==
  [][\A w \in Workers :
       /\ pc[w] = "start" /\ pc'[w] = "dialing" => Ready = {}
       /\ pc[w] = "start" /\ pc'[w] = "exchanging" =>
            \A v \in Ready : /\ entry[held'[w]].up \in Ready
                             /\ weight[entry[held'[w]].up] <= weight[v]]_vars

\* coolAndPurgeUpstream severs all connections (connpool.go:429): when an
\* upstream starts to cool, each connection in its list leaves the pool and is
\* about to be closed.
CooledIsPurged ==
  \A u \in cooling' \ cooling, c \in Conns :
    Contains(idle[u], c) => ~Pooled(c)' /\ Reaped(c)'

CoolingPurges == [][CooledIsPurged]_vars

\* What the pool promises of a connection is ConnLife.
Homes   == [c \in Conns |-> entry[c].up]
Spare   == { c \in Conns : Pooled(c) }
Purging == { c \in Conns : Reaped(c) }

Life == INSTANCE ConnLife WITH
          home <- Homes, spare <- Spare, lent <- held, purged <- Purging

\* Borrow, return, purge and close are all that happens to a connection
\* between its dial and its end (connpool.go:295, 377, 421, 443): nobody gets
\* one that was purged, what is purged is one upstream's list and all of it,
\* and a goroutine closes what it was started for.
KeepsTrack == Life!LifeSpec

-----------------------------------------------------------------------------
(* Statements of the source that the pool does not keep *)

\* config.go:31: "cooling upstreams will only be used if no other options are
\* available".  Get sends a worker to a cooling upstream only if all are.
CoolingIsLastResort ==
  [][\A w \in Workers :
       pc[w] = "start" /\ pc'[w] = "dialing" /\ dialing'[w] \in cooling =>
         cooling = Upstreams]_vars

\* connpool_test.go:207: "expected slow connection to have been closed!", and
\* connpool.go:122: "next time around, treat this as a bogus connection".  A
\* connection that carries an error is not handed to a worker again.
SlowNotHandedOut ==
  [][\A w \in Workers :
       pc[w] = "start" /\ pc'[w] = "exchanging" => ~entry[held'[w]].error]_vars
=============================================================================
