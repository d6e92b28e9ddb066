--------------------------- MODULE PipelineServer ---------------------------
(***************************************************************************)
(* The pipeline (pipeline_server.go): one goroutine each to look in the    *)
(* cache, to assign connections, to query upstreams and to finish, linked  *)
(* by unbuffered channels, and one goroutine per query in HandleDNS.  The  *)
(* repository builds it in its tests; main.go runs MutexServer.            *)
(*                                                                         *)
(* A send on an unbuffered channel and its receive are one step of both    *)
(* goroutines.  Which channel a worker sends on is wired by                *)
(* NewPipelineServer.  Three ends of the wiring are loose:                 *)
(*  - pipelineFinisher.servfailsChannel is the outer field, which nothing  *)
(*    initializes: a send on it blocks for good, and the finisher's select *)
(*    never receives from it;                                              *)
(*  - nobody sends on the connector's closingChannel but the finisher      *)
(*    after a SERVFAIL, so nobody does;                                    *)
(*  - nobody sends on the cacher's cachingChannel, so its cache stays      *)
(*    empty and every lookup misses.                                       *)
(*                                                                         *)
(* What is abstracted.  The connector is the pool's only caller: the pool  *)
(* is the set of connections in its lists, Get pops one or names an        *)
(* upstream to dial, and purging takes any away (ConnPool has the whole    *)
(* of it).  A connection whose exchange failed is dropped without being    *)
(* closed; its identity is free for a later one.  cancelChannel, which     *)
(* only tests use, is left out.                                            *)
(***************************************************************************)
EXTENDS Integers, FiniteSets

CONSTANTS
  Queries,    \* the queries known at once
  Conns,      \* connection identities
  MaxDials,   \* UpstreamRetries, or 2 when that is 0
  NoQuery, NoConn,
  ZeroConn    \* the &connEntry{} that Get returns with an upstream

ASSUME PipelineAssumption ==
  /\ MaxDials \in Nat \ {0}
  /\ NoQuery \notin Queries
  /\ NoConn \notin Conns /\ ZeroConn \notin Conns /\ NoConn # ZeroConn

VARIABLES
  asking,      \* the queries blocked in HandleDNS's Dispatch
  unanswered,  \* the queries whose client has no reply yet
  work,        \* work[g]: the query worker g has in its hands
  at,          \* at[g]: where worker g is in its loop
  conn,        \* conn[q]: Query.Conn
  dials,       \* dials[q]: Query.ConnectionRetries
  pooled,      \* the connections in the pool's lists
  panicked     \* the process is gone

vars == <<asking, unanswered, work, at, conn, dials, pooled, panicked>>

Crew == {"cacher", "connector", "querier", "finisher"}

\* The points of each worker's loop: its select, and where it goes from there.
Points(g) == CASE g = "cacher"    -> {"select", "fail"}
               [] g = "connector" -> {"select", "assign", "dispatch", "fail"}
               [] g = "querier"   -> {"select", "exchange", "dispatch", "fail"}
               [] g = "finisher"  -> {"select", "write", "dispatch"}

\* The queries that some goroutine has, and the connections attached to them.
InFlight == asking \cup ({ work[g] : g \in Crew } \ {NoQuery})
Attached == { conn[q] : q \in InFlight }

-----------------------------------------------------------------------------
(* Steps of one goroutine and of two *)

\* Worker g has a query and goes on to point p of its loop.
Proceed(g, from, p) ==
  /\ at[g] = from
  /\ at' = [at EXCEPT ![g] = p]

\* Worker g sends its query, at point p, to worker h, which selects.
Handover(g, p, h, then) ==
  /\ at[g] = p
  /\ at[h] = "select"
  /\ at' = [at EXCEPT ![g] = "select", ![h] = then]
  /\ work' = [work EXCEPT ![g] = NoQuery, ![h] = work[g]]

-----------------------------------------------------------------------------
(* HandleDNS and the cacher *)

\* HandleDNS: a query comes in; the goroutine blocks on the cacher's channel.
HandleDNS(q) ==
  /\ q \notin InFlight
  /\ asking' = asking \cup {q}
  /\ unanswered' = unanswered \cup {q}
  /\ conn' = [conn EXCEPT ![q] = NoConn]
  /\ dials' = [dials EXCEPT ![q] = 0]
  /\ UNCHANGED <<work, at, pooled>>

\* Mutant: a miss is not passed on.
CacherReceivesDrops(q) ==
  /\ at["cacher"] = "select"
  /\ q \in asking
  /\ asking' = asking \ {q}
  /\ UNCHANGED <<unanswered, work, at, conn, dials, pooled>>

\* The cacher takes the query and CheckCache misses.
CacherReceives(q) ==
  /\ Proceed("cacher", "select", "fail")
  /\ q \in asking
  /\ asking' = asking \ {q}
  /\ work' = [work EXCEPT !["cacher"] = q]
  /\ UNCHANGED <<unanswered, conn, dials, pooled>>

\* Fail of the cacher: the connector takes the query.
CacherFails ==
  /\ Handover("cacher", "fail", "connector", "assign")
  /\ UNCHANGED <<asking, unanswered, conn, dials, pooled>>

-----------------------------------------------------------------------------
(* The connector *)

\* Mutant: Get returns a pooled connection and leaves it in the pool.
AssignPooledKeeps ==
  /\ Proceed("connector", "assign", "dispatch")
  /\ \E c \in pooled : conn' = [conn EXCEPT ![work["connector"]] = c]
  /\ UNCHANGED <<asking, unanswered, work, dials, pooled>>

\* AssignConnection: Get pops a connection.
AssignPooled ==
  /\ Proceed("connector", "assign", "dispatch")
  /\ \E c \in pooled : /\ pooled' = pooled \ {c}
                       /\ conn' = [conn EXCEPT ![work["connector"]] = c]
  /\ UNCHANGED <<asking, unanswered, work, dials>>

\* Mutant: the first dial that fails uses up one retry too many.
AssignDialledTwice ==
  LET q == work["connector"] IN
  /\ Proceed("connector", "assign", "dispatch")
  /\ \E n \in dials[q] + 1 .. MaxDials : dials' = [dials EXCEPT ![q] = n + 1]
  /\ \E c \in Conns \ (pooled \cup Attached) : conn' = [conn EXCEPT ![q] = c]
  /\ UNCHANGED <<asking, unanswered, work, pooled>>

\* Mutant: ConnectionRetries is counted on a copy here, too.
AssignDialledUncounted ==
  LET q == work["connector"] IN
  /\ Proceed("connector", "assign", "dispatch")
  /\ dials[q] < MaxDials
  /\ \E c \in Conns \ (pooled \cup Attached) : conn' = [conn EXCEPT ![q] = c]
  /\ UNCHANGED <<asking, unanswered, work, dials, pooled>>

\* AssignConnection: Get names an upstream, and one of the dials that are left
\* to this query succeeds.
AssignDialled ==
  LET q == work["connector"] IN
  /\ Proceed("connector", "assign", "dispatch")
  /\ \E n \in dials[q] + 1 .. MaxDials : dials' = [dials EXCEPT ![q] = n]
  /\ \E c \in Conns \ (pooled \cup Attached) : conn' = [conn EXCEPT ![q] = c]
  /\ UNCHANGED <<asking, unanswered, work, pooled>>

\* Mutant: the last dial is not made.
AssignNothingEarly ==
  LET q == work["connector"] IN
  /\ Proceed("connector", "assign", "dispatch")
  /\ dials[q] + 1 >= MaxDials
  /\ conn' = [conn EXCEPT ![q] = ZeroConn]
  /\ UNCHANGED <<asking, unanswered, work, dials, pooled>>

\* Mutant: a query that has no dial left is not given the zero entry.
AssignNothingWaits ==
  LET q == work["connector"] IN
  /\ Proceed("connector", "assign", "dispatch")
  /\ dials[q] > MaxDials
  /\ conn' = [conn EXCEPT ![q] = ZeroConn]
  /\ UNCHANGED <<asking, unanswered, work, dials, pooled>>

\* AssignConnection: Get names an upstream and this query has no dial left.
\* The loop does not run, err is nil, and the entry is the one Get returned.
AssignNothing ==
  LET q == work["connector"] IN
  /\ Proceed("connector", "assign", "dispatch")
  /\ dials[q] >= MaxDials
  /\ conn' = [conn EXCEPT ![q] = ZeroConn]
  /\ UNCHANGED <<asking, unanswered, work, dials, pooled>>

\* AssignConnection: every dial that is left fails.  Fail sends the query as
\* it came on a channel that is nil, so this worker never gets further (what
\* it would do next is dispatch the empty Query AssignConnection returned).
AssignFails ==
  /\ Proceed("connector", "assign", "fail")
  /\ dials[work["connector"]] < MaxDials
  /\ UNCHANGED <<asking, unanswered, work, conn, dials, pooled>>

\* Dispatch of the connector: the querier takes the query.
ConnectorDispatches ==
  /\ Handover("connector", "dispatch", "querier", "exchange")
  /\ UNCHANGED <<asking, unanswered, conn, dials, pooled>>

-----------------------------------------------------------------------------
(* The querier *)

\* Query: the upstream answers.
ExchangeOk ==
  /\ Proceed("querier", "exchange", "dispatch")
  /\ conn[work["querier"]] \in Conns
  /\ UNCHANGED <<asking, unanswered, work, conn, dials, pooled>>

\* Query: the exchange fails.  The increment of ConnectionRetries is on the
\* copy Query returns; Start fails the query it received.
ExchangeFails ==
  /\ Proceed("querier", "exchange", "fail")
  /\ conn[work["querier"]] \in Conns
  /\ UNCHANGED <<asking, unanswered, work, conn, dials, pooled>>

\* Query: GetConn asserts the type of a connection that is nil.
ExchangePanics ==
  /\ at["querier"] = "exchange"
  /\ conn[work["querier"]] = ZeroConn
  /\ panicked' = TRUE
  /\ UNCHANGED <<asking, unanswered, work, at, conn, dials, pooled>>

\* Mutant: no continue after Fail, the query is dispatched too.
QuerierFailsOn ==
  /\ at["querier"] = "fail"
  /\ at["connector"] = "select"
  /\ at' = [at EXCEPT !["querier"] = "dispatch", !["connector"] = "assign"]
  /\ work' = [work EXCEPT !["connector"] = work["querier"]]
  /\ UNCHANGED <<asking, unanswered, conn, dials, pooled>>

\* Fail of the querier: the query goes back to the connector.
QuerierFails ==
  /\ Handover("querier", "fail", "connector", "assign")
  /\ UNCHANGED <<asking, unanswered, conn, dials, pooled>>

\* Dispatch of the querier: the finisher takes the query.
QuerierDispatches ==
  /\ Handover("querier", "dispatch", "finisher", "write")
  /\ UNCHANGED <<asking, unanswered, conn, dials, pooled>>

-----------------------------------------------------------------------------
(* The finisher *)

\* WriteMsg: the client has its reply, or the write failed and is only logged.
FinisherWrites ==
  /\ Proceed("finisher", "write", "dispatch")
  /\ unanswered' = unanswered \ {work["finisher"]}
  /\ UNCHANGED <<asking, work, conn, dials, pooled>>

\* Mutant: the channel back to the connector has a buffer.
FinisherDispatchesBuffered ==
  /\ Proceed("finisher", "dispatch", "select")
  /\ work' = [work EXCEPT !["finisher"] = NoQuery]
  /\ \E kept \in SUBSET pooled : pooled' = kept \cup {conn[work["finisher"]]}
  /\ UNCHANGED <<asking, unanswered, conn, dials>>

\* Mutant: the connector does not add the connection to the pool.
FinisherDispatchesForgets ==
  /\ Proceed("finisher", "dispatch", "select")
  /\ at["connector"] = "select"
  /\ work' = [work EXCEPT !["finisher"] = NoQuery]
  /\ \E kept \in SUBSET pooled : pooled' = kept
  /\ UNCHANGED <<asking, unanswered, conn, dials>>

\* Dispatch of the finisher: the connector takes the query for its connection,
\* which it adds to the pool; Add purges the upstream's other connections if
\* this one carries an error.  The query is over.
FinisherDispatches ==
  /\ Proceed("finisher", "dispatch", "select")
  /\ at["connector"] = "select"
  /\ work' = [work EXCEPT !["finisher"] = NoQuery]
  /\ \E kept \in SUBSET pooled : pooled' = kept \cup {conn[work["finisher"]]}
  /\ UNCHANGED <<asking, unanswered, conn, dials>>

\* The closing goroutines of the pool purge an upstream.
Purge ==
  /\ \E kept \in SUBSET pooled : kept # pooled /\ pooled' = kept
  /\ UNCHANGED <<asking, unanswered, work, at, conn, dials>>

-----------------------------------------------------------------------------

Init ==
  /\ asking = {}
  /\ unanswered = {}
  /\ work = [g \in Crew |-> NoQuery]
  /\ at = [g \in Crew |-> "select"]
  /\ conn = [q \in Queries |-> NoConn]
  /\ dials = [q \in Queries |-> 0]
  /\ pooled = {}
  /\ panicked = FALSE

CacherStep == (\E q \in Queries : CacherReceives(q)) \/ CacherFails

AssignConnection == AssignPooled \/ AssignDialled \/ AssignNothing \/ AssignFails

QuerierStep == ExchangeOk \/ ExchangeFails \/ QuerierFails \/ QuerierDispatches

CrewStep ==
  \/ CacherStep
  \/ AssignConnection \/ ConnectorDispatches
  \/ QuerierStep
  \/ FinisherWrites \/ FinisherDispatches

Next ==
  /\ ~panicked
  /\ \/ ExchangePanics
     \/ /\ CrewStep \/ Purge \/ \E q \in Queries : HandleDNS(q)
        /\ UNCHANGED panicked

Spec == Init /\ [][Next]_vars

\* A goroutine that can go on does: dials and exchanges carry timeouts, writes
\* return, and a send whose receiver selects is received.
FairSpec ==
  /\ Spec
  /\ WF_vars(~panicked /\ CacherStep /\ UNCHANGED panicked)
  /\ WF_vars(~panicked /\ (AssignConnection \/ ConnectorDispatches) /\ UNCHANGED panicked)
  /\ WF_vars(~panicked /\ QuerierStep /\ UNCHANGED panicked)
  /\ WF_vars(~panicked /\ (FinisherWrites \/ FinisherDispatches) /\ UNCHANGED panicked)

-----------------------------------------------------------------------------
(* Properties *)

\* Each worker is at a point of its own loop and has a query in its hands
\* exactly outside its select; no query dials more often than it may.
TypeOK ==
  /\ asking \subseteq Queries /\ unanswered \subseteq Queries
  /\ work \in [Crew -> Queries \cup {NoQuery}]
  /\ at \in [Crew -> UNION { Points(g) : g \in Crew }]
  /\ \A g \in Crew : at[g] \in Points(g) /\ (work[g] = NoQuery <=> at[g] = "select")
  /\ conn \in [Queries -> Conns \cup {NoConn, ZeroConn}]
  /\ dials \in [Queries -> 0..MaxDials]
  /\ pooled \subseteq Conns
  /\ panicked \in BOOLEAN

\* A query is with one goroutine at a time, and until its client has a reply
\* it is with one: none is lost or worked on twice on its way through the
\* channels, retries included (pipeline_server.go:291).
Delivered ==
  /\ \A g, h \in Crew : work[g] = work[h] => g = h \/ work[g] = NoQuery
  /\ \A g \in Crew : work[g] \notin asking
  /\ unanswered \subseteq InFlight

\* No connection is used for two queries, or for one while the pool has it:
\* a connection comes back to the pool only from a query that is over, and one
\* whose exchange failed does not come back (pipeline_server.go:149).
ConnsExclusive ==
  \A q \in InFlight : conn[q] \in Conns =>
    /\ conn[q] \notin pooled
    /\ \A r \in InFlight : conn[r] = conn[q] => r = q

\* A query keeps its connection until the pool has it back: only the connector
\* takes it away, to assign another one after a failed exchange, and nobody
\* closes the old one then (server.go:139 leaves that to the caller).  Nothing
\* else on the way through the workers loses a connection.
NoneDropped ==
  [][\A c \in Conns : c \in Attached /\ c \notin Attached' =>
       \/ c \in pooled'
       \/ at["connector"] = "assign" /\ c = conn[work["connector"]]]_vars

\* The connector waits for good, on a channel nobody made.
FailBlocked == at["connector"] = "fail"

\* pipeline_server.go:168: the querier is blocked on the connector accepting a
\* query to retry whilst the connector is blocked on the querier.
Embrace == at["connector"] = "dispatch" /\ at["querier"] = "fail"

\* The same with the finisher between them: it waits for the connector to take
\* a connection back, the querier for the finisher, the connector for the
\* querier.
Ring ==
  at["connector"] = "dispatch" /\ at["querier"] = "dispatch" /\ at["finisher"] = "dispatch"

Stuck == FailBlocked \/ Embrace \/ Ring

\* Some goroutine is not waiting for another: it looks in the cache, assigns,
\* exchanges or writes, or its query finds the next worker in its select.
CanMove ==
  \/ at["cacher"] = "select" /\ asking # {}
  \/ at["connector"] = "assign" \/ at["querier"] = "exchange" \/ at["finisher"] = "write"
  \/ at["connector"] = "select" /\ \/ at["cacher"] = "fail" \/ at["querier"] = "fail"
                                   \/ at["finisher"] = "dispatch"
  \/ at["connector"] = "dispatch" /\ at["querier"] = "select"
  \/ at["querier"] = "dispatch" /\ at["finisher"] = "select"

\* These are all the ways in which the pipeline stops with queries it has not
\* answered: when everybody waits for somebody, the process is gone or it is
\* stuck in one of them, and a query that is alone only by its failed dials.
StopsOnlyStuck ==
  unanswered # {} /\ ~panicked /\ ~CanMove =>
    Stuck /\ \A q \in InFlight : InFlight = {q} => FailBlocked

\* And waiting is all that stops it: a worker that waits for nobody has
\* something to do with the query it has.  AssignConnection always ends, with
\* a pooled connection, a dialled one, none or an error, and the querier never
\* gets a query without an entry (pipeline_server.go:184, 251).
MovesUnlessWaiting == ~panicked => (CanMove <=> ENABLED (CrewStep \/ ExchangePanics))

\* The process panics on the nil connection (connpool.go:138) only over a query
\* that has used up its dials, counted over all its retries
\* (pipeline_server.go:194).
PanicsOnlyExhausted == panicked => dials[work["querier"]] = MaxDials

\* And none of them passes: no other goroutine, query or purge frees the
\* workers from it (pipeline_server.go:168).
StuckForGood == [][Stuck => Stuck']_vars

\* A query whose exchanges fail goes round from the querier to the connector
\* and back, and ConnectionRetries does not count those rounds
\* (pipeline_server.go:257, 291).  It does not do so for ever on its own: each
\* round costs a dial or a pooled connection, so without end there are rounds
\* only while other queries are finished without end and give theirs back.
RoundsEnd == []<><<QuerierFails>>_vars => []<><<FinisherDispatches>>_vars

-----------------------------------------------------------------------------
(* A statement of the source that the pipeline does not keep *)

\* pipeline_server.go:53: "Fail: connection failure, forward to
\* PipelineFinisher for servfail".  A query the connector fails is answered.
ServfailForwarded ==
  \A q \in Queries : at["connector"] = "fail" /\ work["connector"] = q ~> q \notin unanswered
=============================================================================
