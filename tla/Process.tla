------------------------------- MODULE Process -------------------------------
(***************************************************************************)
(* The life of the process around the server: main.go from the start of    *)
(* the HTTP API to the end, and Shutdown, which the HTTP API calls.  What  *)
(* the server does with a query is QueryService, which MutexServer         *)
(* implements; here it matters only whether the handler of a query has     *)
(* returned, which it does when the query has its permit.                  *)
(*                                                                         *)
(* main builds two dns.Servers, each with a handler goroutine per query,   *)
(* and stays in the ListenAndServe of the one for TCP.  Shutdown tells one *)
(* after the other to stop, and waits for each until its handlers have     *)
(* returned, or for 5 seconds.                                             *)
(*                                                                         *)
(* dns.Server (github.com/miekg/dns) is external, as its use here shows    *)
(* it: a server that was not started, or was told to stop before, refuses  *)
(* to be shut down; ListenAndServe returns nil only when it was told to    *)
(* stop, an error when the socket breaks, and either only when no handler  *)
(* is running.  After the stop a handler's return closes its connection,   *)
(* so that a permit does not mean a reply any more.                        *)
(***************************************************************************)
EXTENDS QueryService

CONSTANTS
  Requests,  \* the requests for /v1/shutdown under way at once; a slot is used again
  Nobody     \* no request, no listener

ASSUME ProcessAssumption == Nobody \notin Requests \cup {"main", "udp", "tcp"}
                            /\ "main" \notin Requests

VARIABLES
  main,      \* where main() is
  servers,   \* the slice of that name: the listeners Shutdown knows
  listener,  \* how far each dns.Server is
  via,       \* via[q]: the listener that has read q and not yet seen it admitted
  mutex,     \* who has shutdownMutex: a request, "main", or Nobody
  request,   \* where the handler of each request is
  left,      \* left[r]: the listeners the loop of Shutdown still has to visit
  gaveUp     \* the listeners a ShutdownContext has given up on after 5 seconds

shutdownVars == <<mutex, request, left, gaveUp>>
processVars == <<serviceVars, main, servers, listener, via, shutdownVars>>

Listeners == {"udp", "tcp"}
MainStates == {"boot", "blackhole", "serving", "closing", "exited", "failed"}
ListenerStates == {"down", "up", "stopping", "stopped", "failed"}
RequestStates == {"none", "locking", "ranging", "waiting"}

\* The handlers of listener l that have not returned: their queries have been
\* read and have no permit yet.
Handlers(l) == { q \in Queries : via[q] = l }

-----------------------------------------------------------------------------
(* Queries: a listener reads one, the server's goroutines do the rest *)

Read(q, l) ==
  /\ listener[l] = "up"
  /\ status[q] = "out" /\ via[q] = Nobody
  /\ via' = [via EXCEPT ![q] = l]
  /\ UNCHANGED <<serviceVars, main, servers, listener, shutdownVars>>

\* Mutant: ServeDNS leaves the Acquire to a goroutine.
ReturnedAtOnce == [q \in Queries |-> IF status'[q] # "out" THEN Nobody ELSE via[q]]

\* The handlers whose queries have a permit return.
Returned == [q \in Queries |-> IF status'[q] = "running" THEN Nobody ELSE via[q]]

\* ServeDNS, whose Acquire may have to wait.
Handle(q) ==
  /\ via[q] # Nobody
  /\ Receive(q)
  /\ via' = Returned
  /\ UNCHANGED <<main, servers, listener, shutdownVars>>

\* An admitted query's goroutine replies and passes its permit on.
Work(q) ==
  /\ Answer(q) \/ Finish(q)
  /\ via' = Returned
  /\ UNCHANGED <<main, servers, listener, shutdownVars>>

-----------------------------------------------------------------------------
(* main *)

\* NewMutexServer or loadLocalZones fails, after the HTTP API has started.
BootFails ==
  /\ main = "boot" /\ servers = <<>>
  /\ main' = "failed"
  /\ UNCHANGED <<serviceVars, servers, listener, via, shutdownVars>>

\* Mutant: the TCP server is added first.
AddServerTcpFirst ==
  /\ main = "boot" /\ Len(servers) < 2
  /\ servers' = Append(servers, IF servers = <<>> THEN "tcp" ELSE "udp")
  /\ UNCHANGED <<serviceVars, main, listener, via, shutdownVars>>

\* addServer(srvUDP), then addServer(srvTCP).
AddServer ==
  /\ main = "boot" /\ Len(servers) < 2
  /\ servers' = Append(servers, IF servers = <<>> THEN "udp" ELSE "tcp")
  /\ UNCHANGED <<serviceVars, main, listener, via, shutdownVars>>

\* The listeners start, or the blackhole server in their place.
Start ==
  /\ main = "boot" /\ Len(servers) = 2
  /\ main' \in {"serving", "blackhole"}
  /\ UNCHANGED <<serviceVars, servers, listener, via, shutdownVars>>

\* runBlackholeServer returns only with an error: nobody shuts its listener
\* down, which is not in servers.
BlackholeFails ==
  /\ main = "blackhole"
  /\ main' = "failed"
  /\ UNCHANGED <<serviceVars, servers, listener, via, shutdownVars>>

\* The UDP listener's goroutine gets its socket, however late, or logs that it
\* did not.
ListenUdp ==
  /\ main \in {"serving", "closing"} /\ listener["udp"] = "down"
  /\ \E s \in {"up", "failed"} : listener' = [listener EXCEPT !["udp"] = s]
  /\ UNCHANGED <<serviceVars, main, servers, via, shutdownVars>>

\* main gets the TCP socket, or exits.
ListenTcp ==
  /\ main = "serving" /\ listener["tcp"] = "down"
  /\ \/ listener' = [listener EXCEPT !["tcp"] = "up"] /\ UNCHANGED main
     \/ listener' = [listener EXCEPT !["tcp"] = "failed"] /\ main' = "failed"
  /\ UNCHANGED <<serviceVars, servers, via, shutdownVars>>

\* ListenAndServe returns: it was told to stop and its handlers have returned.
ListenEnds(l) ==
  /\ listener[l] = "stopping" /\ Handlers(l) = {}
  /\ listener' = [listener EXCEPT ![l] = "stopped"]
  /\ main' = IF l = "tcp" THEN "closing" ELSE main
  /\ UNCHANGED <<serviceVars, servers, via, shutdownVars>>

\* ListenAndServe returns an error, of which main dies and the goroutine for
\* UDP logs.  Who shuts a broken UDP server down need not wait for it, and
\* where it breaks just before it is told to stop ListenEnds is its end.
ListenBreaks(l) ==
  /\ listener[l] = "up" \/ (l = "tcp" /\ listener[l] = "stopping")
  /\ Handlers(l) = {}
  /\ listener' = [listener EXCEPT ![l] = "failed"]
  /\ main' = IF l = "tcp" THEN "failed" ELSE main
  /\ UNCHANGED <<serviceVars, servers, via, shutdownVars>>

\* Mutant: main returns without waiting for the shutdowns.
ExitUnlocked ==
  /\ main = "closing"
  /\ main' = "exited"
  /\ UNCHANGED <<serviceVars, servers, listener, via, shutdownVars>>

\* main gets shutdownMutex and returns; the process ends with it.
Exit ==
  /\ main = "closing" /\ mutex = Nobody
  /\ mutex' = "main"
  /\ main' = "exited"
  /\ UNCHANGED <<serviceVars, servers, listener, via, request, left, gaveUp>>

-----------------------------------------------------------------------------
(* Shutdown, in the goroutine of an HTTP request *)

\* shutdownHttpHandler: the HTTP API is up before the listeners are.
AskShutdown(r) ==
  /\ request[r] = "none"
  /\ request' = [request EXCEPT ![r] = "locking"]
  /\ UNCHANGED <<serviceVars, main, servers, listener, via, mutex, left, gaveUp>>

\* The loop ranges over the slice as it is now.
LockShutdown(r) ==
  /\ request[r] = "locking" /\ mutex = Nobody
  /\ mutex' = r
  /\ left' = [left EXCEPT ![r] = servers]
  /\ request' = [request EXCEPT ![r] = "ranging"]
  /\ UNCHANGED <<serviceVars, main, servers, listener, via, gaveUp>>

\* Mutant: the Unlock is the last statement, not deferred, and a panic skips it.
RangeTornLocked(r) ==
  /\ request[r] = "locking" /\ mutex = Nobody
  /\ main = "boot" /\ Len(servers) < 2
  /\ request' = [request EXCEPT ![r] = "none"]
  /\ mutex' = r
  /\ UNCHANGED <<serviceVars, main, servers, listener, via, left, gaveUp>>

\* The loop reads the slice while addServer, without the lock, writes it: the
\* length may be new and the array old.  Past the empty array is a nil server,
\* and net/http recovers from the panic; past the array of one is anything, and
\* the process may die of it.
RangeTorn(r) ==
  /\ request[r] = "locking" /\ mutex = Nobody
  /\ main = "boot" /\ Len(servers) < 2
  /\ \/ /\ request' = [request EXCEPT ![r] = "none"]
        /\ UNCHANGED main
     \/ /\ servers # <<>>
        /\ main' = "failed"
        /\ UNCHANGED request
  /\ UNCHANGED <<serviceVars, servers, listener, via, mutex, left, gaveUp>>

\* Mutant: Shutdown returns at the first error.
SkipReturns(r) ==
  /\ request[r] = "ranging" /\ left[r] # <<>> /\ listener[Head(left[r])] # "up"
  /\ left' = [left EXCEPT ![r] = <<>>]
  /\ UNCHANGED <<serviceVars, main, servers, listener, via, mutex, request, gaveUp>>

\* ShutdownContext of a server that is not started fails at once; the loop
\* goes on.
Skip(r) ==
  /\ request[r] = "ranging" /\ left[r] # <<>> /\ listener[Head(left[r])] # "up"
  /\ left' = [left EXCEPT ![r] = Tail(@)]
  /\ UNCHANGED <<serviceVars, main, servers, listener, via, mutex, request, gaveUp>>

\* ShutdownContext tells the server to stop ...
TellStop(r) ==
  /\ request[r] = "ranging" /\ left[r] # <<>> /\ listener[Head(left[r])] = "up"
  /\ listener' = [listener EXCEPT ![Head(left[r])] = "stopping"]
  /\ request' = [request EXCEPT ![r] = "waiting"]
  /\ UNCHANGED <<serviceVars, main, servers, via, mutex, left, gaveUp>>

\* ... and waits until it has stopped ...
SeeStopped(r) ==
  /\ request[r] = "waiting" /\ listener[Head(left[r])] = "stopped"
  /\ left' = [left EXCEPT ![r] = Tail(@)]
  /\ request' = [request EXCEPT ![r] = "ranging"]
  /\ UNCHANGED <<serviceVars, main, servers, listener, via, mutex, gaveUp>>

\* ... or for 5 seconds.
TimeOut(r) ==
  /\ request[r] = "waiting"
  /\ gaveUp' = gaveUp \cup {Head(left[r])}
  /\ left' = [left EXCEPT ![r] = Tail(@)]
  /\ request' = [request EXCEPT ![r] = "ranging"]
  /\ UNCHANGED <<serviceVars, main, servers, listener, via, mutex>>

\* The deferred Unlock; the HTTP request is over.
UnlockShutdown(r) ==
  /\ request[r] = "ranging" /\ left[r] = <<>>
  /\ mutex' = Nobody
  /\ request' = [request EXCEPT ![r] = "none"]
  /\ UNCHANGED <<serviceVars, main, servers, listener, via, left, gaveUp>>

-----------------------------------------------------------------------------

ProcessInit ==
  /\ ServiceInit
  /\ main = "boot"
  /\ servers = <<>>
  /\ listener = [l \in Listeners |-> "down"]
  /\ via = [q \in Queries |-> Nobody]
  /\ mutex = Nobody
  /\ request = [r \in Requests |-> "none"]
  /\ left = [r \in Requests |-> <<>>]
  /\ gaveUp = {}

QueryStep(q) == Handle(q) \/ Work(q)

MainStep ==
  \/ BootFails \/ AddServer \/ Start \/ BlackholeFails
  \/ ListenUdp \/ ListenTcp
  \/ \E l \in Listeners : ListenEnds(l) \/ ListenBreaks(l)
  \/ Exit

ShutdownStep(r) ==
  Skip(r) \/ TellStop(r) \/ SeeStopped(r) \/ TimeOut(r) \/ UnlockShutdown(r)

\* Nothing of the process survives its end.
ProcessNext ==
  /\ main \notin {"exited", "failed"}
  /\ \/ \E q \in Queries : QueryStep(q) \/ \E l \in Listeners : Read(q, l)
     \/ MainStep
     \/ \E r \in Requests : AskShutdown(r) \/ LockShutdown(r) \/ RangeTorn(r) \/ ShutdownStep(r)

ProcessSpec == ProcessInit /\ [][ProcessNext]_processVars

\* Goroutines run, the server answers (MutexServer's Answered), timers fire,
\* and a Go mutex is given to whoever has waited long enough.  No query and no
\* request need come in, and no socket need be had.
ProcessFairness ==
  /\ \A q \in Queries : WF_processVars(main \notin {"exited", "failed"} /\ QueryStep(q))
  /\ \A l \in Listeners : WF_processVars(main \notin {"exited", "failed"} /\ ListenEnds(l))
  /\ \A r \in Requests :
       /\ WF_processVars(main \notin {"exited", "failed"} /\ ShutdownStep(r))
       /\ SF_processVars(main \notin {"exited", "failed"} /\ LockShutdown(r))
  /\ SF_processVars(Exit)

ProcessFairSpec == ProcessSpec /\ ProcessFairness

-----------------------------------------------------------------------------
(* Properties *)

\* The shape of the process; the service's status and queue, too.
ProcessTypeOK ==
  /\ status \in [Queries -> Statuses] /\ queue \in Seq(Queries)
  /\ main \in MainStates
  /\ servers \in { <<>>, <<"udp">>, <<"udp", "tcp">> }
  /\ listener \in [Listeners -> ListenerStates]
  /\ via \in [Queries -> Listeners \cup {Nobody}]
  /\ mutex \in Requests \cup {"main", Nobody}
  /\ request \in [Requests -> RequestStates]
  /\ left \in [Requests -> { <<>>, <<"udp">>, <<"tcp">>, <<"udp", "tcp">> }]
  /\ gaveUp \subseteq Listeners

\* When main returns, "all shutdowns are complete" (main.go:216): no query read
\* over TCP is cut off before it had its permit, and one read over UDP only if
\* the UDP listener came up after Shutdown had passed it, or had its 5 seconds.
\* This needs the final Lock: the shutdown that stopped TCP need not be the one
\* that waits for UDP.
ExitWaits ==
  main = "exited" =>
    \A q \in Queries : via[q] # Nobody =>
      via[q] = "udp" /\ (listener["udp"] = "up" \/ "udp" \in gaveUp)

\* Nor is a query left behind in the semaphore's queue (mutex_server.go:241):
\* one that waits there has its handler waiting with it, which is what the
\* listeners wait for.
NobodyWaiting ==
  main = "exited" /\ listener["udp"] # "up" /\ "udp" \notin gaveUp => queue = <<>>

\* shutdownMutex is never lost and never had by two (main.go:105): a request
\* has it exactly while its Shutdown visits the listeners, which it does to the
\* end, or to a panic, and main only when it has returned.
LockHeld ==
  /\ \A r \in Requests : mutex = r <=> request[r] \in {"ranging", "waiting"}
  /\ mutex = "main" <=> main = "exited"

\* A shutdown asked for while TCP is served ends the process (main.go:105,
\* 212-217): whatever state the UDP listener is in, however many queries wait
\* for a permit and whoever else asks, Shutdown gets its lock and visits TCP,
\* ListenAndServe returns and main gets the lock.
ShutdownExits ==
  \A r \in Requests :
    request[r] = "locking" /\ listener["tcp"] = "up" ~> main \in {"exited", "failed"}
=============================================================================
