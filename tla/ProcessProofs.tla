---------------------------- MODULE ProcessProofs ----------------------------
(***************************************************************************)
(* What the shutdown of the process guarantees for any number of queries,  *)
(* permits and requests.  That main's last Lock waits for the shutdown     *)
(* that waits for UDP is not inductive: what carries it is who has the     *)
(* lock (Locked), that a listener that is stopping is being waited for,    *)
(* unless that was given up (Watched), and which listeners can still have  *)
(* handlers (Drained).  What becomes of the queries is QueryService's, as  *)
(* QueryServiceProofs has it, and that a query that waits for a permit has *)
(* its handler with it (Attended).                                         *)
(***************************************************************************)
EXTENDS Process, QueryServiceProofs

Locked ==
  /\ \A r \in Requests : request[r] \in {"ranging", "waiting"} => mutex = r
  /\ \A r \in Requests : request[r] = "waiting" => left[r] # <<>>
  /\ \A r \in Requests : mutex = r => request[r] \in {"ranging", "waiting"}
  /\ main = "exited" <=> mutex = "main"

Watched ==
  listener["udp"] = "stopping" /\ "udp" \notin gaveUp =>
    \E r \in Requests : request[r] = "waiting" /\ Head(left[r]) = "udp"

Drained ==
  /\ \A q \in Queries : via[q] # Nobody => listener[via[q]] \in {"up", "stopping"}
  /\ main \in {"closing", "exited"} => listener["tcp"] = "stopped"

PInv == ProcessTypeOK /\ Locked /\ Watched /\ Drained

-----------------------------------------------------------------------------
(* What is left of the slice *)

Slices == { <<>>, <<"udp">>, <<"tcp">>, <<"udp", "tcp">> }

\* The loop of Shutdown visits listeners, and what it has left is a slice.
LEMMA SliceFacts ==
  ASSUME NEW s \in Slices, s # <<>>
  PROVE  Head(s) \in Listeners /\ Tail(s) \in Slices
<1>1. CASE s = <<"udp">>
  BY <1>1 DEF Slices, Listeners
<1>2. CASE s = <<"tcp">>
  BY <1>2 DEF Slices, Listeners
<1>3. CASE s = <<"udp", "tcp">>
  <2>1. Head(s) = "udp" /\ Tail(s) = <<"tcp">>
    BY <1>3
  <2> QED
    BY <2>1 DEF Slices, Listeners
<1> QED
  BY <1>1, <1>2, <1>3 DEF Slices

-----------------------------------------------------------------------------
(* The steps *)

\* The invariant holds of the process when the HTTP API starts.
LEMMA InitPInv == ProcessInit => PInv
<1> SUFFICES ASSUME ProcessInit PROVE PInv
  OBVIOUS
<1>1. ProcessTypeOK
  BY DEF ProcessInit, ServiceInit, ProcessTypeOK, Statuses, MainStates, ListenerStates, RequestStates
<1>2. Locked /\ Watched /\ Drained
  BY ProcessAssumption DEF ProcessInit, Locked, Watched, Drained, Listeners
<1> QED
  BY <1>1, <1>2 DEF PInv

\* Reading a query, handling it and working on it change no listener; the
\* handler set of a listener grows only while it is up.
LEMMA QueryPInv ==
  ASSUME PInv, NEW q \in Queries,
         QueryStep(q) \/ \E l \in Listeners : Read(q, l)
  PROVE  PInv'
<1>1. ASSUME NEW l \in Listeners, Read(q, l) PROVE PInv'
  <2>1. ProcessTypeOK'
    BY <1>1 DEF Read, PInv, ProcessTypeOK, serviceVars, shutdownVars
  <2>2. Locked' /\ Watched'
    BY <1>1 DEF Read, PInv, Locked, Watched, shutdownVars
  <2>3. Drained'
    BY <1>1 DEF Read, PInv, Drained, ProcessTypeOK
  <2> QED
    BY <2>1, <2>2, <2>3 DEF PInv
<1>2. CASE QueryStep(q)
  <2>1. /\ UNCHANGED <<main, servers, listener, shutdownVars>>
        /\ via' = Returned
        /\ Receive(q) \/ Answer(q) \/ Finish(q)
    BY <1>2 DEF QueryStep, Handle, Work
  <2>2. status' \in [Queries -> Statuses] /\ queue' \in Seq(Queries)
    <3>1. CASE Receive(q)
      <4>1. Append(queue, q) \in Seq(Queries)
        BY DEF PInv, ProcessTypeOK
      <4>2. status' \in [Queries -> Statuses] /\ queue' \in {queue, Append(queue, q)}
        BY <3>1 DEF Receive, PInv, ProcessTypeOK, Statuses
      <4> QED
        BY <4>1, <4>2 DEF PInv, ProcessTypeOK
    <3>2. CASE Answer(q)
      BY <3>2 DEF Answer, PInv, ProcessTypeOK, Statuses
    <3>3. CASE Finish(q)
      BY <3>3, LeaveFacts DEF Finish, PInv, ProcessTypeOK, Statuses
    <3> QED
      BY <2>1, <3>1, <3>2, <3>3
  <2>3. \A p \in Queries : via'[p] \in {via[p], Nobody}
    BY <2>1 DEF Returned
  <2>4. via' \in [Queries -> Listeners \cup {Nobody}]
    BY <2>1 DEF Returned, PInv, ProcessTypeOK
  <2>5. ProcessTypeOK'
    BY <2>1, <2>2, <2>4 DEF PInv, ProcessTypeOK, shutdownVars
  <2>6. Locked' /\ Watched' /\ Drained'
    BY <2>1, <2>3 DEF PInv, Locked, Watched, Drained, shutdownVars
  <2> QED
    BY <2>5, <2>6 DEF PInv
<1> QED
  BY <1>1, <1>2

\* main leaves ListenAndServe when no TCP query waits for a permit, and returns
\* when no request has the lock.
LEMMA MainPInv ==
  ASSUME PInv, MainStep, main \notin {"exited", "failed"}
  PROVE  PInv'
<1> USE DEF serviceVars, shutdownVars, Listeners, MainStates, ListenerStates
<1>1. CASE BootFails \/ Start \/ BlackholeFails
  <2>1. ProcessTypeOK'
    BY <1>1 DEF BootFails, Start, BlackholeFails, PInv, ProcessTypeOK
  <2>2. Locked' /\ Watched' /\ Drained'
    BY <1>1 DEF BootFails, Start, BlackholeFails, PInv, Locked, Watched, Drained
  <2> QED
    BY <2>1, <2>2 DEF PInv
<1>2. CASE AddServer
  <2>1. servers' \in { <<>>, <<"udp">>, <<"udp", "tcp">> }
    <3>1. CASE servers = <<>>
      BY <1>2, <3>1 DEF AddServer
    <3>2. CASE servers = <<"udp">>
      <4>1. servers # <<>> /\ servers' = Append(servers, "tcp")
        BY <1>2, <3>2 DEF AddServer
      <4>2. Append(<<"udp">>, "tcp") = <<"udp", "tcp">>
        <5> DEFINE a == Append(<<"udp">>, "tcp")
        <5>1. <<"udp">> \in Seq(Listeners) /\ Len(<<"udp">>) = 1
          BY DEF Listeners
        <5>2. a \in Seq(Listeners) /\ Len(a) = 2 /\ a[1] = "udp" /\ a[2] = "tcp"
          BY <5>1 DEF Listeners
        <5> HIDE DEF a
        <5>3. a = <<"udp", "tcp">>
          BY <5>2
        <5> QED
          BY <5>3 DEF a
      <4> QED
        BY <3>2, <4>1, <4>2
    <3>3. CASE servers = <<"udp", "tcp">>
      BY <1>2, <3>3 DEF AddServer
    <3> QED
      BY <3>1, <3>2, <3>3 DEF PInv, ProcessTypeOK
  <2>2. ProcessTypeOK'
    BY <1>2, <2>1 DEF AddServer, PInv, ProcessTypeOK
  <2>3. Locked' /\ Watched' /\ Drained'
    BY <1>2 DEF AddServer, PInv, Locked, Watched, Drained
  <2> QED
    BY <2>2, <2>3 DEF PInv
<1>3. CASE ListenUdp \/ ListenTcp
  <2>0. listener' \in [Listeners -> ListenerStates] /\ main' \in MainStates
    BY <1>3 DEF ListenUdp, ListenTcp, PInv, ProcessTypeOK
  <2>1. ProcessTypeOK'
    <3>1. UNCHANGED <<serviceVars, servers, via, shutdownVars>>
      BY <1>3 DEF ListenUdp, ListenTcp
    <3> HIDE DEF Listeners, MainStates, ListenerStates
    <3> QED
      BY <2>0, <3>1 DEF PInv, ProcessTypeOK
  <2>2. Locked' /\ Watched'
    BY <1>3 DEF ListenUdp, ListenTcp, PInv, Locked, Watched, ProcessTypeOK
  <2>3. Drained'
    BY <1>3 DEF ListenUdp, ListenTcp, PInv, Drained, ProcessTypeOK
  <2> QED
    BY <2>1, <2>2, <2>3 DEF PInv
<1>4. ASSUME NEW l \in Listeners, ListenEnds(l) PROVE PInv'
  <2>1. ProcessTypeOK'
    BY <1>4 DEF ListenEnds, PInv, ProcessTypeOK
  <2>2. Locked' /\ Watched'
    BY <1>4 DEF ListenEnds, PInv, Locked, Watched, ProcessTypeOK
  <2>3. Drained'
    BY <1>4 DEF ListenEnds, Handlers, PInv, Drained, ProcessTypeOK
  <2> QED
    BY <2>1, <2>2, <2>3 DEF PInv
<1>5. ASSUME NEW l \in Listeners, ListenBreaks(l) PROVE PInv'
  <2>1. ProcessTypeOK'
    BY <1>5 DEF ListenBreaks, PInv, ProcessTypeOK
  <2>2. Locked' /\ Watched'
    BY <1>5 DEF ListenBreaks, PInv, Locked, Watched, ProcessTypeOK
  <2>3. Drained'
    BY <1>5 DEF ListenBreaks, Handlers, PInv, Drained, ProcessTypeOK
  <2> QED
    BY <2>1, <2>2, <2>3 DEF PInv
<1>6. CASE Exit
  <2>1. ProcessTypeOK'
    BY <1>6 DEF Exit, PInv, ProcessTypeOK
  <2>2. \A r \in Requests : request[r] \notin {"ranging", "waiting"}
    BY <1>6, ProcessAssumption DEF Exit, PInv, Locked
  <2>3. Locked' /\ Watched' /\ Drained'
    BY <1>6, <2>2, ProcessAssumption DEF Exit, PInv, Locked, Watched, Drained
  <2> QED
    BY <2>1, <2>3 DEF PInv
<1> QED
  BY <1>1, <1>2, <1>3, <1>4, <1>5, <1>6 DEF MainStep

\* A request works on the listeners only with the lock, and leaves a stopping
\* one only when that has stopped or after 5 seconds.
LEMMA RequestPInv ==
  ASSUME PInv, NEW r \in Requests, main \notin {"exited", "failed"},
         AskShutdown(r) \/ LockShutdown(r) \/ RangeTorn(r) \/ ShutdownStep(r)
  PROVE  PInv'
<1> USE DEF serviceVars, RequestStates
<1>0. /\ left \in [Requests -> Slices] /\ request \in [Requests -> RequestStates]
      /\ listener \in [Listeners -> ListenerStates]
      /\ servers \in Slices
  BY DEF PInv, ProcessTypeOK, Slices
<1>1. CASE AskShutdown(r)
  <2>1. ProcessTypeOK'
    BY <1>1 DEF AskShutdown, PInv, ProcessTypeOK
  <2>2. Locked' /\ Watched' /\ Drained'
    BY <1>0, <1>1 DEF AskShutdown, PInv, Locked, Watched, Drained
  <2> QED
    BY <2>1, <2>2 DEF PInv
<1>2. CASE LockShutdown(r)
  <2>0. left' \in [Requests -> Slices]
    BY <1>0, <1>2 DEF LockShutdown
  <2>1. ProcessTypeOK'
    BY <1>2, <2>0 DEF LockShutdown, PInv, ProcessTypeOK, Slices
  <2>2. \A p \in Requests : request[p] \notin {"ranging", "waiting"}
    BY <1>2, ProcessAssumption DEF LockShutdown, PInv, Locked
  <2>3. Locked' /\ Watched' /\ Drained'
    BY <1>0, <1>2, <2>2, ProcessAssumption DEF LockShutdown, PInv, Locked, Watched, Drained
  <2> QED
    BY <2>1, <2>3 DEF PInv
<1>3. CASE Skip(r)
  <2>1. left' = [left EXCEPT ![r] = Tail(left[r])] /\ left[r] # <<>>
    BY <1>3 DEF Skip
  <2>2. left' \in [Requests -> Slices]
    BY <1>0, <2>1, SliceFacts
  <2>3. ProcessTypeOK'
    BY <1>3, <2>2 DEF Skip, PInv, ProcessTypeOK, Slices
  <2>4. \A p \in Requests : request[p] = "waiting" => left'[p] = left[p]
    BY <1>0, <1>3, <2>1 DEF Skip
  <2>5. Locked' /\ Watched' /\ Drained'
    BY <1>3, <2>4 DEF Skip, PInv, Locked, Watched, Drained
  <2> QED
    BY <2>3, <2>5 DEF PInv
<1>4. CASE TellStop(r)
  <2> DEFINE h == Head(left[r])
  <2>1. h \in Listeners /\ left[r] # <<>> /\ listener[h] = "up"
    BY <1>0, <1>4, SliceFacts DEF TellStop
  <2>2. listener' = [listener EXCEPT ![h] = "stopping"] /\ request' = [request EXCEPT ![r] = "waiting"]
        /\ UNCHANGED <<serviceVars, main, servers, via, mutex, left, gaveUp>>
    BY <1>4 DEF TellStop
  <2>3. ProcessTypeOK'
    BY <1>0, <2>1, <2>2 DEF PInv, ProcessTypeOK, ListenerStates, Listeners
  <2>4. Locked'
    BY <1>0, <1>4, <2>1, <2>2 DEF TellStop, PInv, Locked
  <2>5. Watched'
    <3>1. CASE h = "udp"
      BY <1>0, <2>2, <3>1 DEF Watched
    <3>2. CASE h # "udp"
      BY <1>0, <2>1, <2>2, <3>2 DEF PInv, Watched
    <3> QED
      BY <3>1, <3>2
  <2>6. Drained'
    BY <1>0, <2>1, <2>2 DEF PInv, Drained, ProcessTypeOK
  <2> QED
    BY <2>3, <2>4, <2>5, <2>6 DEF PInv
<1>5. CASE SeeStopped(r) \/ TimeOut(r)
  <2> DEFINE h == Head(left[r])
  <2>1. /\ request[r] = "waiting" /\ request' = [request EXCEPT ![r] = "ranging"]
        /\ left' = [left EXCEPT ![r] = Tail(left[r])]
        /\ UNCHANGED <<serviceVars, main, servers, listener, via, mutex>>
        /\ gaveUp' \in {gaveUp, gaveUp \cup {h}}
        /\ listener[h] = "stopped" \/ h \in gaveUp'
    BY <1>5 DEF SeeStopped, TimeOut
  <2>2. left[r] # <<>>
    BY <2>1 DEF PInv, Locked
  <2>3. h \in Listeners /\ left' \in [Requests -> Slices]
    BY <1>0, <2>1, <2>2, SliceFacts
  <2>4. ProcessTypeOK'
    BY <1>0, <2>1, <2>3 DEF PInv, ProcessTypeOK, Slices, Listeners
  <2>5. Locked'
    BY <1>0, <2>1 DEF PInv, Locked
  <2>6. Watched'
    BY <1>0, <2>1 DEF PInv, Watched
  <2>7. Drained'
    BY <2>1 DEF PInv, Drained
  <2> QED
    BY <2>4, <2>5, <2>6, <2>7 DEF PInv
<1>6. CASE UnlockShutdown(r)
  <2>1. ProcessTypeOK'
    BY <1>6 DEF UnlockShutdown, PInv, ProcessTypeOK
  <2>2. \A p \in Requests : request[p] \in {"ranging", "waiting"} => p = r
    BY <1>6 DEF UnlockShutdown, PInv, Locked
  <2>3. Locked' /\ Watched' /\ Drained'
    BY <1>0, <1>6, <2>2, ProcessAssumption DEF UnlockShutdown, PInv, Locked, Watched, Drained
  <2> QED
    BY <2>1, <2>3 DEF PInv
<1>7. CASE RangeTorn(r)
  <2>1. ProcessTypeOK'
    BY <1>7 DEF RangeTorn, PInv, ProcessTypeOK, MainStates
  <2>2. Locked' /\ Watched' /\ Drained'
    BY <1>0, <1>7 DEF RangeTorn, PInv, Locked, Watched, Drained
  <2> QED
    BY <2>1, <2>2 DEF PInv
<1> QED
  BY <1>1, <1>2, <1>3, <1>4, <1>5, <1>6, <1>7 DEF ShutdownStep

-----------------------------------------------------------------------------

\* The invariant holds in every reachable state.
LEMMA PInvariance == ProcessSpec => []PInv
<1>1. ProcessInit => PInv
  BY InitPInv
<1>2. PInv /\ [ProcessNext]_processVars => PInv'
  <2> SUFFICES ASSUME PInv, [ProcessNext]_processVars PROVE PInv'
    OBVIOUS
  <2>1. CASE UNCHANGED processVars
    BY <2>1 DEF processVars, serviceVars, shutdownVars, PInv, ProcessTypeOK, Locked, Watched, Drained
  <2>2. CASE ProcessNext
    BY <2>2, QueryPInv, MainPInv, RequestPInv DEF ProcessNext
  <2> QED
    BY <2>1, <2>2
<1> QED
  BY <1>1, <1>2, PTL DEF ProcessSpec

\* The process keeps its shape through start, service and shutdown: Shutdown
\* visits listeners only, in the order main added them (main.go:98, 107).
THEOREM ProcessTypeCorrect == ProcessSpec => []ProcessTypeOK
<1>1. PInv => ProcessTypeOK
  BY DEF PInv
<1> QED
  BY <1>1, PInvariance, PTL

\* The mutex of Shutdown is had by the one request that is in its loop, or by
\* main after its last statement, and by nobody who has forgotten it
\* (main.go:105, 217).
THEOREM LockIsHeld == ProcessSpec => []LockHeld
<1>1. PInv => LockHeld
  BY DEF PInv, Locked, LockHeld
<1> QED
  BY <1>1, PInvariance, PTL

\* When main returns, no query read over TCP waits for a permit, and one read
\* over UDP only if its listener came up too late for Shutdown or had its 5
\* seconds (main.go:107-112, 216), for any number of shutdowns at once.
THEOREM ShutdownsComplete == ProcessSpec => []ExitWaits
<1>1. ASSUME PInv PROVE ExitWaits
  <2> SUFFICES ASSUME main = "exited", NEW q \in Queries, via[q] # Nobody
               PROVE  via[q] = "udp" /\ (listener["udp"] = "up" \/ "udp" \in gaveUp)
    BY DEF ExitWaits
  <2>1. via[q] \in Listeners /\ listener[via[q]] \in {"up", "stopping"} /\ listener["tcp"] = "stopped"
    BY <1>1 DEF PInv, ProcessTypeOK, Drained
  <2>2. via[q] = "udp"
    BY <2>1 DEF Listeners
  <2>3. \A r \in Requests : request[r] # "waiting"
    BY <1>1, ProcessAssumption DEF PInv, Locked
  <2> QED
    BY <1>1, <2>1, <2>2, <2>3 DEF PInv, Watched
<1> QED
  BY <1>1, PInvariance, PTL

-----------------------------------------------------------------------------
(* The queries the process leaves behind *)

\* The process does with a query what QueryService does, or nothing.
LEMMA ProcessStepIsServiceStep == [ProcessNext]_processVars => [ServiceNext]_serviceVars
<1> SUFFICES ASSUME [ProcessNext]_processVars PROVE [ServiceNext]_serviceVars
  OBVIOUS
<1>1. ASSUME NEW q \in Queries, QueryStep(q) PROVE ServiceNext
  BY <1>1 DEF QueryStep, Handle, Work, ServiceNext
<1>2. ASSUME NEW q \in Queries, NEW l \in Listeners, Read(q, l) PROVE UNCHANGED serviceVars
  BY <1>2 DEF Read
<1>3. CASE MainStep
  BY <1>3 DEF MainStep, BootFails, AddServer, Start, BlackholeFails, ListenUdp, ListenTcp,
              ListenEnds, ListenBreaks, Exit
<1>4. ASSUME NEW r \in Requests,
             AskShutdown(r) \/ LockShutdown(r) \/ RangeTorn(r) \/ ShutdownStep(r)
      PROVE  UNCHANGED serviceVars
  BY <1>4 DEF AskShutdown, LockShutdown, RangeTorn, ShutdownStep, Skip, TellStop,
              SeeStopped, TimeOut, UnlockShutdown
<1>5. CASE UNCHANGED processVars
  BY <1>5 DEF processVars
<1> QED
  BY <1>1, <1>2, <1>3, <1>4, <1>5 DEF ProcessNext

\* What holds of every server that keeps QueryService's promise holds in the
\* process, from its start to its end.
LEMMA ServiceInProcess == ProcessSpec => []SvcInv
<1>1. ProcessInit => ServiceInit
  BY DEF ProcessInit
<1>2. ProcessSpec => ServiceSpec
  BY <1>1, ProcessStepIsServiceStep, PTL DEF ProcessSpec, ServiceSpec
<1> QED
  BY <1>2, ServiceInvariance, PTL

\* A waiting query has its handler with it.
Attended == \A q \in Queries : status[q] = "queued" => via[q] # Nobody

\* The handler of a query comes with it and returns when it has its permit.
LEMMA AttendedStep ==
  ASSUME PInv, Attended, [ProcessNext]_processVars
  PROVE  Attended'
<1>0. /\ status \in [Queries -> Statuses]
      /\ via \in [Queries -> Listeners \cup {Nobody}] /\ Nobody \notin Listeners
  BY ProcessAssumption DEF PInv, ProcessTypeOK, Listeners
<1>1. CASE UNCHANGED <<status, via>>
  BY <1>1 DEF Attended
<1>2. ASSUME NEW q \in Queries, NEW l \in Listeners, Read(q, l) PROVE Attended'
  <2>1. UNCHANGED status /\ \A p \in Queries : via'[p] \in {via[p], l}
    BY <1>0, <1>2 DEF Read, serviceVars
  <2> QED
    BY <1>0, <2>1 DEF Attended
<1>3. ASSUME NEW q \in Queries, QueryStep(q) PROVE Attended'
  <2>1. via' = Returned /\ (Handle(q) \/ Answer(q) \/ Finish(q))
    BY <1>3 DEF QueryStep, Handle, Work
  <2>2. ASSUME NEW p \in Queries, status'[p] = "queued"
        PROVE  via[p] # Nobody
    <3>1. CASE status[p] = "queued"
      BY <3>1 DEF Attended
    <3>2. CASE status[p] # "queued"
      <4>1. Handle(q) /\ p = q
        BY <1>0, <2>1, <2>2, <3>2 DEF Handle, Receive, Answer, Finish
      <4> QED
        BY <4>1 DEF Handle
    <3> QED
      BY <3>1, <3>2
  <2> QED
    BY <2>1, <2>2 DEF Attended, Returned
<1>4. CASE MainStep
  BY <1>1, <1>4 DEF MainStep, BootFails, AddServer, Start, BlackholeFails, ListenUdp,
                    ListenTcp, ListenEnds, ListenBreaks, Exit, serviceVars
<1>5. ASSUME NEW r \in Requests,
             AskShutdown(r) \/ LockShutdown(r) \/ RangeTorn(r) \/ ShutdownStep(r)
      PROVE  UNCHANGED <<status, via>>
  BY <1>5 DEF AskShutdown, LockShutdown, RangeTorn, ShutdownStep, Skip, TellStop,
              SeeStopped, TimeOut, UnlockShutdown, serviceVars
<1>6. CASE UNCHANGED processVars
  BY <1>1, <1>6 DEF processVars, serviceVars
<1> QED
  BY <1>1, <1>2, <1>3, <1>4, <1>5, <1>6 DEF ProcessNext

\* No query waits without a handler, in any reachable state.
LEMMA AttendedInvariance == ProcessSpec => []Attended
<1>1. ProcessInit => Attended
  BY DEF ProcessInit, ServiceInit, Attended
<1>2. PInv /\ Attended /\ [ProcessNext]_processVars => Attended'
  BY AttendedStep
<1> QED
  BY <1>1, <1>2, PInvariance, PTL DEF ProcessSpec

\* When main returns, no query waits in the semaphore's queue either, unless it
\* came over UDP and its listener was too late for Shutdown or had its 5 seconds
\* (mutex_server.go:241, main.go:107-112), for any number of queries and permits.
THEOREM NobodyLeftWaiting == ProcessSpec => []NobodyWaiting
<1>1. PInv /\ SvcInv /\ Attended /\ ExitWaits => NobodyWaiting
  <2> SUFFICES ASSUME PInv, SvcInv, Attended, ExitWaits, main = "exited",
                      listener["udp"] # "up", "udp" \notin gaveUp, queue # <<>>
               PROVE  FALSE
    BY DEF NobodyWaiting
  <2>1. 1 \in 1..Len(queue) /\ queue[1] \in Queries
    BY DEF PInv, ProcessTypeOK
  <2>2. via[queue[1]] # Nobody
    BY <2>1 DEF SvcInv, InTurn, Attended
  <2> QED
    BY <2>1, <2>2 DEF ExitWaits
<1> QED
  BY <1>1, PInvariance, ServiceInProcess, AttendedInvariance, ShutdownsComplete, PTL
=============================================================================
