------------------------------- MODULE ConnLife -------------------------------
(***************************************************************************)
(* What the pool of upstream connections (connpool.go) promises of each    *)
(* connection, without lists, weights and cooldowns: it is dialled by a    *)
(* worker, lent to one worker at a time, idle in between, and closed once, *)
(* by the worker that has it or because its upstream was purged.  A purge  *)
(* takes every idle connection of one upstream, and none of another.       *)
(*                                                                         *)
(* ConnPool is shown to implement this.                                    *)
(***************************************************************************)
CONSTANTS Upstreams, Conns, Workers, NoUpstream, NoConn

VARIABLES
  home,    \* home[c]: the upstream c is connected to, NoUpstream if c is not open
  spare,   \* the connections nobody uses
  lent,    \* lent[w]: the connection worker w has
  purged   \* the connections about to be closed by a goroutine

lifeVars == <<home, spare, lent, purged>>

\* What a purge of u takes.
Kin(u) == { c \in spare : home[c] = u }

\* Purging u, or no purge at all.
MayPurge(u) == {{}, Kin(u)}

\* A worker dials.
Dial(w) ==
  /\ lent[w] = NoConn
  /\ \E c \in Conns : /\ lent' = [lent EXCEPT ![w] = c]
                      /\ home[c] = NoUpstream
                      /\ \E u \in Upstreams : home' = [home EXCEPT ![c] = u]
  /\ UNCHANGED <<spare, purged>>

\* A worker borrows.
Borrow(w) ==
  /\ lent[w] = NoConn
  /\ \E c \in spare : /\ lent' = [lent EXCEPT ![w] = c]
                      /\ spare' = spare \ {c}
  /\ UNCHANGED <<home, purged>>

\* A worker gives its connection back.  The others of its upstream may be
\* purged, not this one.
Return(w) ==
  /\ lent[w] # NoConn
  /\ lent' = [lent EXCEPT ![w] = NoConn]
  /\ UNCHANGED home
  /\ \E gone \in MayPurge(home[lent[w]]) :
       /\ spare' = (spare \ gone) \cup {lent[w]}
       /\ purged' = purged \cup gone

\* A worker closes its connection.
Drop(w) ==
  /\ lent[w] # NoConn
  /\ lent' = [lent EXCEPT ![w] = NoConn]
  /\ home' = [home EXCEPT ![lent[w]] = NoUpstream]
  /\ \E gone \in MayPurge(home[lent[w]]) :
       /\ spare' = spare \ gone
       /\ purged' = purged \cup gone

\* An upstream is purged on its own.
Purge(u) ==
  /\ UNCHANGED <<lent, home>>
  /\ spare' = spare \ Kin(u)
  /\ purged' = purged \cup Kin(u)

\* A goroutine closes the purged connection it was started for.
Close(c) ==
  /\ c \in purged
  /\ UNCHANGED lent
  /\ home' = [home EXCEPT ![c] = NoUpstream]
  /\ \E gone \in MayPurge(home[c]) :
       /\ spare' = spare \ gone
       /\ purged' = (purged \ {c}) \cup gone

LifeInit ==
  /\ home = [c \in Conns |-> NoUpstream]
  /\ spare = {}
  /\ lent = [w \in Workers |-> NoConn]
  /\ purged = {}

LifeNext ==
  \/ \E w \in Workers : Dial(w) \/ Borrow(w) \/ Return(w) \/ Drop(w)
  \/ \E u \in Upstreams : Purge(u)
  \/ \E c \in Conns : Close(c)

LifeSpec == LifeInit /\ [][LifeNext]_lifeVars

-----------------------------------------------------------------------------
(* Properties *)

\* A connection is open exactly as long as it has an owner, and then it has
\* one: it is spare, about to be closed, or one worker's (connpool.go:295).
\* None leaks and none is closed under somebody's hands, whichever upstream is
\* purged in between.
OneOwner ==
  /\ \A c \in Conns :
       home[c] # NoUpstream <=> c \in spare \cup purged \/ \E w \in Workers : lent[w] = c
  /\ spare \cap purged = {}
  /\ \A w \in Workers : lent[w] \notin spare \cup purged
  /\ \A v, w \in Workers : lent[v] = lent[w] => v = w \/ lent[v] = NoConn
===============================================================================
