---------------------------- MODULE ConnLifeOwners ----------------------------
(***************************************************************************)
(* What ConnLife comes to, for any number of upstreams, connections and    *)
(* workers: the abstract pool, too, loses no connection and shares none.   *)
(***************************************************************************)
EXTENDS ConnLife, TLAPS

\* Connections and upstreams, and nothing else, are where they should be.
LifeTypeOK ==
  /\ home \in [Conns -> Upstreams \cup {NoUpstream}]
  /\ spare \subseteq Conns /\ purged \subseteq Conns
  /\ lent \in [Workers -> Conns \cup {NoConn}]

LInv == LifeTypeOK /\ OneOwner

\* A purge takes spare connections.
LEMMA PurgeTakesSpare ==
  ASSUME NEW u, NEW gone \in MayPurge(u)
  PROVE  gone \subseteq spare
  BY DEF MayPurge, Kin

\* Nobody's connection is dialled or borrowed: it becomes the worker's alone.
LEMMA TakeLInv ==
  ASSUME NoConn \notin Conns, NoUpstream \notin Upstreams, LInv,
         NEW w \in Workers, Dial(w) \/ Borrow(w)
  PROVE  LInv'
<1> USE DEF LInv, LifeTypeOK, OneOwner
<1>1. PICK c \in Conns : lent' = [lent EXCEPT ![w] = c] /\ \A v \in Workers : lent[v] # c
  BY DEF Dial, Borrow
<1>2. CASE Dial(w)
  <2>1. PICK u \in Upstreams, d \in Conns : /\ lent' = [lent EXCEPT ![w] = d]
                                            /\ home[d] = NoUpstream
                                            /\ home' = [home EXCEPT ![d] = u]
    BY <1>2 DEF Dial
  <2>2. lent[w] = NoConn /\ UNCHANGED <<spare, purged>>
    BY <1>2 DEF Dial
  <2>3. LifeTypeOK'
    BY <2>1, <2>2
  <2>4. OneOwner'
    BY <2>1, <2>2
  <2> QED
    BY <2>3, <2>4
<1>3. CASE Borrow(w)
  <2>1. PICK d \in spare : lent' = [lent EXCEPT ![w] = d] /\ spare' = spare \ {d}
    BY <1>3 DEF Borrow
  <2>2. lent[w] = NoConn /\ UNCHANGED <<home, purged>>
    BY <1>3 DEF Borrow
  <2> QED
    BY <2>1, <2>2
<1> QED
  BY <1>2, <1>3

\* A connection that is given back goes to nobody else, and the purge that may
\* come with it takes others.
LEMMA ReturnLInv ==
  ASSUME NoConn \notin Conns, LInv, NEW w \in Workers, Return(w)
  PROVE  LInv'
<1> USE DEF LInv, LifeTypeOK, OneOwner
<1>1. PICK gone \in MayPurge(home[lent[w]]) :
        spare' = (spare \ gone) \cup {lent[w]} /\ purged' = purged \cup gone
  BY DEF Return
<1>2. gone \subseteq spare
  BY PurgeTakesSpare
<1>3. /\ lent[w] \in Conns /\ lent' = [lent EXCEPT ![w] = NoConn] /\ UNCHANGED home
  BY DEF Return
<1> QED
  BY <1>1, <1>2, <1>3

\* A worker that closes its connection is the only one that has it.
LEMMA DropLInv ==
  ASSUME NoConn \notin Conns, LInv, NEW w \in Workers, Drop(w)
  PROVE  LInv'
<1> USE DEF LInv, LifeTypeOK, OneOwner
<1>1. PICK gone \in MayPurge(home[lent[w]]) :
        spare' = spare \ gone /\ purged' = purged \cup gone
  BY DEF Drop
<1>2. gone \subseteq spare
  BY PurgeTakesSpare
<1>3. /\ lent[w] \in Conns /\ lent' = [lent EXCEPT ![w] = NoConn]
      /\ home' = [home EXCEPT ![lent[w]] = NoUpstream]
  BY DEF Drop
<1> QED
  BY <1>1, <1>2, <1>3

\* A goroutine of a purge closes what only it has.
LEMMA CloseLInv ==
  ASSUME NoConn \notin Conns, LInv, NEW c \in Conns, Close(c)
  PROVE  LInv'
<1> USE DEF LInv, LifeTypeOK, OneOwner
<1>1. PICK gone \in MayPurge(home[c]) :
        spare' = spare \ gone /\ purged' = (purged \ {c}) \cup gone
  BY DEF Close
<1>2. gone \subseteq spare
  BY PurgeTakesSpare
<1>3. c \in purged /\ UNCHANGED lent /\ home' = [home EXCEPT ![c] = NoUpstream]
  BY DEF Close
<1> QED
  BY <1>1, <1>2, <1>3

\* A purge moves spare connections to where they are closed.
LEMMA PurgeLInv ==
  ASSUME LInv, NEW u \in Upstreams, Purge(u)
  PROVE  LInv'
<1> USE DEF LInv, LifeTypeOK, OneOwner
<1>1. Kin(u) \subseteq spare
  BY DEF Kin
<1> QED
  BY <1>1 DEF Purge

\* Every open connection of the abstract pool has exactly one owner, and every
\* owner's connection is open, whatever is purged when (connpool.go:295).
THEOREM LivesAreOwned ==
  ASSUME NoConn \notin Conns, NoUpstream \notin Upstreams
  PROVE  LifeSpec => []OneOwner
<1>1. LifeInit => LInv
  BY DEF LifeInit, LInv, LifeTypeOK, OneOwner
<1>2. LInv /\ [LifeNext]_lifeVars => LInv'
  <2>1. CASE UNCHANGED lifeVars
    BY <2>1 DEF lifeVars, LInv, LifeTypeOK, OneOwner
  <2> QED
    BY <2>1, TakeLInv, ReturnLInv, DropLInv, CloseLInv, PurgeLInv DEF LifeNext
<1>3. LInv => OneOwner
  BY DEF LInv
<1> QED
  BY <1>1, <1>2, <1>3, PTL DEF LifeSpec
===============================================================================
