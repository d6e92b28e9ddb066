--------------------------- MODULE ConnPoolProofs ---------------------------
(***************************************************************************)
(* Proofs about ConnPool, for any number of upstreams, connections,        *)
(* workers and weights.                                                    *)
(***************************************************************************)
EXTENDS ConnPool, FiniteSetTheorems, WellFoundedInduction, TLAPS

-----------------------------------------------------------------------------
(* Sequences, as Get and Add use them *)

USE PoolAssumption

\* What is left of a list when Get pops its head (conns[i], conns[j:] in Get).
LEMMA TailFacts ==
  ASSUME NEW S, NEW s \in Seq(S), s # <<>>
  PROVE  /\ 1 \in DOMAIN s /\ Head(s) = s[1] /\ Head(s) \in S
         /\ Tail(s) \in Seq(S)
         /\ \A i \in DOMAIN Tail(s) : i + 1 \in DOMAIN s /\ Tail(s)[i] = s[i+1]
         /\ \A i \in DOMAIN s :
              i = 1 \/ (i - 1 \in DOMAIN Tail(s) /\ Tail(s)[i-1] = s[i])
         /\ DOMAIN s \subseteq Nat /\ DOMAIN Tail(s) \subseteq Nat
  OBVIOUS

\* What Add's append does to a list.
LEMMA AppendFacts ==
  ASSUME NEW S, NEW s \in Seq(S), NEW e \in S
  PROVE  /\ Append(s, e) \in Seq(S)
         /\ \A i \in DOMAIN s : i \in DOMAIN Append(s, e) /\ Append(s, e)[i] = s[i]
         /\ \A i \in DOMAIN Append(s, e) :
              \/ i \in DOMAIN s /\ Append(s, e)[i] = s[i]
              \/ i = Len(s) + 1 /\ Append(s, e)[i] = e
         /\ Len(s) + 1 \in DOMAIN Append(s, e) /\ Append(s, e)[Len(s) + 1] = e
         /\ Len(s) + 1 \notin DOMAIN s
  OBVIOUS

\* purgeUpstream starts one goroutine for a connection that is in the list
\* once, and none for one that is not in it.
LEMMA OccursOnce ==
  ASSUME NEW s, NEW c,
         \A i, j \in DOMAIN s : s[i] = s[j] => i = j
  PROVE  Occurrences(c, s) = IF \E i \in DOMAIN s : s[i] = c THEN 1 ELSE 0
<1>1. CASE \E i \in DOMAIN s : s[i] = c
  <2>1. PICK i \in DOMAIN s : s[i] = c
    BY <1>1
  <2>2. { j \in DOMAIN s : s[j] = c } = {i}
    BY <2>1
  <2>3. Cardinality({i}) = 1
    BY FS_Singleton
  <2> QED
    BY <1>1, <2>2, <2>3 DEF Occurrences
<1>2. CASE ~ \E i \in DOMAIN s : s[i] = c
  <2>1. { j \in DOMAIN s : s[j] = c } = {}
    BY <1>2
  <2> QED
    BY <1>2, <2>1, FS_EmptySet DEF Occurrences
<1> QED
  BY <1>1, <1>2

\* A nonempty set of positions has a first one.
LEMMA MinFacts ==
  ASSUME NEW S, S \subseteq Nat, S # {}
  PROVE  Min(S) \in S /\ \A x \in S : Min(S) <= x
<1>1. PICK x \in S : \A y \in S : ~(<<y, x>> \in OpToRel(<, Nat))
  BY WFMin, NatLessThanWellFounded, Zenon
<1>2. ASSUME NEW y \in S, y < x PROVE FALSE
  <2>1. <<y, x>> \in Nat \X Nat /\ <<y, x>>[1] = y /\ <<y, x>>[2] = x
    OBVIOUS
  <2>2. <<y, x>> \in OpToRel(<, Nat)
    BY <1>2, <2>1, Zenon DEF OpToRel
  <2> QED
    BY <1>1, <2>2
<1>3. \A y \in S : x <= y
  BY <1>2
<1> QED
  BY <1>3 DEF Min

-----------------------------------------------------------------------------
(* The lists of the pool: all the connections in them, and the three ways    *)
(* they change                                                               *)

Listed(I, c) == \E u \in Upstreams : \E i \in DOMAIN I[u] : I[u][i] = c

\* No connection has two places.
Distinct(I) ==
  \A u, v \in Upstreams : \A i \in DOMAIN I[u], j \in DOMAIN I[v] :
    I[u][i] = I[v][j] => u = v /\ i = j

\* Everything in a list of J was in the same list of I ...
Within(J, I) ==
  \A v \in Upstreams : \A i \in DOMAIN J[v] : \E j \in DOMAIN I[v] : I[v][j] = J[v][i]

\* ... but for c in u's.
Inherits(J, I, u, c) ==
  \A v \in Upstreams : \A i \in DOMAIN J[v] :
    \/ \E j \in DOMAIN I[v] : I[v][j] = J[v][i]
    \/ v = u /\ J[v][i] = c

\* What Get does to the lists: the popped connection is in none, all others stay.
LEMMA PopFacts ==
  ASSUME NEW I \in [Upstreams -> Seq(Conns)], Distinct(I),
         NEW u \in Upstreams, I[u] # <<>>,
         NEW J, J = [I EXCEPT ![u] = Tail(@)]
  PROVE  /\ J \in [Upstreams -> Seq(Conns)] /\ Distinct(J)
         /\ Listed(I, Head(I[u])) /\ Head(I[u]) \in Conns
         /\ \A d \in Conns : Listed(J, d) <=> Listed(I, d) /\ d # Head(I[u])
         /\ Within(J, I)
<1> DEFINE s == I[u]
           t == Tail(I[u])
<1>1. s \in Seq(Conns) /\ J \in [Upstreams -> Seq(Conns)] /\ J[u] = t
        /\ \A v \in Upstreams : v # u => J[v] = I[v]
  BY TailFacts
<1>2. /\ 1 \in DOMAIN s /\ Head(s) = s[1] /\ Head(s) \in Conns
      /\ \A i \in DOMAIN t : i + 1 \in DOMAIN s /\ t[i] = s[i+1]
      /\ \A i \in DOMAIN s : i = 1 \/ (i - 1 \in DOMAIN t /\ t[i-1] = s[i])
      /\ DOMAIN s \subseteq Nat /\ DOMAIN t \subseteq Nat
  BY <1>1, TailFacts
<1>3. \A i, j \in DOMAIN t : t[i] = t[j] => i = j
  BY <1>2 DEF Distinct
<1>4. \A i \in DOMAIN t : t[i] # Head(s)
  BY <1>2 DEF Distinct
<1>5. \A i \in DOMAIN t : \E j \in DOMAIN s : s[j] = t[i]
  BY <1>2
<1>6. \A j \in DOMAIN s : s[j] # Head(s) => \E i \in DOMAIN t : t[i] = s[j]
  BY <1>2
<1>7. \A v \in Upstreams : v # u => \A j \in DOMAIN I[v] : I[v][j] # Head(s)
  BY <1>2 DEF Distinct
<1> HIDE DEF s, t
<1>8. Distinct(J)
  <2> SUFFICES ASSUME NEW v \in Upstreams, NEW x \in Upstreams,
                      NEW i \in DOMAIN J[v], NEW j \in DOMAIN J[x], J[v][i] = J[x][j]
               PROVE  v = x /\ i = j
    BY DEF Distinct
  <2>1. CASE v = u /\ x = u
    BY <2>1, <1>1, <1>3
  <2>2. CASE v # u \/ x # u
    BY <2>2, <1>1, <1>5 DEF Distinct, s
  <2> QED
    BY <2>1, <2>2
<1>9. \A d \in Conns : Listed(J, d) <=> Listed(I, d) /\ d # Head(s)
  <2> TAKE d \in Conns
  <2>1. Listed(J, d) => Listed(I, d) /\ d # Head(s)
    BY <1>1, <1>4, <1>5, <1>7 DEF Listed, s
  <2>2. ASSUME Listed(I, d), d # Head(s) PROVE Listed(J, d)
    <3>1. PICK v \in Upstreams : \E j \in DOMAIN I[v] : I[v][j] = d
      BY <2>2 DEF Listed
    <3>2. CASE v = u
      <4>1. \E i \in DOMAIN t : t[i] = d
        BY <2>2, <3>1, <3>2, <1>6 DEF s
      <4> QED
        BY <4>1, <1>1 DEF Listed
    <3>3. CASE v # u
      <4>1. J[v] = I[v]
        BY <3>3, <1>1
      <4> QED
        BY <3>1, <4>1 DEF Listed
    <3> QED
      BY <3>2, <3>3
  <2> QED
    BY <2>1, <2>2
<1>10. Within(J, I)
  <2> SUFFICES ASSUME NEW v \in Upstreams, NEW i \in DOMAIN J[v]
               PROVE  \E j \in DOMAIN I[v] : I[v][j] = J[v][i]
    BY DEF Within
  <2>1. CASE v = u
    BY <2>1, <1>1, <1>5 DEF s
  <2>2. CASE v # u
    BY <2>2, <1>1
  <2> QED
    BY <2>1, <2>2
<1>11. Listed(I, Head(s))
  BY <1>2 DEF Listed, s
<1> QED
  BY <1>1, <1>2, <1>8, <1>9, <1>10, <1>11 DEF s

\* What Add does to the lists: the added connection is in its upstream's list,
\* once, all others stay.
LEMMA PushFacts ==
  ASSUME NEW I \in [Upstreams -> Seq(Conns)], Distinct(I),
         NEW u \in Upstreams, NEW c \in Conns, ~Listed(I, c)
  PROVE  LET J == [I EXCEPT ![u] = Append(@, c)] IN
         /\ J \in [Upstreams -> Seq(Conns)] /\ Distinct(J)
         /\ \A d \in Conns : Listed(J, d) <=> Listed(I, d) \/ d = c
         /\ Inherits(J, I, u, c)
<1> DEFINE J == [I EXCEPT ![u] = Append(@, c)]
           s == I[u]
           t == Append(I[u], c)
           n == Len(I[u]) + 1
<1>1. s \in Seq(Conns) /\ J \in [Upstreams -> Seq(Conns)] /\ J[u] = t
        /\ \A v \in Upstreams : v # u => J[v] = I[v]
  BY AppendFacts
<1>2. /\ \A i \in DOMAIN s : i \in DOMAIN t /\ t[i] = s[i]
      /\ \A i \in DOMAIN t : (i \in DOMAIN s /\ t[i] = s[i]) \/ (i = n /\ t[i] = c)
      /\ n \in DOMAIN t /\ t[n] = c
  BY <1>1, AppendFacts
<1> HIDE DEF t, n, J
<1>3. \A v \in Upstreams : \A j \in DOMAIN I[v] : I[v][j] # c
  BY DEF Listed
<1>4. Distinct(J)
  <2> SUFFICES ASSUME NEW v \in Upstreams, NEW x \in Upstreams,
                      NEW i \in DOMAIN J[v], NEW j \in DOMAIN J[x], J[v][i] = J[x][j]
               PROVE  v = x /\ i = j
    BY DEF Distinct
  <2>1. \/ J[v][i] = c /\ v = u /\ i = n
        \/ i \in DOMAIN I[v] /\ J[v][i] = I[v][i]
    BY <1>1, <1>2
  <2>2. \/ J[x][j] = c /\ x = u /\ j = n
        \/ j \in DOMAIN I[x] /\ J[x][j] = I[x][j]
    BY <1>1, <1>2
  <2> QED
    BY <1>3, <2>1, <2>2 DEF Distinct
<1>5. \A d \in Conns : Listed(J, d) <=> Listed(I, d) \/ d = c
  <2> TAKE d \in Conns
  <2>1. ASSUME NEW v \in Upstreams, NEW i \in DOMAIN J[v], J[v][i] = d
        PROVE  Listed(I, d) \/ d = c
    BY <2>1, <1>1, <1>2 DEF Listed
  <2>2. ASSUME NEW v \in Upstreams, NEW i \in DOMAIN I[v], I[v][i] = d
        PROVE  Listed(J, d)
    BY <2>2, <1>1, <1>2 DEF Listed
  <2>3. Listed(J, c)
    BY <1>1, <1>2 DEF Listed
  <2> QED
    BY <2>1, <2>2, <2>3 DEF Listed
<1>6. Inherits(J, I, u, c)
  BY <1>1, <1>2 DEF Inherits
<1> QED
  BY <1>1, <1>4, <1>5, <1>6 DEF J

\* What purgeUpstream does to the lists: the purged one is empty, the others stay.
LEMMA EmptyFacts ==
  ASSUME NEW I \in [Upstreams -> Seq(Conns)], Distinct(I), NEW u \in Upstreams,
         NEW J, J = [I EXCEPT ![u] = <<>>]
  PROVE  /\ J \in [Upstreams -> Seq(Conns)] /\ Distinct(J)
         /\ \A d \in Conns : Listed(J, d) <=>
              Listed(I, d) /\ ~ \E i \in DOMAIN I[u] : I[u][i] = d
         /\ Within(J, I)
<1>1. J \in [Upstreams -> Seq(Conns)] /\ J[u] = <<>>
        /\ \A v \in Upstreams : v # u => J[v] = I[v]
  OBVIOUS
<1>2. DOMAIN J[u] = {}
  BY <1>1
<1>3. Distinct(J)
  BY <1>1, <1>2 DEF Distinct
<1>4. Within(J, I)
  BY <1>1, <1>2 DEF Within
<1>5. \A d \in Conns : Listed(J, d) <=>
        Listed(I, d) /\ ~ \E i \in DOMAIN I[u] : I[u][i] = d
  BY <1>1, <1>2 DEF Listed, Distinct
<1> QED
  BY <1>1, <1>3, <1>4, <1>5

-----------------------------------------------------------------------------
(* The inductive invariant *)

\* A worker has a connection exactly while it exchanges, adds or closes, and
\* an upstream to dial exactly while it dials.
Handling ==
  \A w \in Workers :
    /\ held[w] # NoConn <=> pc[w] \in {"exchanging", "adding", "closing"}
    /\ dialing[w] # NoUpstream <=> pc[w] = "dialing"

\* Neither TypeOK nor Ownership is inductive alone: that the connection a
\* worker adds has an upstream (TypeOK) is that it is still open (Accounted),
\* which needs that nobody else had it to close (Exclusive).
\* Nor is LightestFirst without the order of the list, which only
\* updateUpstream keeps.
Sorted == InOrder(order, weight)

IInv == TypeOK /\ Handling /\ Ownership /\ Sorted

\* The invariant holds of the pool AddUpstream builds (connpool.go:417).
LEMMA InitIInv == Init => IInv
<1> SUFFICES ASSUME Init PROVE IInv
  OBVIOUS
<1>1. TypeOK
  BY DEF Init, TypeOK, Entry, NoEntry
<1>2. Handling
  BY DEF Init, Handling
<1>3. Ownership
  BY DEF Init, Ownership, Exclusive, Accounted, Homed, Pooled, Held, Reaped, Open
<1>4. Sorted
  BY DEF Init, Sorted, InOrder, Orders
<1> QED
  BY <1>1, <1>2, <1>3, <1>4 DEF IInv

\* The connection a worker has is open and has an upstream of the list.
LEMMA HeldFacts ==
  ASSUME IInv, NEW w \in Workers, held[w] # NoConn
  PROVE  /\ held[w] \in Conns /\ held[w] \in Open
         /\ entry[held[w]].up \in Upstreams
         /\ entry[held[w]].weight \in Weights /\ entry[held[w]].error \in BOOLEAN
  BY DEF IInv, TypeOK, Ownership, Accounted, Held, Open, Entry, NoEntry

\* An entry that has an upstream is not the zero entry.
LEMMA EntryFacts ==
  ASSUME NEW e \in [up : Upstreams, weight : Weights, error : BOOLEAN]
  PROVE  e # NoEntry
<1>1. e.up # NoEntry.up
  BY DEF NoEntry
<1> QED
  BY <1>1

\* A connection purgeUpstream handed to a goroutine is open and in no list.
LEMMA ReapedFacts ==
  ASSUME IInv, NEW c \in Conns, Reaped(c)
  PROVE  /\ c \in Open
         /\ entry[c].up \in Upstreams
         /\ entry[c].weight \in Weights /\ entry[c].error \in BOOLEAN
         /\ reaping[c] = 1
  BY DEF IInv, TypeOK, Ownership, Exclusive, Accounted, Reaped, Open, Entry, NoEntry

\* What the invariant says of the lists.
LEMMA ListFacts ==
  ASSUME IInv
  PROVE  /\ idle \in [Upstreams -> Seq(Conns)] /\ Distinct(idle)
         /\ \A c \in Conns : Pooled(c) <=> Listed(idle, c)
         /\ \A u \in Upstreams : \A i \in DOMAIN idle[u] :
              /\ idle[u][i] \in Conns /\ idle[u][i] \in Open
              /\ reaping[idle[u][i]] = 0
<1>1. idle \in [Upstreams -> Seq(Conns)] /\ Distinct(idle)
        /\ \A c \in Conns : Pooled(c) <=> Listed(idle, c)
  BY DEF IInv, TypeOK, Ownership, Exclusive, Distinct, Pooled, Listed
<1>2. ASSUME NEW u \in Upstreams, NEW i \in DOMAIN idle[u]
      PROVE  idle[u][i] \in Conns /\ Pooled(idle[u][i])
  BY <1>1 DEF Pooled
<1>3. \A c \in Conns : Pooled(c) => c \in Open /\ reaping[c] = 0
  BY DEF IInv, TypeOK, Ownership, Exclusive, Accounted, Reaped
<1> QED
  BY <1>1, <1>2, <1>3

\* The same invariant of lists, hands and goroutine counts of any state, to
\* speak of the next state's.
HeldBy(H, c) == \E w \in Workers : H[w] = c

Unshared(I, H, R) ==
  \A c \in Conns : /\ R[c] \in Nat /\ R[c] <= 1
                  /\ ~(Listed(I, c) /\ HeldBy(H, c))
                  /\ ~(Listed(I, c) /\ R[c] > 0)
                  /\ ~(HeldBy(H, c) /\ R[c] > 0)

Kept(I, H, R, E) ==
  \A c \in Conns : E[c] # NoEntry <=> Listed(I, c) \/ HeldBy(H, c) \/ R[c] > 0

\* Who has what, said of the current state with constant operators.
LEMMA OwnershipNow ==
  ASSUME IInv
  PROVE  Unshared(idle, held, reaping) /\ Kept(idle, held, reaping, entry)
  BY DEF IInv, TypeOK, Ownership, Exclusive, Accounted, Pooled, Held, Reaped, Open,
     Unshared, Kept, Listed, HeldBy

\* Who has what, said of the next state with constant operators.
LEMMA OwnershipNext ==
  ASSUME Unshared(idle', held', reaping'), Kept(idle', held', reaping', entry'),
         Distinct(idle'),
         \A v, w \in Workers : held'[v] = held'[w] => v = w \/ held'[v] = NoConn
  PROVE  Exclusive' /\ Accounted'
<1>1. Exclusive'
  BY DEF Exclusive, Pooled, Held, Reaped, Unshared, Listed, HeldBy, Distinct
<1>2. Accounted'
  BY DEF Accounted, Open, Pooled, Held, Reaped, Kept, Listed, HeldBy
<1> QED
  BY <1>1, <1>2

\* After a purge of u: every connection that was in its list has one goroutine,
\* and no list has it.
LEMMA PurgeFacts ==
  ASSUME IInv, NEW u \in Upstreams
  PROVE  /\ Purged(u) \in [Upstreams -> Seq(Conns)] /\ Distinct(Purged(u))
         /\ \A c \in Conns : Listed(Purged(u), c) <=>
              Pooled(c) /\ ~ \E i \in DOMAIN idle[u] : idle[u][i] = c
         /\ Within(Purged(u), idle)
         /\ Reapers(u) \in [Conns -> Nat]
         /\ \A c \in Conns : Reapers(u)[c] =
              IF \E i \in DOMAIN idle[u] : idle[u][i] = c THEN 1 ELSE reaping[c]
<1>1. /\ Purged(u) \in [Upstreams -> Seq(Conns)] /\ Distinct(Purged(u))
      /\ \A c \in Conns : Listed(Purged(u), c) <=>
           Pooled(c) /\ ~ \E i \in DOMAIN idle[u] : idle[u][i] = c
      /\ Within(Purged(u), idle)
  <2>1. idle \in [Upstreams -> Seq(Conns)] /\ Distinct(idle)
          /\ \A c \in Conns : Pooled(c) <=> Listed(idle, c)
    BY ListFacts
  <2>2. Purged(u) = [idle EXCEPT ![u] = <<>>]
    BY DEF Purged
  <2> QED
    BY <2>1, <2>2, EmptyFacts
<1>3. ASSUME NEW c \in Conns
      PROVE  /\ Reapers(u)[c] = IF \E i \in DOMAIN idle[u] : idle[u][i] = c
                                THEN 1 ELSE reaping[c]
             /\ Reapers(u)[c] \in Nat
  <2>1. Occurrences(c, idle[u]) = IF \E i \in DOMAIN idle[u] : idle[u][i] = c THEN 1 ELSE 0
    BY ListFacts, OccursOnce DEF Distinct
  <2>2. (\E i \in DOMAIN idle[u] : idle[u][i] = c) => reaping[c] = 0
    BY ListFacts
  <2>3. reaping[c] \in Nat
    BY DEF IInv, TypeOK
  <2>4. Reapers(u)[c] = reaping[c] + Occurrences(c, idle[u])
    BY DEF Reapers
  <2> QED
    BY <2>1, <2>2, <2>3, <2>4
<1>4. Reapers(u) \in [Conns -> Nat]
  BY <1>3 DEF Reapers
<1> QED
  BY <1>1, <1>3, <1>4

\* What Add, CloseConnection and the reapers do to the pool before they touch
\* the connection: a connection has a new goroutine exactly if it left its list.
LEMMA UpdateFacts ==
  ASSUME IInv, NEW c \in Conns, c \in Open, UpdateUpstream(c)
  PROVE  /\ weight' \in [Upstreams -> Weights] /\ cooling' \subseteq Upstreams
         /\ order' \in Orders /\ InOrder(order', weight')
         /\ entry[c].up \in Upstreams
         /\ IdleAfterUpdate(c) \in [Upstreams -> Seq(Conns)]
         /\ Distinct(IdleAfterUpdate(c))
         /\ Within(IdleAfterUpdate(c), idle)
         /\ ReapersAfterUpdate(c) \in [Conns -> Nat]
         /\ \A d \in Conns :
              /\ Listed(IdleAfterUpdate(c), d) => Pooled(d)
              /\ ReapersAfterUpdate(c)[d] =
                   IF Pooled(d) /\ ~Listed(IdleAfterUpdate(c), d) THEN 1 ELSE reaping[d]
<1> DEFINE u == entry[c].up
<1>1. entry[c] \in [up : Upstreams, weight : Weights, error : BOOLEAN] /\ u \in Upstreams
  BY DEF IInv, TypeOK, Entry, Open
<1>2. /\ weight' \in [Upstreams -> Weights] /\ cooling' \subseteq Upstreams
      /\ order' \in Orders /\ InOrder(order', weight')
  BY <1>1 DEF UpdateUpstream, Reweighed, SortedOrders, IInv, TypeOK
<1>3. CASE entry[c].error
  <2>1. IdleAfterUpdate(c) = Purged(u) /\ ReapersAfterUpdate(c) = Reapers(u)
    BY <1>3 DEF IdleAfterUpdate, ReapersAfterUpdate
  <2>2. \A d \in Conns : (\E i \in DOMAIN idle[u] : idle[u][i] = d) => Pooled(d)
    BY <1>1 DEF Pooled
  <2> HIDE DEF u
  <2>3. /\ Purged(u) \in [Upstreams -> Seq(Conns)] /\ Distinct(Purged(u))
        /\ Within(Purged(u), idle)
        /\ Reapers(u) \in [Conns -> Nat]
    BY <1>1, PurgeFacts
  <2>4. ASSUME NEW d \in Conns
        PROVE  /\ Listed(Purged(u), d) => Pooled(d)
               /\ Reapers(u)[d] =
                    IF Pooled(d) /\ ~Listed(Purged(u), d) THEN 1 ELSE reaping[d]
    BY <1>1, <2>2, PurgeFacts
  <2> QED
    BY <1>1, <1>2, <2>1, <2>3, <2>4 DEF u
<1>4. CASE ~entry[c].error
  <2>1. IdleAfterUpdate(c) = idle /\ ReapersAfterUpdate(c) = reaping
    BY <1>4 DEF IdleAfterUpdate, ReapersAfterUpdate
  <2>2. reaping \in [Conns -> Nat]
    BY DEF IInv, TypeOK
  <2>3. Within(idle, idle)
    BY DEF Within
  <2> QED
    BY <1>1, <1>2, <2>1, <2>2, <2>3, ListFacts
<1> QED
  BY <1>1, <1>3, <1>4

\* Cardinality says how long the list is; all that matters is that it has a
\* first member.
LEMMA OrderFacts ==
  ASSUME TypeOK
  PROVE  /\ DOMAIN order \subseteq Nat /\ 1 \in DOMAIN order
         /\ \A i \in DOMAIN order : order[i] \in Upstreams
         /\ \A u \in Upstreams : \E i \in DOMAIN order : order[i] = u
<1>1. Cardinality(Upstreams) \in Nat /\ Cardinality(Upstreams) # 0
  BY FS_CardinalityType, FS_EmptySet
<1>2. order \in [1..Cardinality(Upstreams) -> Upstreams]
        /\ \A u \in Upstreams : \E i \in DOMAIN order : order[i] = u
  BY DEF TypeOK, Orders
<1> QED
  BY <1>1, <1>2

\* getBestUpstream returns one of the upstreams of the list.
LEMMA BestUpstreamIn ==
  ASSUME TypeOK
  PROVE  BestUpstream \in Upstreams
<1> DEFINE open_for_use == { i \in DOMAIN order : order[i] \in cached /\ order[i] \notin cooling }
           with_conns   == { i \in open_for_use : idle[order[i]] # <<>> }
<1>1. open_for_use \subseteq DOMAIN order /\ with_conns \subseteq DOMAIN order
  OBVIOUS
<1>2. /\ with_conns # {} => Min(with_conns) \in DOMAIN order
      /\ open_for_use # {} => Min(open_for_use) \in DOMAIN order
  BY <1>1, OrderFacts, MinFacts
<1> QED
  BY <1>2, OrderFacts DEF BestUpstream

-----------------------------------------------------------------------------
(* Every step preserves the invariant *)

\* Get takes a connection: it moves from a list to the worker.
LEMMA GetCachedIInv ==
  ASSUME IInv, NEW w \in Workers, GetCached(w)
  PROVE  IInv'
<1> DEFINE u == BestUpstream
           c == Head(idle[u])
<1>1. u \in Upstreams /\ idle[u] # <<>> /\ idle' = [idle EXCEPT ![u] = Tail(@)]
        /\ held' = [held EXCEPT ![w] = c] /\ pc' = [pc EXCEPT ![w] = "exchanging"]
        /\ pc[w] = "start"
        /\ UNCHANGED <<order, weight, cooling, cached, entry, reaping, dialing>>
  BY BestUpstreamIn DEF GetCached, connVars, IInv
<1> HIDE DEF u
<1>2. /\ idle' \in [Upstreams -> Seq(Conns)] /\ Distinct(idle')
      /\ Listed(idle, c) /\ c \in Conns
      /\ \A d \in Conns : Listed(idle', d) <=> Listed(idle, d) /\ d # c
      /\ Within(idle', idle)
  <2>1. idle \in [Upstreams -> Seq(Conns)] /\ Distinct(idle)
    BY ListFacts
  <2>2. idle' = [idle EXCEPT ![u] = Tail(@)] /\ u \in Upstreams /\ idle[u] # <<>>
    BY <1>1
  <2> DEFINE J == [idle EXCEPT ![u] = Tail(idle[u])]
  <2>3. J \in [Upstreams -> Seq(Conns)] /\ Distinct(J)
         /\ Listed(idle, Head(idle[u])) /\ Head(idle[u]) \in Conns
         /\ (\A d \in Conns : Listed(J, d) <=> Listed(idle, d) /\ d # Head(idle[u]))
         /\ Within(J, idle)
    <3> HIDE DEF c
    <3> QED BY <2>1, <2>2, PopFacts
  <2> QED
    BY <2>2, <2>3
<1> HIDE DEF c
<1>3. Pooled(c) /\ ~Held(c) /\ ~Reaped(c)
  BY <1>2, ListFacts DEF IInv, Ownership, Exclusive
<1>4. \A d \in Conns : Pooled(d)' <=> Pooled(d) /\ d # c
  BY <1>2, ListFacts DEF Pooled, Listed
<1>5. held[w] = NoConn /\ dialing[w] = NoUpstream
  BY <1>1 DEF IInv, Handling
<1>6. \A d \in Conns : Held(d)' <=> Held(d) \/ d = c
  BY <1>1, <1>2, <1>5 DEF Held, IInv, TypeOK
<1>7. TypeOK'
  BY <1>1, <1>2 DEF IInv, TypeOK, Orders, Entry
<1>8. Handling'
  BY <1>1, <1>2 DEF IInv, TypeOK, Handling
<1>9. Exclusive'
  <2>1. \A v, x \in Workers : held'[v] = held'[x] => v = x \/ held'[v] = NoConn
    BY <1>1, <1>3 DEF IInv, TypeOK, Ownership, Exclusive, Held
  <2>2. \A d \in Conns : /\ reaping'[d] <= 1 /\ ~(Pooled(d)' /\ Held(d)')
                        /\ ~(Pooled(d)' /\ Reaped(d)') /\ ~(Held(d)' /\ Reaped(d)')
    BY <1>1, <1>3, <1>4, <1>6 DEF IInv, Ownership, Exclusive, Reaped
  <2> QED
    BY <1>2, <2>1, <2>2 DEF Exclusive, Distinct
<1>10. Accounted'
  BY <1>1, <1>3, <1>4, <1>6 DEF IInv, Ownership, Accounted, Reaped, Open
<1>11. Homed'
  BY <1>1, <1>2 DEF IInv, Ownership, Homed, Within
<1>12. Sorted'
  BY <1>1 DEF IInv, Sorted, InOrder
<1> QED
  BY <1>7, <1>8, <1>9, <1>10, <1>11, <1>12 DEF IInv, Ownership

\* Get sends the worker to dial: nothing changes hands.
LEMMA GetUpstreamIInv ==
  ASSUME IInv, NEW w \in Workers, GetUpstream(w)
  PROVE  IInv'
<1>1. BestUpstream \in Upstreams
  BY BestUpstreamIn DEF IInv
<1>2. TypeOK'
  BY <1>1 DEF IInv, TypeOK, Orders, GetUpstream, poolVars, connVars
<1>3. Handling'
  BY <1>1 DEF IInv, TypeOK, Handling, GetUpstream
<1>4. Ownership' /\ Sorted'
  BY DEF IInv, Ownership, Exclusive, Accounted, Homed, Pooled, Held, Reaped, Open, Sorted,
     InOrder, GetUpstream, poolVars, connVars
<1> QED
  BY <1>2, <1>3, <1>4 DEF IInv

\* A dialled connection was nobody's and is the worker's.
LEMMA NewConnectionIInv ==
  ASSUME IInv, NEW w \in Workers, NewConnection(w)
  PROVE  IInv'
<1>1. PICK c \in Conns \ Open, mean \in Weights, slow \in BOOLEAN :
        /\ entry' = [entry EXCEPT ![c] = [up |-> dialing[w], weight |-> mean, error |-> slow]]
        /\ held' = [held EXCEPT ![w] = c]
  BY DEF NewConnection
<1>2. /\ dialing' = [dialing EXCEPT ![w] = NoUpstream]
      /\ pc' = [pc EXCEPT ![w] = "exchanging"] /\ pc[w] = "dialing"
      /\ UNCHANGED <<order, weight, cooling, cached, idle, reaping>>
  BY DEF NewConnection, poolVars
<1>3. dialing[w] \in Upstreams /\ held[w] = NoConn
  BY <1>2 DEF IInv, TypeOK, Handling
<1>4. ~Pooled(c) /\ ~Held(c) /\ ~Reaped(c)
  BY <1>1 DEF IInv, Ownership, Accounted
<1>5. TypeOK'
  BY <1>1, <1>2, <1>3 DEF IInv, TypeOK, Orders, Entry
<1>6. Handling'
  BY <1>1, <1>2 DEF IInv, TypeOK, Handling
<1>7. \A d \in Conns : Held(d)' <=> Held(d) \/ d = c
  BY <1>1, <1>3 DEF Held, IInv, TypeOK
<1>8. \A d \in Conns : (Pooled(d)' <=> Pooled(d)) /\ (Reaped(d)' <=> Reaped(d))
  BY <1>2 DEF Pooled, Reaped
<1>9. \A d \in Conns : (d \in Open)' <=> d \in Open \/ d = c
  BY <1>1, <1>3 DEF Open, NoEntry, IInv, TypeOK
<1>10. Exclusive'
  <2>1. \A v, x \in Workers : held'[v] = held'[x] => v = x \/ held'[v] = NoConn
    BY <1>1, <1>4 DEF IInv, TypeOK, Ownership, Exclusive, Held
  <2>2. \A d \in Conns : /\ reaping'[d] <= 1 /\ ~(Pooled(d)' /\ Held(d)')
                        /\ ~(Pooled(d)' /\ Reaped(d)') /\ ~(Held(d)' /\ Reaped(d)')
    BY <1>2, <1>4, <1>7, <1>8 DEF IInv, Ownership, Exclusive
  <2> QED
    BY <1>2, <2>1, <2>2 DEF Exclusive, IInv, Ownership
<1>11. Accounted'
  BY <1>7, <1>8, <1>9 DEF IInv, Ownership, Accounted
<1>12. Homed'
  BY <1>1, <1>2, ListFacts DEF IInv, TypeOK, Ownership, Homed
<1>13. Sorted'
  BY <1>2 DEF IInv, Sorted, InOrder
<1> QED
  BY <1>5, <1>6, <1>10, <1>11, <1>12, <1>13 DEF IInv, Ownership

\* A purge moves connections from the list to the goroutines that close them.
LEMMA NewConnectionFailsIInv ==
  ASSUME IInv, NEW w \in Workers, NewConnectionFails(w)
  PROVE  IInv'
<1> DEFINE u == dialing[w]
<1>1. /\ pc[w] = "dialing" /\ cooling' = cooling \cup {u}
      /\ idle' = Purged(u) /\ reaping' = Reapers(u)
      /\ dialing' = [dialing EXCEPT ![w] = NoUpstream] /\ pc' = [pc EXCEPT ![w] = "start"]
      /\ UNCHANGED <<order, weight, cached, entry, held>>
  BY DEF NewConnectionFails
<1>2. u \in Upstreams /\ held[w] = NoConn
  BY <1>1 DEF IInv, TypeOK, Handling
<1>3. TypeOK'
  BY <1>1, <1>2, PurgeFacts DEF IInv, TypeOK, Orders, Entry
<1>4. Handling'
  BY <1>1, <1>2 DEF IInv, TypeOK, Handling
<1> HIDE DEF u
<1>5. /\ Distinct(idle') /\ Within(idle', idle)
      /\ \A c \in Conns : Listed(idle', c) => Pooled(c)
      /\ \A c \in Conns : reaping'[c] = IF Pooled(c) /\ ~Listed(idle', c) THEN 1 ELSE reaping[c]
  <2>1. Distinct(idle') /\ Within(idle', idle)
    BY <1>1, <1>2, PurgeFacts
  <2>2. ASSUME NEW c \in Conns
        PROVE  /\ Listed(idle', c) => Pooled(c)
               /\ reaping'[c] = IF Pooled(c) /\ ~Listed(idle', c) THEN 1 ELSE reaping[c]
    <3>1. (\E i \in DOMAIN idle[u] : idle[u][i] = c) => Pooled(c)
      BY <1>2 DEF Pooled
    <3> QED
      BY <1>1, <1>2, <3>1, PurgeFacts
  <2> QED
    BY <2>1, <2>2
<1>6. \A c \in Conns : (Pooled(c)' <=> Listed(idle', c)) /\ (Held(c)' <=> Held(c))
        /\ (Reaped(c)' <=> Reaped(c) \/ (Pooled(c) /\ ~Listed(idle', c)))
  BY <1>1, <1>5 DEF Pooled, Listed, Held, Reaped, IInv, Ownership, Exclusive
<1>7. Exclusive'
  <2>1. \A c \in Conns : /\ reaping'[c] <= 1 /\ ~(Pooled(c)' /\ Held(c)')
                        /\ ~(Pooled(c)' /\ Reaped(c)') /\ ~(Held(c)' /\ Reaped(c)')
    BY <1>5, <1>6 DEF IInv, Ownership, Exclusive
  <2> QED
    BY <1>1, <1>5, <2>1 DEF IInv, Ownership, Exclusive, Distinct
<1>8. Accounted'
  BY <1>1, <1>5, <1>6 DEF IInv, Ownership, Accounted, Open
<1>9. Homed'
  BY <1>1, <1>5 DEF IInv, Ownership, Homed, Within
<1>10. Sorted'
  BY <1>1 DEF IInv, Sorted, InOrder
<1> QED
  BY <1>3, <1>4, <1>7, <1>8, <1>9, <1>10 DEF IInv, Ownership

\* An exchange changes the entry of the worker's connection, not its upstream.
LEMMA ExchangeIInv ==
  ASSUME IInv, NEW w \in Workers, ExchangeOk(w) \/ ExchangeFails(w)
  PROVE  IInv'
<1> DEFINE c == held[w]
<1>1. PICK mean \in Weights, slow \in BOOLEAN :
        entry' = [entry EXCEPT ![c] =
                    [up |-> @.up, weight |-> mean, error |-> @.error \/ slow]]
  BY DEF ExchangeOk, ExchangeFails, AddExchange
<1>2. /\ pc[w] = "exchanging" /\ pc' \in {[pc EXCEPT ![w] = "adding"], [pc EXCEPT ![w] = "closing"]}
      /\ UNCHANGED <<order, weight, cooling, cached, idle, reaping, dialing, held>>
  BY DEF ExchangeOk, ExchangeFails, poolVars
<1>3. c \in Conns /\ c \in Open /\ entry[c] \in [up : Upstreams, weight : Weights, error : BOOLEAN]
  BY <1>2, HeldFacts DEF IInv, TypeOK, Handling, Entry, Open
<1>4. /\ entry'[c] \in [up : Upstreams, weight : Weights, error : BOOLEAN]
      /\ entry'[c].up = entry[c].up
      /\ \A d \in Conns : d # c => entry'[d] = entry[d]
      /\ entry' \in [Conns -> Entry]
  BY <1>1, <1>3 DEF IInv, TypeOK, Entry
<1> HIDE DEF c
<1>5. \A d \in Conns : (d \in Open)' <=> d \in Open
  <2>1. entry'[c] # NoEntry
    BY <1>4, EntryFacts
  <2> QED
    BY <1>3, <1>4, <2>1 DEF Open
<1>6. TypeOK'
  BY <1>2, <1>4 DEF IInv, TypeOK, Orders
<1>7. Handling'
  BY <1>2 DEF IInv, TypeOK, Handling
<1>8. Exclusive'
  BY <1>2 DEF IInv, Ownership, Exclusive, Pooled, Held, Reaped
<1>9. Accounted'
  BY <1>2, <1>5 DEF IInv, Ownership, Accounted, Pooled, Held, Reaped
<1>10. Homed'
  <2>1. \A v \in Upstreams : \A i \in DOMAIN idle[v] :
          entry'[idle[v][i]].up = entry[idle[v][i]].up
    BY <1>4, ListFacts
  <2> QED
    BY <1>2, <2>1 DEF IInv, Ownership, Homed
<1>11. Sorted'
  BY <1>2 DEF IInv, Sorted, InOrder
<1> QED
  BY <1>6, <1>7, <1>8, <1>9, <1>10, <1>11 DEF IInv, Ownership

\* Add: what the update purges goes to the goroutines, the worker's connection
\* goes to the end of its list.
LEMMA AddIInv ==
  ASSUME IInv, NEW w \in Workers, Add(w)
  PROVE  IInv'
<1> DEFINE c == held[w]
           u == entry[c].up
           I == IdleAfterUpdate(c)
<1>1. /\ pc[w] = "adding" /\ UpdateUpstream(c)
      /\ idle' = [I EXCEPT ![u] = Append(@, c)] /\ reaping' = ReapersAfterUpdate(c)
      /\ cached' = cached \cup {u} /\ held' = [held EXCEPT ![w] = NoConn]
      /\ pc' = [pc EXCEPT ![w] = "start"] /\ UNCHANGED <<entry, dialing>>
  BY DEF Add
<1>2. c \in Conns /\ c \in Open /\ u \in Upstreams /\ HeldBy(held, c)
  BY <1>1, HeldFacts DEF IInv, Handling, HeldBy
<1>3. ~Listed(idle, c) /\ reaping[c] = 0
  BY <1>2, OwnershipNow DEF Unshared
<1>4. \A d \in Conns : HeldBy(held', d) <=> HeldBy(held, d) /\ d # c
  BY <1>1, <1>2 DEF HeldBy, IInv, TypeOK, Ownership, Exclusive
<1> HIDE DEF c, u, I
<1>5. /\ I \in [Upstreams -> Seq(Conns)] /\ Distinct(I) /\ Within(I, idle)
      /\ weight' \in [Upstreams -> Weights] /\ cooling' \subseteq Upstreams
      /\ order' \in Orders /\ InOrder(order', weight')
      /\ reaping' \in [Conns -> Nat]
  BY <1>1, <1>2, UpdateFacts DEF I
<1>6. \A d \in Conns :
        /\ Listed(I, d) => Listed(idle, d)
        /\ reaping'[d] = IF Listed(idle, d) /\ ~Listed(I, d) THEN 1 ELSE reaping[d]
  BY <1>1, <1>2, UpdateFacts, ListFacts DEF I
<1>7. /\ idle' \in [Upstreams -> Seq(Conns)] /\ Distinct(idle')
      /\ \A d \in Conns : Listed(idle', d) <=> Listed(I, d) \/ d = c
      /\ Inherits(idle', I, u, c)
  <2> DEFINE J == [I EXCEPT ![u] = Append(I[u], c)]
  <2>1. ~Listed(I, c)
    BY <1>2, <1>3, <1>6
  <2>2. I \in [Upstreams -> Seq(Conns)] /\ Distinct(I)
    BY <1>5
  <2>3. /\ J \in [Upstreams -> Seq(Conns)] /\ Distinct(J)
        /\ \A d \in Conns : Listed(J, d) <=> Listed(I, d) \/ d = c
        /\ Inherits(J, I, u, c)
    BY <1>2, <2>1, <2>2, PushFacts
  <2> QED
    BY <1>1, <2>3
<1>8. TypeOK'
  BY <1>1, <1>2, <1>5, <1>7 DEF IInv, TypeOK, Entry, Orders
<1>9. Handling'
  BY <1>1 DEF IInv, TypeOK, Handling
<1>10. Exclusive' /\ Accounted'
  <2>1. \A v, x \in Workers : held'[v] = held'[x] => v = x \/ held'[v] = NoConn
    BY <1>1 DEF IInv, TypeOK, Ownership, Exclusive
  <2>2. Unshared(idle', held', reaping')
    BY <1>3, <1>4, <1>6, <1>7, OwnershipNow DEF Unshared
  <2>3. Kept(idle', held', reaping', entry')
    <3> SUFFICES ASSUME NEW d \in Conns
                 PROVE  entry'[d] # NoEntry <=>
                          Listed(idle', d) \/ HeldBy(held', d) \/ reaping'[d] > 0
      BY DEF Kept
    <3>1. entry'[d] # NoEntry <=> Listed(idle, d) \/ HeldBy(held, d) \/ reaping[d] > 0
      BY <1>1, OwnershipNow DEF Kept
    <3>2. reaping'[d] > 0 <=> reaping[d] > 0 \/ (Listed(idle, d) /\ ~Listed(I, d))
      BY <1>6, OwnershipNow DEF Unshared
    <3> QED
      BY <1>2, <1>4, <1>6, <1>7, <3>1, <3>2
  <2> QED
    BY <1>7, <2>1, <2>2, <2>3, OwnershipNext
<1>11. Homed'
  <2> SUFFICES ASSUME NEW v \in Upstreams, NEW i \in DOMAIN idle'[v]
               PROVE  v \in cached' /\ entry'[idle'[v][i]].up = v
    BY DEF Homed
  <2>1. CASE v = u /\ idle'[v][i] = c
    BY <2>1, <1>1 DEF u
  <2>2. CASE \E j \in DOMAIN I[v] : I[v][j] = idle'[v][i]
    <3>1. \E k \in DOMAIN idle[v] : idle[v][k] = idle'[v][i]
      BY <2>2, <1>5 DEF Within
    <3> QED
      BY <1>1, <3>1 DEF IInv, Ownership, Homed
  <2> QED
    BY <2>1, <2>2, <1>7 DEF Inherits
<1>12. Sorted'
  BY <1>5 DEF Sorted, InOrder
<1> QED
  BY <1>8, <1>9, <1>10, <1>11, <1>12 DEF IInv, Ownership

\* CloseConnection: the worker's connection is nobody's and not open.
LEMMA CloseConnectionIInv ==
  ASSUME IInv, NEW w \in Workers, CloseConnection(w)
  PROVE  IInv'
<1> DEFINE c == held[w]
           I == IdleAfterUpdate(c)
<1>1. /\ pc[w] = "closing" /\ UpdateUpstream(c)
      /\ idle' = I /\ reaping' = ReapersAfterUpdate(c)
      /\ entry' = [entry EXCEPT ![c] = NoEntry] /\ held' = [held EXCEPT ![w] = NoConn]
      /\ pc' = [pc EXCEPT ![w] = "start"] /\ UNCHANGED <<cached, dialing>>
  BY DEF CloseConnection
<1>2. c \in Conns /\ c \in Open /\ HeldBy(held, c)
  BY <1>1, HeldFacts DEF IInv, Handling, HeldBy
<1>3. ~Listed(idle, c) /\ reaping[c] = 0
  BY <1>2, OwnershipNow DEF Unshared
<1>4. \A d \in Conns : HeldBy(held', d) <=> HeldBy(held, d) /\ d # c
  BY <1>1, <1>2 DEF HeldBy, IInv, TypeOK, Ownership, Exclusive
<1> HIDE DEF c, I
<1>5. /\ I \in [Upstreams -> Seq(Conns)] /\ Distinct(I) /\ Within(I, idle)
      /\ weight' \in [Upstreams -> Weights] /\ cooling' \subseteq Upstreams
      /\ order' \in Orders /\ InOrder(order', weight')
      /\ reaping' \in [Conns -> Nat]
  BY <1>1, <1>2, UpdateFacts DEF I
<1>6. \A d \in Conns :
        /\ Listed(I, d) => Listed(idle, d)
        /\ reaping'[d] = IF Listed(idle, d) /\ ~Listed(I, d) THEN 1 ELSE reaping[d]
  BY <1>1, <1>2, UpdateFacts, ListFacts DEF I
<1>7. Distinct(idle')
  BY <1>1, <1>5
<1>8. TypeOK'
  BY <1>1, <1>2, <1>5 DEF IInv, TypeOK, Entry, Orders
<1>9. Handling'
  BY <1>1 DEF IInv, TypeOK, Handling
<1>10. Exclusive' /\ Accounted'
  <2>1. \A v, x \in Workers : held'[v] = held'[x] => v = x \/ held'[v] = NoConn
    BY <1>1 DEF IInv, TypeOK, Ownership, Exclusive
  <2>2. Unshared(idle', held', reaping')
    <3> SUFFICES ASSUME NEW d \in Conns
                 PROVE  /\ reaping'[d] \in Nat /\ reaping'[d] <= 1
                        /\ ~(Listed(I, d) /\ HeldBy(held', d))
                        /\ ~(Listed(I, d) /\ reaping'[d] > 0)
                        /\ ~(HeldBy(held', d) /\ reaping'[d] > 0)
      BY <1>1 DEF Unshared
    <3>1. /\ reaping[d] \in Nat /\ reaping[d] <= 1
          /\ ~(Listed(idle, d) /\ HeldBy(held, d))
          /\ ~(Listed(idle, d) /\ reaping[d] > 0)
          /\ ~(HeldBy(held, d) /\ reaping[d] > 0)
      BY OwnershipNow DEF Unshared
    <3> QED
      BY <1>3, <1>4, <1>6, <3>1
  <2>3. Kept(idle', held', reaping', entry')
    <3> SUFFICES ASSUME NEW d \in Conns
                 PROVE  entry'[d] # NoEntry <=>
                          Listed(idle', d) \/ HeldBy(held', d) \/ reaping'[d] > 0
      BY DEF Kept
    <3>1. entry[d] # NoEntry <=> Listed(idle, d) \/ HeldBy(held, d) \/ reaping[d] > 0
      BY OwnershipNow DEF Kept
    <3>2. CASE d = c
      <4>1. entry'[d] = NoEntry
        BY <1>1, <1>2, <3>2 DEF IInv, TypeOK
      <4>2. ~Listed(I, d) /\ ~HeldBy(held', d) /\ reaping'[d] = 0
        BY <1>2, <1>3, <1>4, <1>6, <3>2
      <4> QED
        BY <1>1, <4>1, <4>2
    <3>3. CASE d # c
      <4>1. entry'[d] = entry[d]
        BY <1>1, <3>3 DEF IInv, TypeOK
      <4>2. reaping'[d] > 0 <=> reaping[d] > 0 \/ (Listed(idle, d) /\ ~Listed(I, d))
        BY <1>6, <3>3, OwnershipNow DEF Unshared
      <4> QED
        BY <1>1, <1>4, <1>6, <3>1, <3>3, <4>1, <4>2
    <3> QED
      BY <3>2, <3>3
  <2> QED
    BY <1>7, <2>1, <2>2, <2>3, OwnershipNext
<1>11. Homed'
  <2> SUFFICES ASSUME NEW v \in Upstreams, NEW i \in DOMAIN idle'[v]
               PROVE  v \in cached' /\ entry'[idle'[v][i]].up = v
    BY DEF Homed
  <2>1. PICK k \in DOMAIN idle[v] : idle[v][k] = idle'[v][i]
    BY <1>1, <1>5 DEF Within
  <2>2. idle[v][k] # c
    BY <1>3 DEF Listed
  <2>3. entry'[idle[v][k]] = entry[idle[v][k]]
    BY <1>1, <2>2, ListFacts
  <2> QED
    BY <1>1, <2>1, <2>3 DEF IInv, Ownership, Homed
<1>12. Sorted'
  BY <1>5 DEF Sorted, InOrder
<1> QED
  BY <1>8, <1>9, <1>10, <1>11, <1>12 DEF IInv, Ownership

\* CloseConnection by a goroutine of purgeUpstream: likewise.
LEMMA ReapIInv ==
  ASSUME IInv, NEW c \in Conns, Reap(c)
  PROVE  IInv'
<1> DEFINE I == IdleAfterUpdate(c)
<1>1. /\ reaping[c] > 0 /\ UpdateUpstream(c)
      /\ idle' = I /\ reaping' = [ReapersAfterUpdate(c) EXCEPT ![c] = @ - 1]
      /\ entry' = [entry EXCEPT ![c] = NoEntry]
      /\ UNCHANGED <<cached, pc, dialing, held>>
  BY DEF Reap, workerVars
<1>2. c \in Conns /\ c \in Open /\ reaping[c] = 1
  BY <1>1, ReapedFacts DEF Reaped
<1>3. ~Listed(idle, c) /\ ~HeldBy(held, c)
  BY <1>2, OwnershipNow DEF Unshared
<1>4. \A d \in Conns : HeldBy(held', d) <=> HeldBy(held, d) /\ d # c
  BY <1>1, <1>3
<1> HIDE DEF I
<1>5. /\ I \in [Upstreams -> Seq(Conns)] /\ Distinct(I) /\ Within(I, idle)
      /\ weight' \in [Upstreams -> Weights] /\ cooling' \subseteq Upstreams
      /\ order' \in Orders /\ InOrder(order', weight')
      /\ ReapersAfterUpdate(c) \in [Conns -> Nat]
  BY <1>1, <1>2, UpdateFacts DEF I
<1>6. \A d \in Conns :
        /\ Listed(I, d) => Listed(idle, d)
        /\ reaping'[d] = IF d = c THEN 0
                         ELSE IF Listed(idle, d) /\ ~Listed(I, d) THEN 1 ELSE reaping[d]
  <2>1. \A d \in Conns :
          /\ Listed(I, d) => Listed(idle, d)
          /\ ReapersAfterUpdate(c)[d] =
               IF Listed(idle, d) /\ ~Listed(I, d) THEN 1 ELSE reaping[d]
    BY <1>1, <1>2, UpdateFacts, ListFacts DEF I
  <2> QED
    BY <1>1, <1>2, <1>3, <1>5, <2>1
<1>7. Distinct(idle')
  BY <1>1, <1>5
<1>8. TypeOK'
  <2>1. reaping' \in [Conns -> Nat]
    <3>1. ASSUME NEW d \in Conns PROVE reaping'[d] \in Nat
      <4>1. reaping[d] \in Nat
        BY DEF IInv, TypeOK
      <4> QED
        BY <1>6, <4>1
    <3> QED
      BY <1>1, <1>5, <3>1
  <2> QED
    BY <1>1, <1>5, <2>1 DEF IInv, TypeOK, Entry, Orders
<1>9. Handling'
  BY <1>1 DEF IInv, TypeOK, Handling
<1>10. Exclusive' /\ Accounted'
  <2>1. \A v, x \in Workers : held'[v] = held'[x] => v = x \/ held'[v] = NoConn
    BY <1>1 DEF IInv, TypeOK, Ownership, Exclusive
  <2>2. Unshared(idle', held', reaping')
    <3> SUFFICES ASSUME NEW d \in Conns
                 PROVE  /\ reaping'[d] \in Nat /\ reaping'[d] <= 1
                        /\ ~(Listed(I, d) /\ HeldBy(held', d))
                        /\ ~(Listed(I, d) /\ reaping'[d] > 0)
                        /\ ~(HeldBy(held', d) /\ reaping'[d] > 0)
      BY <1>1 DEF Unshared
    <3>1. /\ reaping[d] \in Nat /\ reaping[d] <= 1
          /\ ~(Listed(idle, d) /\ HeldBy(held, d))
          /\ ~(Listed(idle, d) /\ reaping[d] > 0)
          /\ ~(HeldBy(held, d) /\ reaping[d] > 0)
      BY OwnershipNow DEF Unshared
    <3> QED
      BY <1>3, <1>4, <1>6, <3>1
  <2>3. Kept(idle', held', reaping', entry')
    <3> SUFFICES ASSUME NEW d \in Conns
                 PROVE  entry'[d] # NoEntry <=>
                          Listed(idle', d) \/ HeldBy(held', d) \/ reaping'[d] > 0
      BY DEF Kept
    <3>1. entry[d] # NoEntry <=> Listed(idle, d) \/ HeldBy(held, d) \/ reaping[d] > 0
      BY OwnershipNow DEF Kept
    <3>2. CASE d = c
      <4>1. entry'[d] = NoEntry
        BY <1>1, <1>2, <3>2 DEF IInv, TypeOK
      <4>2. ~Listed(I, d) /\ ~HeldBy(held', d) /\ reaping'[d] = 0
        BY <1>2, <1>3, <1>4, <1>6, <3>2
      <4> QED
        BY <1>1, <4>1, <4>2
    <3>3. CASE d # c
      <4>1. entry'[d] = entry[d]
        BY <1>1, <3>3 DEF IInv, TypeOK
      <4>2. reaping'[d] > 0 <=> reaping[d] > 0 \/ (Listed(idle, d) /\ ~Listed(I, d))
        BY <1>6, <3>3, OwnershipNow DEF Unshared
      <4> QED
        BY <1>1, <1>4, <1>6, <3>1, <3>3, <4>1, <4>2
    <3> QED
      BY <3>2, <3>3
  <2> QED
    BY <1>7, <2>1, <2>2, <2>3, OwnershipNext
<1>11. Homed'
  <2> SUFFICES ASSUME NEW v \in Upstreams, NEW i \in DOMAIN idle'[v]
               PROVE  v \in cached' /\ entry'[idle'[v][i]].up = v
    BY DEF Homed
  <2>1. PICK k \in DOMAIN idle[v] : idle[v][k] = idle'[v][i]
    BY <1>1, <1>5 DEF Within
  <2>2. idle[v][k] # c
    BY <1>3 DEF Listed
  <2>3. entry'[idle[v][k]] = entry[idle[v][k]]
    BY <1>1, <2>2, ListFacts
  <2> QED
    BY <1>1, <2>1, <2>3 DEF IInv, Ownership, Homed
<1>12. Sorted'
  BY <1>5 DEF Sorted, InOrder
<1> QED
  BY <1>8, <1>9, <1>10, <1>11, <1>12 DEF IInv, Ownership

\* The end of a cooldown changes nobody's connection.
LEMMA WakeIInv ==
  ASSUME IInv, NEW u \in Upstreams, Wake(u)
  PROVE  IInv'
<1>1. UNCHANGED <<order, weight, cached, idle, entry, reaping, pc, dialing, held>>
        /\ cooling' \subseteq cooling
  BY DEF Wake, connVars, workerVars
<1>2. TypeOK'
  BY <1>1 DEF IInv, TypeOK, Orders, Entry
<1> QED
  BY <1>1, <1>2 DEF IInv, Handling, Ownership, Exclusive, Accounted, Homed, Sorted, InOrder,
     Pooled, Held, Reaped, Open

\* Every step of the workers, of the closing goroutines and of the clock keeps
\* the invariant.
LEMMA NextIInv ==
  ASSUME IInv, [Next]_vars
  PROVE  IInv'
<1>1. ASSUME NEW w \in Workers, WorkerStep(w) PROVE IInv'
  BY <1>1, GetCachedIInv, GetUpstreamIInv, NewConnectionIInv, NewConnectionFailsIInv,
     ExchangeIInv, AddIInv, CloseConnectionIInv DEF WorkerStep, Get
<1>2. ASSUME NEW c \in Conns, Reap(c) PROVE IInv'
  BY <1>2, ReapIInv
<1>3. ASSUME NEW u \in Upstreams, Wake(u) PROVE IInv'
  BY <1>3, WakeIInv
<1>4. CASE UNCHANGED vars
  BY <1>4 DEF vars, poolVars, connVars, workerVars, IInv, TypeOK, Orders, Entry, Handling,
     Ownership, Exclusive, Accounted, Homed, Sorted, InOrder, Pooled, Held, Reaped, Open
<1> QED
  BY <1>1, <1>2, <1>3, <1>4 DEF Next

\* The inductive invariant holds in every reachable state of the pool.
LEMMA Invariance == Spec => []IInv
<1>1. Init => IInv
  BY InitIInv
<1>2. IInv /\ [Next]_vars => IInv'
  BY NextIInv
<1> QED
  BY <1>1, <1>2, PTL DEF Spec

\* The pool's lists, goroutine counts and workers keep their shape.
THEOREM TypeCorrect == Spec => []TypeOK
<1>1. IInv => TypeOK
  BY DEF IInv
<1> QED
  BY <1>1, Invariance, PTL

\* A connection has one owner while it is open and none afterwards, whatever
\* the workers and the goroutines of purgeUpstream do.
THEOREM OwnershipCorrect == Spec => []Ownership
<1>1. IInv => Ownership
  BY DEF IInv
<1> QED
  BY <1>1, Invariance, PTL

-----------------------------------------------------------------------------
(* Which upstream Get chooses *)

\* If an upstream that is not cooling has connections, getBestUpstream returns
\* the first such in the list, and the list is in order.
LEMMA BestFacts ==
  ASSUME IInv, NEW v \in Ready
  PROVE  BestUpstream \in Ready /\ weight[BestUpstream] <= weight[v]
<1> DEFINE open_for_use == { i \in DOMAIN order : order[i] \in cached /\ order[i] \notin cooling }
           with_conns   == { i \in open_for_use : idle[order[i]] # <<>> }
           m == Min(with_conns)
<1>1. PICK j \in DOMAIN order : order[j] = v
  BY OrderFacts DEF IInv, Ready
<1>2. v \in cached
  <2>1. v \in Upstreams /\ idle[v] # <<>> /\ idle[v] \in Seq(Conns)
    BY DEF Ready, IInv, TypeOK
  <2>2. 1 \in DOMAIN idle[v]
    BY <2>1, TailFacts
  <2> QED
    BY <2>1, <2>2 DEF IInv, Ownership, Homed
<1>3. j \in with_conns
  BY <1>1, <1>2 DEF Ready
<1>4. m \in with_conns /\ m <= j
  <2>1. with_conns \subseteq Nat
    BY OrderFacts DEF IInv
  <2> HIDE DEF with_conns
  <2> QED
    BY <1>3, <2>1, MinFacts
<1>5. BestUpstream = order[m]
  BY <1>3 DEF BestUpstream
<1>6. order[m] \in Ready
  BY <1>4, OrderFacts DEF IInv, Ready
<1>7. weight[order[m]] <= weight[order[j]]
  <2>1. m \in DOMAIN order /\ (m = j \/ m < j)
    BY <1>1, <1>4, OrderFacts DEF IInv
  <2>2. weight[order[j]] \in Nat
    BY <1>1, OrderFacts DEF IInv, TypeOK
  <2> HIDE DEF m
  <2>3. CASE m < j
    BY <1>1, <2>1, <2>3 DEF IInv, Sorted, InOrder
  <2> QED
    BY <2>1, <2>2, <2>3
<1> QED
  BY <1>1, <1>5, <1>6, <1>7

\* Only Get ends a worker's idleness.
LEMMA StartFacts ==
  ASSUME IInv, [Next]_vars, NEW w \in Workers, pc[w] = "start"
  PROVE  /\ pc'[w] = "dialing" => GetUpstream(w)
         /\ pc'[w] = "exchanging" => GetCached(w)
<1>1. ASSUME NEW x \in Workers, WorkerStep(x), x # w PROVE pc'[w] = "start"
  BY <1>1 DEF WorkerStep, Get, GetCached, GetUpstream, NewConnection, NewConnectionFails,
     ExchangeOk, ExchangeFails, Add, CloseConnection, IInv, TypeOK
<1>2. CASE WorkerStep(w)
  BY <1>2 DEF WorkerStep, Get, GetCached, GetUpstream, NewConnection, NewConnectionFails,
     ExchangeOk, ExchangeFails, Add, CloseConnection, IInv, TypeOK
<1>3. ASSUME NEW c \in Conns, Reap(c) PROVE pc'[w] = "start"
  BY <1>3 DEF Reap, workerVars
<1>4. ASSUME NEW u \in Upstreams, Wake(u) PROVE pc'[w] = "start"
  BY <1>4 DEF Wake, workerVars
<1>5. CASE UNCHANGED vars
  BY <1>5 DEF vars, workerVars
<1> QED
  BY <1>1, <1>2, <1>3, <1>4, <1>5 DEF Next

\* Get prefers a connection to dialling, and a lighter upstream's to a heavier
\* one's: the list is in order when Get reads it, whoever wrote the weights.
THEOREM GetsLightest == Spec => LightestFirst
<1> DEFINE Lightest(w) ==
      /\ pc[w] = "start" /\ pc'[w] = "dialing" => Ready = {}
      /\ pc[w] = "start" /\ pc'[w] = "exchanging" =>
           \A v \in Ready : /\ entry[held'[w]].up \in Ready
                            /\ weight[entry[held'[w]].up] <= weight[v]
<1>1. ASSUME IInv, [Next]_vars, NEW w \in Workers PROVE Lightest(w)
  <2>1. CASE GetUpstream(w)
    <3>1. BestUpstream \notin Ready
      BY <2>1 DEF GetUpstream, Ready
    <3>2. pc'[w] = "dialing"
      BY <2>1, <1>1 DEF GetUpstream, IInv, TypeOK
    <3> QED
      BY <1>1, <3>1, <3>2, BestFacts
  <2>2. CASE GetCached(w)
    <3> DEFINE u == BestUpstream
    <3>1. pc'[w] = "exchanging" /\ held'[w] = Head(idle[u]) /\ idle[u] # <<>>
      BY <2>2, <1>1 DEF GetCached, IInv, TypeOK
    <3>2. u \in Upstreams /\ idle[u] \in Seq(Conns)
      BY <1>1, BestUpstreamIn DEF IInv, TypeOK
    <3> HIDE DEF u
    <3>3. 1 \in DOMAIN idle[u] /\ Head(idle[u]) = idle[u][1]
      BY <3>1, <3>2, TailFacts
    <3>4. entry[held'[w]].up = u
      BY <1>1, <3>1, <3>2, <3>3 DEF IInv, Ownership, Homed
    <3> QED
      BY <1>1, <3>1, <3>4, BestFacts DEF u
  <2> QED
    BY <1>1, <2>1, <2>2, StartFacts
<1>2. IInv /\ [Next]_vars => [\A w \in Workers : Lightest(w)]_vars
  BY <1>1
<1> QED
  BY <1>2, Invariance, PTL DEF Spec, LightestFirst

-----------------------------------------------------------------------------
(* What happens to the list of an upstream that starts to cool *)

\* The update of an entry that carries an error gives every connection of its
\* upstream's list to a goroutine, and takes it out of the lists.
LEMMA UpdateCools ==
  ASSUME IInv, NEW c \in Conns, c \in Open, UpdateUpstream(c),
         NEW u \in cooling' \ cooling,
         NEW d \in Conns, \E i \in DOMAIN idle[u] : idle[u][i] = d
  PROVE  ~Listed(IdleAfterUpdate(c), d) /\ ReapersAfterUpdate(c)[d] = 1
<1>1. entry[c].error /\ u = entry[c].up
  BY DEF UpdateUpstream
<1>2. u \in Upstreams
  BY UpdateFacts DEF IInv, TypeOK
<1> QED
  BY <1>1, <1>2, PurgeFacts DEF IdleAfterUpdate, ReapersAfterUpdate

\* An upstream does not start to cool with a connection left in its list
\* (connpool.go:429), whichever of the four callers of coolAndPurgeUpstream
\* cools it; Add puts back only the connection it was called with.
THEOREM CoolingIsPurged == Spec => CoolingPurges
<1>1. ASSUME IInv, [Next]_vars, NEW u \in cooling' \ cooling, NEW d \in Conns,
             Contains(idle[u], d)
      PROVE  ~Pooled(d)' /\ Reaped(d)'
  <2>0. SUFFICES ~Listed(idle', d) /\ reaping'[d] > 0
    BY DEF Pooled, Reaped, Listed
  <2>1. u \in Upstreams /\ \E i \in DOMAIN idle[u] : idle[u][i] = d
    <3>1. cooling' \subseteq Upstreams
      BY <1>1, NextIInv DEF IInv, TypeOK
    <3>2. u \in Upstreams /\ idle[u] \in Seq(Conns)
      BY <1>1, <3>1 DEF IInv, TypeOK
    <3> QED
      BY <1>1, <3>2 DEF Contains
  <2>2. Listed(idle, d)
    BY <2>1 DEF Listed
  <2>3. reaping[d] = 0 /\ ~HeldBy(held, d)
    BY <1>1, <2>2, OwnershipNow DEF Unshared
  <2>4. ASSUME NEW w \in Workers, NewConnectionFails(w)
        PROVE  ~Listed(idle', d) /\ reaping'[d] > 0
    <3>1. u = dialing[w] /\ idle' = Purged(u) /\ reaping' = Reapers(u)
      BY <1>1, <2>4 DEF NewConnectionFails
    <3>2. ~Listed(Purged(u), d) /\ Reapers(u)[d] = 1
      BY <1>1, <2>1, PurgeFacts
    <3> QED
      BY <3>1, <3>2
  <2>5. ASSUME NEW w \in Workers, CloseConnection(w)
        PROVE  ~Listed(idle', d) /\ reaping'[d] > 0
    <3>1. held[w] \in Conns /\ held[w] \in Open
      BY <1>1, <2>5, HeldFacts DEF CloseConnection, IInv, Handling
    <3> QED
      BY <1>1, <2>1, <2>5, <3>1, UpdateCools DEF CloseConnection
  <2>6. ASSUME NEW w \in Workers, Add(w)
        PROVE  ~Listed(idle', d) /\ reaping'[d] > 0
    <3> DEFINE c == held[w]
               I == IdleAfterUpdate(c)
    <3>1. c \in Conns /\ c \in Open /\ c # d /\ ~Listed(idle, c)
      BY <1>1, <2>3, <2>6, HeldFacts, OwnershipNow DEF Add, IInv, Handling, HeldBy, Unshared
    <3>2. ~Listed(I, d) /\ reaping'[d] = 1
      BY <1>1, <2>1, <2>6, <3>1, UpdateCools DEF Add
    <3>3. I \in [Upstreams -> Seq(Conns)] /\ Distinct(I) /\ ~Listed(I, c) /\ entry[c].up \in Upstreams
      BY <1>1, <2>6, <3>1, UpdateFacts, ListFacts DEF Add
    <3>4. idle' = [I EXCEPT ![entry[c].up] = Append(@, c)]
      BY <2>6 DEF Add
    <3> DEFINE v == entry[c].up
               J == [I EXCEPT ![v] = Append(@, c)]
    <3> HIDE DEF c, I, v
    <3>5. \A e \in Conns : Listed(J, e) <=> Listed(I, e) \/ e = c
      <4>1. v \in Upstreams
        BY <3>3 DEF v
      <4> QED
        BY <3>1, <3>3, <4>1, PushFacts
    <3>6. idle' = J
      BY <3>4 DEF v
    <3> HIDE DEF J
    <3>7. ~Listed(J, d)
      BY <3>1, <3>2, <3>5
    <3> QED
      BY <3>2, <3>6, <3>7
  <2>7. ASSUME NEW c \in Conns, Reap(c)
        PROVE  ~Listed(idle', d) /\ reaping'[d] > 0
    <3>1. c \in Open /\ c # d /\ UpdateUpstream(c) /\ idle' = IdleAfterUpdate(c)
            /\ reaping' = [ReapersAfterUpdate(c) EXCEPT ![c] = @ - 1]
      BY <1>1, <2>3, <2>7, ReapedFacts DEF Reap, Reaped
    <3>2. ReapersAfterUpdate(c) \in [Conns -> Nat]
      BY <1>1, <3>1, UpdateFacts
    <3>3. ~Listed(idle', d) /\ ReapersAfterUpdate(c)[d] = 1
      BY <1>1, <2>1, <3>1, UpdateCools
    <3> QED
      BY <3>1, <3>2, <3>3
  <2>8. ASSUME NEW w \in Workers,
               Get(w) \/ NewConnection(w) \/ ExchangeOk(w) \/ ExchangeFails(w)
        PROVE  FALSE
    BY <1>1, <2>8 DEF Get, GetCached, GetUpstream, NewConnection, ExchangeOk, ExchangeFails, poolVars
  <2>9. ASSUME NEW v \in Upstreams, Wake(v) PROVE FALSE
    BY <1>1, <2>9 DEF Wake
  <2>10. CASE UNCHANGED vars
    BY <1>1, <2>10 DEF vars, poolVars
  <2> QED
    BY <1>1, <2>4, <2>5, <2>6, <2>7, <2>8, <2>9, <2>10 DEF Next, WorkerStep
<1>2. IInv /\ [Next]_vars => [CooledIsPurged]_vars
  BY <1>1 DEF CooledIsPurged
<1> QED
  BY <1>2, Invariance, PTL DEF Spec, CoolingPurges
=============================================================================
