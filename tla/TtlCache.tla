------------------------------ MODULE TtlCache ------------------------------
(***************************************************************************)
(* What a cache of responses promises those who ask it (the Cache          *)
(* interface of cache.go), without its lock, its crew and its rewriting of *)
(* TTLs: a response is accepted record by record, each within the TTL the  *)
(* upstream gave it; it stays where it is while somebody looks at it; and  *)
(* what is cached is what an upstream answered, stamped with the time of   *)
(* the answer.  The cache may reject or forget a response at any time: it  *)
(* does so even with fresh ones.                                           *)
(*                                                                         *)
(* RecordCache is shown to implement this.                                 *)
(***************************************************************************)
EXTENDS Integers, Sequences

CONSTANTS
  Keys,      \* Response.FormatKey: name and query type
  Queries,   \* the goroutines that ask the cache and add to it
  Answers,   \* what an upstream or a zone file may answer: sequences of TTLs
  Zone,      \* the keys loaded before the first query
  NoEntry,   \* nothing cached, or nothing answered
  NoKey      \* no key asked for

VARIABLES
  now,       \* the clock
  entries,   \* what is cached: the time of the answer, and its TTLs
  state,     \* how far each query is
  key,       \* the key it asked for
  at,        \* the record it looks at
  answer     \* what the upstream answered it, not yet added

cacheVars == <<now, entries, state, key, at, answer>>

Entry(a, t) == [created |-> t, orig |-> a]

\* The keys somebody looks at.
Pinned == { key[q] : q \in { p \in Queries : state[p] = "looking" } }

\* A query finds nothing ...
Miss(q, k) ==
  /\ state[q] = "idle" /\ entries[k] = NoEntry
  /\ state' = [state EXCEPT ![q] = "missed"]
  /\ key' = [key EXCEPT ![q] = k]
  /\ UNCHANGED <<now, entries, at, answer>>

\* ... or something, and looks at its first record.
Look(q, k) ==
  /\ state[q] = "idle" /\ entries[k] # NoEntry
  /\ 1 \in DOMAIN entries[k].orig
  /\ state' = [state EXCEPT ![q] = "looking"]
  /\ key' = [key EXCEPT ![q] = k]
  /\ at' = [at EXCEPT ![q] = 1]
  /\ UNCHANGED <<now, entries, answer>>

\* A record is accepted within its TTL only; after the last one the query has
\* its answer.
Accept(q) ==
  /\ state[q] = "looking"
  /\ now <= entries[key[q]].created + entries[key[q]].orig[at[q]]
  /\ IF at[q] + 1 \in DOMAIN entries[key[q]].orig
     THEN /\ at' = [at EXCEPT ![q] = @ + 1]
          /\ UNCHANGED <<state, key>>
     ELSE /\ at' = [at EXCEPT ![q] = 0]
          /\ state' = [state EXCEPT ![q] = "idle"]
          /\ key' = [key EXCEPT ![q] = NoKey]
  /\ UNCHANGED <<now, entries, answer>>

Reject(q) ==
  /\ state[q] = "looking"
  /\ state' = [state EXCEPT ![q] = "missed"]
  /\ at' = [at EXCEPT ![q] = 0]
  /\ UNCHANGED <<now, entries, key, answer>>

\* After a miss the upstream answers ...
Resolved(q) ==
  /\ state[q] = "missed"
  /\ \E a \in Answers : answer' = [answer EXCEPT ![q] = Entry(a, now)]
  /\ state' = [state EXCEPT ![q] = "resolved"]
  /\ UNCHANGED <<now, entries, key, at>>

\* ... and its answer replaces what is cached, unless somebody looks at that;
Store(q) ==
  /\ state[q] = "resolved" /\ key[q] \notin Pinned
  /\ entries' = [entries EXCEPT ![key[q]] = answer[q]]
  /\ answer' = [answer EXCEPT ![q] = NoEntry]
  /\ state' = [state EXCEPT ![q] = "idle"]
  /\ key' = [key EXCEPT ![q] = NoKey]
  /\ UNCHANGED <<now, at>>

\* or it does not.
Unresolved(q) ==
  /\ state[q] = "missed"
  /\ state' = [state EXCEPT ![q] = "idle"]
  /\ key' = [key EXCEPT ![q] = NoKey]
  /\ UNCHANGED <<now, entries, at, answer>>

\* Responses nobody looks at may be forgotten.
Forget(gone) ==
  /\ gone \cap Pinned = {}
  /\ entries' = [k \in Keys |-> IF k \in gone THEN NoEntry ELSE entries[k]]
  /\ UNCHANGED <<now, state, key, at, answer>>

Pass ==
  /\ now' = now + 1
  /\ UNCHANGED <<entries, state, key, at, answer>>

CacheInit ==
  /\ now = 0
  /\ entries \in { [k \in Keys |-> IF k \in Zone THEN Entry(z[k], 0) ELSE NoEntry] :
                     z \in [Zone -> Answers] }
  /\ state = [q \in Queries |-> "idle"]
  /\ key = [q \in Queries |-> NoKey]
  /\ at = [q \in Queries |-> 0]
  /\ answer = [q \in Queries |-> NoEntry]

CacheNext ==
  \/ \E q \in Queries :
       \/ \E k \in Keys : Miss(q, k) \/ Look(q, k)
       \/ Accept(q) \/ Reject(q)
       \/ Resolved(q) \/ Unresolved(q) \/ Store(q)
  \/ \E gone \in SUBSET Keys : Forget(gone)
  \/ Pass

CacheSpec == CacheInit /\ [][CacheNext]_cacheVars
=============================================================================
