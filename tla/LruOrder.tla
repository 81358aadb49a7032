------------------------------ MODULE LruOrder ------------------------------
(***************************************************************************)
(* The verdict cache with the history its promise is stated over: when     *)
(* each key was last stored or hit, and the result stored last.            *)
(***************************************************************************)
EXTENDS LruCache, FiniteSets

CONSTANTS MaxOps      \* bound on the number of operations of a behaviour

VARIABLES
  clock,      \* the operations so far
  used,       \* key -> clock of its last Put or hit, 0 if none
  stored      \* key -> set holding the result of its last Put

orderVars == <<ll, entries, clock, used, stored>>

OrderInit ==
  /\ CacheInit
  /\ clock = 0
  /\ used = [k \in Keys |-> 0]
  /\ stored = [k \in Keys |-> {}]

Use(key) ==
  /\ clock < MaxOps
  /\ clock' = clock + 1
  /\ used' = [used EXCEPT ![key] = clock']

GetHit(key) == Use(key) /\ Hit(key) /\ UNCHANGED stored

PutResult(key, r) == Use(key) /\ Put(key, r) /\ stored' = [stored EXCEPT ![key] = {r}]

OrderNext == \E key \in Keys : GetHit(key) \/ \E r \in Results : PutResult(key, r)

OrderSpec == OrderInit /\ [][OrderNext]_orderVars

-----------------------------------------------------------------------------

(* Eviction takes the least recently used entry (cache.go:67-73): an       *)
(* evicted key was used before every key that is still cached, and keys    *)
(* are missing only when the cache is full.                                *)
KeepsMostRecent ==
  \A k \in Keys : (used[k] > 0 /\ ~Cached(k)) =>
    /\ Cardinality(DOMAIN entries) = IF Enabled THEN Capacity ELSE 0
    /\ \A c \in DOMAIN entries : used[c] > used[k]

(* A hit returns the result stored last under the key (cache.go:46-48,     *)
(* 60-62), also when two classifications of one text stored different ones.*)
HitIsFreshest == \A k \in DOMAIN entries : stored[k] = {entries[k]}
=============================================================================
