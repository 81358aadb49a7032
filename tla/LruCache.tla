------------------------------ MODULE LruCache ------------------------------
(***************************************************************************)
(* The verdict cache of internal/dlp/cache.go: a map of entries and a list *)
(* of their keys, most recently used first.  Each method holds the mutex   *)
(* from its first read to its return, so each is one action; what may come *)
(* between a caller's Get and its Put is the caller's concern (Gateway).   *)
(***************************************************************************)
EXTENDS Integers, Sequences

CONSTANTS
  Keys,       \* fingerprints
  Results,    \* what is cached under them
  Capacity    \* NewCache's max; 0 or less disables the cache

ASSUME CapacityAssumption == Capacity \in Int

VARIABLES
  ll,         \* the keys, front of the list first
  entries     \* key -> result, on the cached keys

cacheVars == <<ll, entries>>

CacheInit ==
  /\ ll = <<>>
  /\ entries = [k \in {} |-> k]

Enabled == Capacity > 0

Cached(key) == Enabled /\ key \in DOMAIN entries

Position(key) == CHOOSE i \in 1..Len(ll) : ll[i] = key

(* list.MoveToFront *)
MovedToFront(key) ==
  [i \in 1..Len(ll) |-> IF i = 1 THEN key
                        ELSE IF i <= Position(key) THEN ll[i - 1] ELSE ll[i]]

(* Broken variant: a hit that does not refresh the entry. *)
HitWithoutRefresh(key) == Cached(key) /\ UNCHANGED cacheVars

(* Get: a hit refreshes the entry, a miss changes nothing. *)
Hit(key) ==
  /\ Cached(key)
  /\ ll' = MovedToFront(key)
  /\ UNCHANGED entries

Miss(key) ==
  /\ ~Cached(key)
  /\ UNCHANGED cacheVars

(* Put *)
PutDisabled(key, r) ==
  /\ ~Enabled
  /\ UNCHANGED cacheVars

(* Broken variant: the entry is refreshed and keeps its old result. *)
PutOverKeepingOld(key, r) ==
  /\ Cached(key)
  /\ ll' = MovedToFront(key)
  /\ UNCHANGED entries

PutOver(key, r) ==
  /\ Cached(key)
  /\ entries' = [entries EXCEPT ![key] = r]
  /\ ll' = MovedToFront(key)

(* Broken variant: the evicted element stays in the map. *)
PutNewLeakingEntry(key, r) ==
  /\ Enabled
  /\ key \notin DOMAIN entries
  /\ LET pushed == <<key>> \o ll
     IN ll' = SubSeq(pushed, 1, IF Len(pushed) > Capacity THEN Capacity ELSE Len(pushed))
  /\ entries' = [k \in DOMAIN entries \cup {key} |-> IF k = key THEN r ELSE entries[k]]

PutNew(key, r) ==
  /\ Enabled
  /\ key \notin DOMAIN entries
  /\ LET pushed == <<key>> \o ll
         full == Len(pushed) > Capacity
         evicted == IF full THEN {pushed[Len(pushed)]} ELSE {}
     IN /\ ll' = SubSeq(pushed, 1, IF full THEN Len(pushed) - 1 ELSE Len(pushed))
        /\ entries' = [k \in (DOMAIN entries \cup {key}) \ evicted |->
                         IF k = key THEN r ELSE entries[k]]

Put(key, r) == PutDisabled(key, r) \/ PutOver(key, r) \/ PutNew(key, r)

CacheNext ==
  \E key \in Keys :
    \/ Hit(key)
    \/ Miss(key)
    \/ \E r \in Results : Put(key, r)

CacheSpec == CacheInit /\ [][CacheNext]_cacheVars

-----------------------------------------------------------------------------

(* The map holds results under keys and the list is a sequence of keys. *)
CacheTypeOK ==
  /\ ll \in Seq(Keys)
  /\ DOMAIN entries \subseteq Keys
  /\ entries \in [DOMAIN entries -> Results]

(* The list and the map of cache.go (22-27) never drift apart: the list     *)
(* holds every cached key exactly once, within the capacity.  A key left in *)
(* one of them would be an entry that is never evicted, or a stale verdict. *)
ListMatchesMap ==
  /\ {ll[i] : i \in 1..Len(ll)} = DOMAIN entries
  /\ \A i, j \in 1..Len(ll) : ll[i] = ll[j] => i = j
  /\ Len(ll) <= IF Enabled THEN Capacity ELSE 0
=============================================================================
