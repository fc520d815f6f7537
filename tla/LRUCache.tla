------------------------------ MODULE LRUCache ------------------------------
(***************************************************************************)
(* src/cache.py: LRUCache and CacheStats, used by the worker threads.      *)
(*                                                                         *)
(* The OrderedDict is a sequence of keys, the least recently used first,   *)
(* and the values under them; both are touched only under the lock.  The   *)
(* counters have a lock of their own and the dashboard reads them at any   *)
(* time, so every record_* call inside a critical section is a step.       *)
(***************************************************************************)
EXTENDS Integers, SequencesExt

CONSTANTS
  Workers,          \* threads that call the cache
  Keys,             \* (method, host, port, path)
  Sizes,            \* sizes of the responses offered
  CACHE_ENABLED,    \* [cache] enabled
  CAPACITY,         \* max_entries
  MAX_OBJECT_SIZE,
  CACHE_TTL,
  MaxTime,          \* bound: the clock stops here
  MaxOps            \* bound: no call starts once the counters add up to this

ASSUME CacheAssumption ==
  /\ Sizes \subseteq Nat
  /\ CACHE_ENABLED \in BOOLEAN
  /\ CAPACITY \in Nat
  /\ MAX_OBJECT_SIZE \in Nat
  /\ CACHE_TTL \in Nat
  /\ MaxTime \in Nat
  /\ MaxOps \in Nat

Free == "free"
NoKey == "none"

ASSUME FreeAssumption == Free \notin Workers /\ NoKey \notin Keys

VARIABLES
  now,      \* time.time()
  order,    \* LRUCache.cache: its keys in order
  cache,    \* LRUCache.cache: the value under each key
  stats,    \* LRUCache.stats
  lock,     \* holder of LRUCache.lock
  pc,       \* where each worker stands in get or put
  key,      \* its argument
  value,    \* the value it puts
  answer    \* what get returned last, to any worker; None for a miss

\* Observers: per key, the keys used since its last use; and how many stores
\* replaced an entry.
VARIABLES since, overwrites

store == <<order, cache, since>>
locals == <<pc, key, value, answer>>
vars == <<now, store, stats, overwrites, lock, locals>>

None == [size |-> 0, timestamp |-> 0]
Value == [size : Sizes \cup {0}, timestamp : Nat]
Stats == [hits : Nat, misses : Nat, evictions : Nat, stores : Nat,
          current_entries : Nat, current_bytes : Nat]
PCs == {"idle", "put", "store", "evict", "expired"}

NewStats == [hits |-> 0, misses |-> 0, evictions |-> 0, stores |-> 0,
             current_entries |-> 0, current_bytes |-> 0]

Init ==
  /\ now = 1
  /\ order = <<>>
  /\ cache = [k \in Keys |-> None]
  /\ stats = NewStats
  /\ lock = Free
  /\ pc = [w \in Workers |-> "idle"]
  /\ key = [w \in Workers |-> NoKey]
  /\ value = [w \in Workers |-> None]
  /\ answer = None
  /\ since = [k \in Keys |-> {}]
  /\ overwrites = 0

-----------------------------------------------------------------------------
(* CacheStats *)

\* max(0, n)
AtLeastZero(n) == IF n > 0 THEN n ELSE 0

record_hit(s) == [s EXCEPT !.hits = @ + 1]
record_miss(s) == [s EXCEPT !.misses = @ + 1]

\* Forgetful_record_eviction: the entry leaves, its bytes stay counted.
Forgetful_record_eviction(s, size) ==
  [s EXCEPT !.evictions = @ + 1,
            !.current_entries = AtLeastZero(@ - 1)]

record_eviction(s, size) ==
  [s EXCEPT !.evictions = @ + 1,
            !.current_entries = AtLeastZero(@ - 1),
            !.current_bytes = AtLeastZero(@ - size)]

record_store(s, size) ==
  [s EXCEPT !.stores = @ + 1,
            !.current_entries = @ + 1,
            !.current_bytes = @ + size]

\* Unrecorded_remove: an overwritten entry is not subtracted.
Unrecorded_remove(s, size) == s

\* Swapped_remove: the size is subtracted from the entry count, unclamped.
Swapped_remove(s, size) == [s EXCEPT !.current_entries = @ - size]

record_remove(s, size) ==
  [s EXCEPT !.current_entries = AtLeastZero(@ - 1),
            !.current_bytes = AtLeastZero(@ - size)]

-----------------------------------------------------------------------------
(* The OrderedDict *)

Cached == {order[i] : i \in 1..Len(order)}

At(k) == CHOOSE i \in 1..Len(order) : order[i] = k
Without(k) == RemoveAt(order, At(k))

\* Insertion_order: a use leaves the key where it was.
Insertion_order(k) == order

move_to_end(k) == Append(Without(k), k)

\* Late_TooMany: the loop starts one entry too late.
Late_TooMany(keys) == Len(keys) > CAPACITY + 1

\* The condition of the eviction loop.
TooMany(keys) == Len(keys) > CAPACITY

\* For the observer: key k has just been used.
Used(k) == [j \in Keys |-> IF j = k THEN {} ELSE since[j] \cup {k}]

-----------------------------------------------------------------------------
(* LRUCache *)

Goto(w, label) == pc' = [pc EXCEPT ![w] = label]

\* The last step of a call gives its locals and the lock back.
Release(w) ==
  /\ lock' = Free
  /\ key' = [key EXCEPT ![w] = NoKey]
  /\ value' = [value EXCEPT ![w] = None]
  /\ Goto(w, "idle")

Starts(w) ==
  /\ CACHE_ENABLED
  /\ pc[w] = "idle"
  /\ stats.hits + stats.misses + stats.stores < MaxOps

\* Late_expiry: an entry that has reached its time to live still counts as
\* alive one tick longer.
Late_expiry(k) == now - cache[k].timestamp > CACHE_TTL + 1
Expired(k) == now - cache[k].timestamp > CACHE_TTL

\* get(k), k absent: one counter changes under the lock.
get_miss(w, k) ==
  /\ Starts(w)
  /\ lock = Free
  /\ k \notin Cached
  /\ stats' = record_miss(stats)
  /\ answer' = None
  /\ UNCHANGED <<now, store, overwrites, lock, pc, key, value>>

\* get(k), k present and alive.
get_hit(w, k) ==
  /\ Starts(w)
  /\ lock = Free
  /\ k \in Cached /\ ~Expired(k)
  /\ order' = move_to_end(k)
  /\ stats' = record_hit(stats)
  /\ answer' = cache[k]
  /\ since' = Used(k)
  /\ UNCHANGED <<now, cache, overwrites, lock, pc, key, value>>

\* get(k), k present and past its time to live: up to record_eviction.
get_expired(w, k) ==
  /\ Starts(w)
  /\ lock = Free
  /\ k \in Cached /\ Expired(k)
  /\ lock' = w
  /\ key' = [key EXCEPT ![w] = k]
  /\ order' = Without(k)
  /\ cache' = [cache EXCEPT ![k] = None]
  /\ stats' = record_eviction(stats, cache[k].size)
  /\ Goto(w, "expired")
  /\ UNCHANGED <<now, since, overwrites, value, answer>>

\* ... and from record_miss.
get_expired_miss(w) ==
  /\ pc[w] = "expired"
  /\ stats' = record_miss(stats)
  /\ answer' = None
  /\ Release(w)
  /\ UNCHANGED <<now, store, overwrites>>

\* put(k, value) before the lock: the caller stamped the value when the
\* response was complete; an object over the size limit is dropped.
put(w, k, size) ==
  /\ Starts(w)
  /\ size <= MAX_OBJECT_SIZE
  /\ key' = [key EXCEPT ![w] = k]
  /\ value' = [value EXCEPT ![w] = [size |-> size, timestamp |-> now]]
  /\ Goto(w, "put")
  /\ UNCHANGED <<now, store, stats, overwrites, lock, answer>>

\* The lock is taken; an entry about to be overwritten leaves the statistics
\* and its key moves to the end.
put_remove(w) ==
  LET k == key[w]
  IN  /\ pc[w] = "put"
      /\ lock = Free
      /\ lock' = w
      /\ IF k \in Cached
         THEN /\ stats' = record_remove(stats, cache[k].size)
              /\ order' = move_to_end(k)
              /\ overwrites' = overwrites + 1
         ELSE UNCHANGED <<stats, order, overwrites>>
      /\ Goto(w, "store")
      /\ UNCHANGED <<now, cache, since, key, value, answer>>

\* self.cache[key] = value, record_store and the test of the eviction loop.
put_store(w) ==
  LET k == key[w]
  IN  /\ pc[w] = "store"
      /\ cache' = [cache EXCEPT ![k] = value[w]]
      /\ order' = IF k \in Cached THEN order ELSE Append(order, k)
      /\ stats' = record_store(stats, value[w].size)
      /\ since' = Used(k)
      /\ IF TooMany(order')
         THEN Goto(w, "evict") /\ UNCHANGED <<lock, key, value>>
         ELSE Release(w)
      /\ UNCHANGED <<now, overwrites, answer>>

\* One round of the eviction loop: popitem(last=False), record_eviction.
put_evict(w) ==
  LET victim == Head(order)
  IN  /\ pc[w] = "evict"
      /\ order' = Tail(order)
      /\ cache' = [cache EXCEPT ![victim] = None]
      /\ stats' = record_eviction(stats, cache[victim].size)
      /\ IF TooMany(order')
         THEN UNCHANGED <<lock, key, value, pc>>
         ELSE Release(w)
      /\ UNCHANGED <<now, since, overwrites, answer>>

\* clear(): a new CacheStats replaces the counters.
clear ==
  /\ lock = Free
  /\ order' = <<>>
  /\ cache' = [k \in Keys |-> None]
  /\ stats' = NewStats
  /\ since' = [k \in Keys |-> {}]
  /\ overwrites' = 0
  /\ UNCHANGED <<now, lock, locals>>

Tick ==
  /\ now < MaxTime
  /\ now' = now + 1
  /\ UNCHANGED <<store, stats, overwrites, lock, locals>>

Worker(w) ==
  \/ \E k \in Keys : get_miss(w, k) \/ get_hit(w, k) \/ get_expired(w, k)
  \/ get_expired_miss(w)
  \/ \E k \in Keys, size \in Sizes : put(w, k, size)
  \/ put_remove(w)
  \/ put_store(w)
  \/ put_evict(w)

Next == Tick \/ clear \/ \E w \in Workers : Worker(w)

Spec == Init /\ [][Next]_vars

-----------------------------------------------------------------------------
(* Properties *)

TypeOK ==
  /\ now \in Nat
  /\ order \in Seq(Keys)
  /\ cache \in [Keys -> Value]
  /\ stats \in Stats
  /\ lock \in Workers \cup {Free}
  /\ pc \in [Workers -> PCs]
  /\ key \in [Workers -> Keys \cup {NoKey}]
  /\ value \in [Workers -> Value]
  /\ answer \in Value
  /\ since \in [Keys -> SUBSET Keys]
  /\ overwrites \in Nat

\* The entry that put_remove has subtracted and put_store not yet replaced.
Overwriting == {w \in Workers : pc[w] = "store" /\ key[w] \in Cached}

Weight == [k \in Keys |-> cache[k].size]
Bytes == SumFunctionOnSet(Weight, Cached)

\* The entry count describes the store exactly, whenever the dashboard looks,
\* except that while a put replaces an entry it lacks the old one; and what
\* was stored is still there, was evicted or was overwritten.  So the
\* max(0, ..) of record_eviction and record_remove never hides a miscount.
CountersAgree ==
  /\ stats.current_entries = Len(order) - (IF Overwriting = {} THEN 0 ELSE 1)
  /\ stats.stores = stats.current_entries + stats.evictions + overwrites

\* The byte count describes the store exactly between the calls.
BytesAgree == lock = Free => stats.current_bytes = Bytes

NoKeyTwice == \A i, j \in 1..Len(order) : order[i] = order[j] => i = j

\* The store holds no key twice, and CAPACITY entries at most: one more only
\* while a put holds the lock (the eviction loop of put).
CapacityHeld ==
  /\ NoKeyTwice
  /\ Len(order) <= CAPACITY + (IF lock = Free THEN 0 ELSE 1)

\* The strengthening that makes CountersAgree and CapacityHeld inductive: who
\* holds the lock, and how full the store is at each stage of a put.
LockInv ==
  \A w \in Workers : pc[w] \in {"store", "evict", "expired"} <=> lock = w

KeyInv == \A w \in Workers : pc[w] \in {"put", "store"} => key[w] \in Keys

StageInv ==
  /\ Len(order) > CAPACITY =>
        \E w \in Workers : pc[w] = "evict" /\ Len(order) = CAPACITY + 1
  /\ \A w \in Workers : pc[w] = "evict" => Len(order) > CAPACITY

\* Whoever holds the lock, the statistics and the bound on the store agree
\* with what that worker has still to do.
IInv == TypeOK /\ LockInv /\ KeyInv /\ NoKeyTwice /\ StageInv /\ CountersAgree

\* The strengthening for the two properties below: the order is the order of
\* the last uses (a put that has moved its key uses it when it assigns); an
\* expired entry has gone; and what is about to be stored can be stored.
RecentInv ==
  /\ \A i, j \in 1..Len(order) :
       i < j => \/ order[j] \in since[order[i]]
                \/ \E w \in Workers : pc[w] = "store" /\ key[w] = order[j]
  /\ \A w \in Workers :
       pc[w] = "store" /\ key[w] \in Cached => key[w] = order[Len(order)]

CallInv ==
  \A w \in Workers :
    /\ pc[w] = "expired" => key[w] \in Keys \ Cached
    /\ pc[w] \in {"put", "store"} =>
         /\ value[w].size \in Sizes /\ value[w].size <= MAX_OBJECT_SIZE
         /\ value[w].timestamp \in 1..now

RInv == RecentInv /\ CallInv /\ now >= 1

\* The strengthening for BytesAgree: at any time the byte count is that of the
\* entries of the store but the one being overwritten.
Counted == Cached \ {key[w] : w \in Overwriting}
BytesInv == stats.current_bytes = SumFunctionOnSet(Weight, Counted)

\* What a put evicts is the least recently used entry: every other entry has
\* been stored or hit after it.
EvictsLeastRecent ==
  [][\A w \in Workers :
       put_evict(w) =>
         \A k \in Cached \ {Head(order)} : k \in since[Head(order)]]_vars

-----------------------------------------------------------------------------
(* Refinement: to its callers the cache is atomic.  A put takes effect when  *)
(* it gets the lock, an eviction with the put that causes it.                *)

Entry(k, v) == [key |-> k, size |-> v.size, timestamp |-> v.timestamp]

\* The worker between record_remove and the assignment, if there is one.
Storing == \E w \in Workers : pc[w] = "store"
Storer == CHOOSE w \in Workers : pc[w] = "store"

\* The keys of the OrderedDict and their values once it has made the
\* assignment.
PutKeys ==
  IF Storing /\ key[Storer] \notin Cached THEN Append(order, key[Storer]) ELSE order
PutValue(k) == IF Storing /\ key[Storer] = k THEN value[Storer] ELSE cache[k]

\* The store a put that holds the lock is about to leave.
Settled ==
  LET new == [i \in 1..Len(PutKeys) |-> Entry(PutKeys[i], PutValue(PutKeys[i]))]
  IN  IF Len(new) > CAPACITY
      THEN SubSeq(new, Len(new) - CAPACITY + 1, Len(new))
      ELSE new

Atomic == INSTANCE AtomicCache WITH store <- Settled

\* Every lookup, store, expiry and eviction of the threads, steps of others
\* in between included, is one of AtomicCache.
ImplementsAtomicCache == Atomic!Spec
=============================================================================
