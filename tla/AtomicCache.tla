----------------------------- MODULE AtomicCache -----------------------------
(***************************************************************************)
(* What src/cache.py promises its callers: a bounded store of the          *)
(* CAPACITY responses used last, in which a lookup and a store each take   *)
(* effect at one instant and nothing is answered past its time to live.    *)
(* There is no lock and there are no statistics.                           *)
(***************************************************************************)
EXTENDS Integers, SequencesExt

CONSTANTS Keys, Sizes, CAPACITY, MAX_OBJECT_SIZE, CACHE_TTL

VARIABLES
  now,     \* time.time()
  store,   \* the cached responses, the least recently used first
  answer   \* what the last lookup returned, None for a miss

None == [size |-> 0, timestamp |-> 0]

\* The keys under which something is stored.
Stored == {store[i].key : i \in DOMAIN store}

\* What is stored under other keys than k.
Others(k) ==
  IF k \in Stored
  THEN RemoveAt(store, CHOOSE i \in DOMAIN store : store[i].key = k)
  ELSE store

\* The last CAPACITY elements of s.
Newest(s) == SubSeq(s, Len(s) - CAPACITY + 1, Len(s))
Bounded(s) == IF Len(s) > CAPACITY THEN Newest(s) ELSE s

Init ==
  /\ now = 1
  /\ store = <<>>
  /\ answer = None

Tick == now' = now + 1 /\ UNCHANGED <<store, answer>>

\* Stores a response that was complete at some time ts, possibly a while ago.
Put(k, size, ts) ==
  /\ ts <= now
  /\ size <= MAX_OBJECT_SIZE
  /\ store' = Bounded(Append(Others(k), [key |-> k, size |-> size, timestamp |-> ts]))
  /\ UNCHANGED <<now, answer>>

Hit(i) ==
  /\ now - store[i].timestamp <= CACHE_TTL
  /\ store' = Append(Others(store[i].key), store[i])
  /\ answer' = [size |-> store[i].size, timestamp |-> store[i].timestamp]
  /\ UNCHANGED now

Miss(k) ==
  /\ k \notin Stored
  /\ answer' = None
  /\ UNCHANGED <<now, store>>

\* A response past its time to live disappears.
Expire(i) ==
  /\ now - store[i].timestamp > CACHE_TTL
  /\ store' = Others(store[i].key)
  /\ UNCHANGED <<now, answer>>

Clear == store' = <<>> /\ UNCHANGED <<now, answer>>

Next ==
  \/ Tick
  \/ Clear
  \/ \E k \in Keys, size \in Sizes, ts \in 1..now : Put(k, size, ts)
  \/ \E i \in DOMAIN store : Hit(i)
  \/ \E k \in Keys : Miss(k)
  \/ \E i \in DOMAIN store : Expire(i)

Spec == Init /\ [][Next]_<<now, store, answer>>
=============================================================================
