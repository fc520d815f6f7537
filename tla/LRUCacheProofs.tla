--------------------------- MODULE LRUCacheProofs ---------------------------
(***************************************************************************)
(* Proofs about LRUCache, for every set of workers, keys and sizes and     *)
(* every capacity.                                                         *)
(***************************************************************************)
EXTENDS LRUCache, SequenceTheorems, FiniteSetTheorems, TLAPS

-----------------------------------------------------------------------------
(* Sequences *)

LEMMA RemoveAtProperties ==
  ASSUME NEW S, NEW s \in Seq(S), NEW i \in 1..Len(s)
  PROVE  /\ RemoveAt(s, i) \in Seq(S)
         /\ Len(RemoveAt(s, i)) = Len(s) - 1
         /\ \A j \in 1..Len(s) - 1 :
              RemoveAt(s, i)[j] = IF j < i THEN s[j] ELSE s[j + 1]
<1> DEFINE front == SubSeq(s, 1, i - 1)
           back == SubSeq(s, i + 1, Len(s))
<1>1. Len(s) \in Nat /\ \A j \in 1..Len(s) : s[j] \in S
  BY LenProperties, ElementOfSeq
<1>2. \A j \in 1..i - 1 : s[j] \in S
  BY <1>1
<1>3. /\ front \in Seq(S)
      /\ Len(front) = i - 1
      /\ \A j \in 1..i - 1 : front[j] = s[j]
  <2>1. 1 \in Int /\ i - 1 \in Int /\ i \in 1..Len(s)
    BY <1>1
  <2>2. /\ front \in Seq(S)
        /\ Len(front) = IF 1 <= i - 1 THEN i - 1 - 1 + 1 ELSE 0
        /\ \A j \in 1..i - 1 - 1 + 1 : front[j] = s[1 + j - 1]
    BY <1>2, <2>1, SubSeqProperties
  <2> QED
    BY <1>1, <2>1, <2>2
<1>4. /\ back \in Seq(S)
      /\ Len(back) = Len(s) - i
      /\ \A j \in 1..Len(s) - i : back[j] = s[i + j]
  <2>1. i + 1 \in Int /\ Len(s) \in Int /\ i \in 1..Len(s)
    BY <1>1
  <2>2. \A j \in i + 1..Len(s) : s[j] \in S
    BY <1>1
  <2>3. /\ back \in Seq(S)
        /\ Len(back) = IF i + 1 <= Len(s) THEN Len(s) - (i + 1) + 1 ELSE 0
        /\ \A j \in 1..Len(s) - (i + 1) + 1 : back[j] = s[i + 1 + j - 1]
    BY <2>1, <2>2, SubSeqProperties
  <2> QED
    BY <1>1, <2>1, <2>3
<1>5. RemoveAt(s, i) = front \o back
  BY DEF RemoveAt
<1>6. /\ front \o back \in Seq(S)
      /\ Len(front \o back) = Len(front) + Len(back)
      /\ \A j \in 1..Len(front) + Len(back) :
           (front \o back)[j] = IF j <= Len(front) THEN front[j]
                                ELSE back[j - Len(front)]
  BY <1>3, <1>4, ConcatProperties
<1> HIDE DEF front, back
<1>7. i \in Nat /\ Len(s) \in Nat /\ 1 <= i /\ i <= Len(s)
  BY <1>1
<1>8. ASSUME NEW j \in 1..Len(s) - 1
      PROVE  (front \o back)[j] = IF j < i THEN s[j] ELSE s[j + 1]
  <2>1. CASE j < i
    BY <1>3, <1>4, <1>6, <1>7, <2>1
  <2>2. CASE ~(j < i)
    <3>1. j - (i - 1) \in 1..Len(s) - i /\ i + (j - (i - 1)) = j + 1
      BY <1>7, <2>2
    <3>2. /\ j \in 1..Len(front) + Len(back)
          /\ ~(j <= Len(front))
          /\ j - Len(front) = j - (i - 1)
      BY <1>3, <1>4, <1>7, <2>2
    <3>3. (front \o back)[j] = back[j - (i - 1)]
      BY <1>6, <3>2
    <3>4. back[j - (i - 1)] = s[j + 1]
      BY <1>4, <3>1
    <3> QED
      BY <2>2, <3>3, <3>4
  <2> QED
    BY <2>1, <2>2
<1> QED
  BY <1>3, <1>4, <1>5, <1>6, <1>7, <1>8

LEMMA AppendFacts ==
  ASSUME NEW S, NEW s \in Seq(S), NEW e \in S
  PROVE  /\ Append(s, e) \in Seq(S)
         /\ Len(Append(s, e)) = Len(s) + 1
         /\ \A j \in 1..Len(s) : Append(s, e)[j] = s[j]
         /\ Append(s, e)[Len(s) + 1] = e
BY AppendProperties

-----------------------------------------------------------------------------
(* The OrderedDict *)

LEMMA AtFinds ==
  ASSUME NEW k \in Cached
  PROVE  At(k) \in 1..Len(order) /\ order[At(k)] = k
<1>1. \E i \in 1..Len(order) : order[i] = k
  BY DEF Cached
<1> QED
  BY <1>1 DEF At

\* Deleting a key leaves every other key, and none twice.
LEMMA WithoutProperties ==
  ASSUME order \in Seq(Keys), NoKeyTwice, NEW k \in Cached
  PROVE  /\ Without(k) \in Seq(Keys)
         /\ Len(Without(k)) = Len(order) - 1
         /\ \A i \in 1..Len(Without(k)) : Without(k)[i] \in Cached \ {k}
         /\ \A j \in Cached \ {k} :
              \E i \in 1..Len(Without(k)) : Without(k)[i] = j
         /\ \A i, j \in 1..Len(Without(k)) :
              Without(k)[i] = Without(k)[j] => i = j
<1> DEFINE n == Len(order)
           p == At(k)
           s == Without(k)
<1>1. n \in Nat
  BY LenProperties
<1>2. p \in 1..n /\ order[p] = k
  BY AtFinds
<1>3. /\ s \in Seq(Keys)
      /\ Len(s) = n - 1
      /\ \A j \in 1..n - 1 : s[j] = IF j < p THEN order[j] ELSE order[j + 1]
  BY <1>2, RemoveAtProperties DEF Without
<1> HIDE DEF p, s
<1>4. ASSUME NEW i \in 1..n - 1
      PROVE  \E m \in 1..n : m # p /\ s[i] = order[m] /\ m = IF i < p THEN i ELSE i + 1
  <2>1. CASE i < p
    BY <1>1, <1>2, <1>3, <2>1
  <2>2. CASE ~(i < p)
    BY <1>1, <1>2, <1>3, <2>2
  <2> QED
    BY <2>1, <2>2
<1>5. \A i \in 1..n - 1 : s[i] \in Cached \ {k}
  BY <1>2, <1>4 DEF NoKeyTwice, Cached
<1>6. ASSUME NEW j \in Cached \ {k}
      PROVE  \E i \in 1..n - 1 : s[i] = j
  <2>1. PICK m \in 1..n : order[m] = j
    BY DEF Cached
  <2>2. m # p
    BY <1>2, <2>1
  <2>3. CASE m < p
    BY <1>1, <1>2, <1>3, <2>1, <2>3
  <2>4. CASE m > p
    <3>1. m - 1 \in 1..n - 1 /\ ~(m - 1 < p) /\ m - 1 + 1 = m
      BY <1>1, <1>2, <2>4
    <3> QED
      BY <1>3, <2>1, <3>1
  <2> QED
    BY <1>2, <2>2, <2>3, <2>4
<1>7. ASSUME NEW i \in 1..n - 1, NEW j \in 1..n - 1, s[i] = s[j]
      PROVE  i = j
  <2>1. PICK a \in 1..n : a # p /\ s[i] = order[a] /\ a = IF i < p THEN i ELSE i + 1
    BY <1>4
  <2>2. PICK b \in 1..n : b # p /\ s[j] = order[b] /\ b = IF j < p THEN j ELSE j + 1
    BY <1>4
  <2>3. a = b
    BY <1>7, <2>1, <2>2 DEF NoKeyTwice
  <2> QED
    BY <1>1, <1>2, <2>1, <2>2, <2>3
<1> QED
  BY <1>3, <1>5, <1>6, <1>7 DEF s

\* Moving a key to the end changes neither the keys nor their number.
LEMMA MoveProperties ==
  ASSUME order \in Seq(Keys), NoKeyTwice, NEW k \in Cached
  PROVE  /\ move_to_end(k) \in Seq(Keys)
         /\ Len(move_to_end(k)) = Len(order)
         /\ Cached = {move_to_end(k)[i] : i \in 1..Len(move_to_end(k))}
         /\ \A i, j \in 1..Len(move_to_end(k)) :
              move_to_end(k)[i] = move_to_end(k)[j] => i = j
<1> DEFINE s == Without(k)
           t == Append(s, k)
<1>1. Len(order) \in Nat /\ k \in Keys
  <2>1. At(k) \in 1..Len(order) /\ order[At(k)] = k
    BY AtFinds
  <2> QED
    BY <2>1, LenProperties, ElementOfSeq
<1>2. /\ s \in Seq(Keys)
      /\ Len(s) = Len(order) - 1
      /\ \A i \in 1..Len(s) : s[i] \in Cached \ {k}
      /\ \A j \in Cached \ {k} : \E i \in 1..Len(s) : s[i] = j
      /\ \A i, j \in 1..Len(s) : s[i] = s[j] => i = j
  BY WithoutProperties
<1> HIDE DEF s
<1>3. /\ t \in Seq(Keys)
      /\ Len(t) = Len(s) + 1
      /\ \A j \in 1..Len(s) : t[j] = s[j]
      /\ t[Len(s) + 1] = k
  BY <1>1, <1>2, AppendFacts
<1> HIDE DEF t
<1>4. Len(t) = Len(order)
  BY <1>1, <1>2, <1>3
<1>5. Len(s) \in Nat /\ \A i \in 1..Len(t) : i \in 1..Len(s) \/ i = Len(s) + 1
  BY <1>1, <1>2, <1>3, <1>4, AtFinds
<1>6. Len(s) + 1 \in 1..Len(t) /\ \A i \in 1..Len(s) : i \in 1..Len(t)
  BY <1>3, <1>5
<1>7. Cached \subseteq {t[i] : i \in 1..Len(t)}
  <2> SUFFICES ASSUME NEW c \in Cached
               PROVE  \E i \in 1..Len(t) : t[i] = c
    OBVIOUS
  <2>1. CASE c = k
    BY <1>3, <1>6, <2>1
  <2>2. CASE c # k
    <3>1. PICK i \in 1..Len(s) : s[i] = c
      BY <1>2, <2>2
    <3> QED
      BY <1>3, <1>6, <3>1
  <2> QED
    BY <2>1, <2>2
<1>8. {t[i] : i \in 1..Len(t)} \subseteq Cached
  BY <1>2, <1>3, <1>5
<1>9. \A i, j \in 1..Len(t) : t[i] = t[j] => i = j
  BY <1>2, <1>3, <1>5
<1>10. move_to_end(k) = t
  BY DEF move_to_end, t, s
<1> QED
  BY <1>3, <1>4, <1>7, <1>8, <1>9, <1>10

-----------------------------------------------------------------------------
(* The counters *)

LEMMA RecordTypes ==
  ASSUME NEW s \in Stats, NEW n \in Nat
  PROVE  /\ record_hit(s) \in Stats /\ record_miss(s) \in Stats
         /\ record_eviction(s, n) \in Stats
         /\ record_store(s, n) \in Stats
         /\ record_remove(s, n) \in Stats
<1>1. record_hit(s) \in Stats
  BY DEF Stats, record_hit
<1>2. record_miss(s) \in Stats
  BY DEF Stats, record_miss
<1>3. /\ s.evictions + 1 \in Nat /\ s.stores + 1 \in Nat
      /\ s.current_entries + 1 \in Nat /\ s.current_bytes + n \in Nat
      /\ AtLeastZero(s.current_entries - 1) \in Nat
      /\ AtLeastZero(s.current_bytes - n) \in Nat
  BY DEF Stats, AtLeastZero
<1>4. record_eviction(s, n) \in Stats
  BY <1>3 DEF Stats, record_eviction
<1>5. record_store(s, n) \in Stats
  BY <1>3 DEF Stats, record_store
<1>6. record_remove(s, n) \in Stats
  BY <1>3 DEF Stats, record_remove
<1> QED
  BY <1>1, <1>2, <1>4, <1>5, <1>6

\* What each record_* call does to the three counters the invariant relates.
LEMMA RecordCounts ==
  ASSUME NEW s \in Stats, NEW n \in Nat
  PROVE  /\ record_hit(s).current_entries = s.current_entries
         /\ record_hit(s).stores = s.stores
         /\ record_hit(s).evictions = s.evictions
         /\ record_miss(s).current_entries = s.current_entries
         /\ record_miss(s).stores = s.stores
         /\ record_miss(s).evictions = s.evictions
         /\ record_store(s, n).current_entries = s.current_entries + 1
         /\ record_store(s, n).stores = s.stores + 1
         /\ record_store(s, n).evictions = s.evictions
         /\ s.current_entries > 0 =>
              /\ record_eviction(s, n).current_entries = s.current_entries - 1
              /\ record_remove(s, n).current_entries = s.current_entries - 1
         /\ record_eviction(s, n).stores = s.stores
         /\ record_eviction(s, n).evictions = s.evictions + 1
         /\ record_remove(s, n).stores = s.stores
         /\ record_remove(s, n).evictions = s.evictions
BY DEF Stats, record_hit, record_miss, record_eviction, record_store,
       record_remove, AtLeastZero

LEMMA ValueFacts ==
  /\ None \in Value
  /\ \A v \in Value : v.size \in Nat
<1>1. None \in Value
  BY DEF Value, None
<1>2. \A v \in Value : v.size \in Sizes \cup {0}
  BY DEF Value
<1>3. Sizes \cup {0} \subseteq Nat
  BY CacheAssumption
<1> QED
  BY <1>1, <1>2, <1>3

\* The keys of the store are keys.
LEMMA CachedAreKeys ==
  ASSUME order \in Seq(Keys)
  PROVE  Cached \subseteq Keys /\ Len(order) \in Nat
BY LenProperties, ElementOfSeq DEF Cached

\* Nobody is between record_remove and the assignment when nobody holds the
\* lock.
LEMMA FreeMeansSettled ==
  ASSUME LockInv, lock = Free
  PROVE  /\ \A v \in Workers : pc[v] \notin {"store", "evict", "expired"}
         /\ Overwriting = {}
BY FreeAssumption DEF LockInv, Overwriting

LEMMA HolderIsAlone ==
  ASSUME LockInv, NEW w \in Workers, pc[w] \in {"store", "evict", "expired"}
  PROVE  /\ lock = w
         /\ \A v \in Workers \ {w} : pc[v] \notin {"store", "evict", "expired"}
BY DEF LockInv

-----------------------------------------------------------------------------
(* The inductive invariant *)

LEMMA CacheInit == ASSUME Init PROVE IInv
<1>1. /\ order \in Seq(Keys) /\ Len(order) = 0
      /\ stats \in Stats /\ None \in Value
  BY EmptySeq, ValueFacts DEF Init, NewStats, Stats
<1>2. TypeOK
  BY <1>1 DEF Init, TypeOK, PCs
<1>3. LockInv /\ KeyInv
  BY FreeAssumption DEF Init, LockInv, KeyInv
<1>4. NoKeyTwice /\ StageInv
  BY <1>1, CacheAssumption DEF Init, NoKeyTwice, StageInv
<1>5. Overwriting = {}
  BY DEF Init, Overwriting
<1>6. CountersAgree
  BY <1>1, <1>5 DEF Init, CountersAgree, NewStats
<1> QED
  BY <1>2, <1>3, <1>4, <1>6 DEF IInv

\* A step that leaves the order, the lock and the stages alone and changes
\* none of the counters related.
LEMMA QuietStep ==
  ASSUME IInv, order' = order, lock' = lock, pc' = pc, key' = key,
         overwrites' = overwrites,
         stats'.current_entries = stats.current_entries,
         stats'.stores = stats.stores,
         stats'.evictions = stats.evictions
  PROVE  LockInv' /\ KeyInv' /\ NoKeyTwice' /\ StageInv' /\ CountersAgree'
BY DEF IInv, LockInv, KeyInv, NoKeyTwice, StageInv, CountersAgree,
       Overwriting, Cached

LEMMA TickKeeps == ASSUME IInv, Tick PROVE IInv'
<1>1. TypeOK'
  BY DEF Tick, IInv, TypeOK, store, locals
<1> QED
  BY <1>1, QuietStep DEF Tick, IInv, store, locals

LEMMA MissKeeps ==
  ASSUME IInv, NEW w \in Workers, NEW k \in Keys, get_miss(w, k)
  PROVE  IInv'
<1>1. stats \in Stats /\ 0 \in Nat /\ stats' = record_miss(stats)
  BY DEF IInv, TypeOK, get_miss
<1>2. stats' \in Stats
  BY <1>1, RecordTypes
<1>3. TypeOK'
  BY <1>2, ValueFacts DEF get_miss, IInv, TypeOK, store
<1> QED
  BY <1>1, <1>3, RecordCounts, QuietStep DEF get_miss, IInv, store

LEMMA PutKeeps ==
  ASSUME IInv, NEW w \in Workers, NEW k \in Keys, NEW size \in Sizes,
         put(w, k, size)
  PROVE  IInv'
<1> USE DEF IInv
<1>1. /\ order' = order /\ lock' = lock /\ stats' = stats
      /\ overwrites' = overwrites /\ cache' = cache /\ since' = since
      /\ now' = now /\ answer' = answer
      /\ pc[w] = "idle"
      /\ pc' = [pc EXCEPT ![w] = "put"]
      /\ key' = [key EXCEPT ![w] = k]
      /\ value' = [value EXCEPT ![w] = [size |-> size, timestamp |-> now]]
  BY DEF put, Starts, Goto, store
<1>2. TypeOK'
  <2>1. [size |-> size, timestamp |-> now] \in Value
    BY DEF TypeOK, Value
  <2> QED
    BY <1>1, <2>1 DEF TypeOK, PCs
<1>3. \A v \in Workers : \A l \in {"store", "evict", "expired"} :
        (pc'[v] = l) <=> (pc[v] = l)
  BY <1>1 DEF TypeOK
<1>4. LockInv'
  BY <1>1, <1>3 DEF LockInv
<1>5. KeyInv'
  BY <1>1 DEF KeyInv, TypeOK
<1>6. StageInv'
  BY <1>1, <1>3 DEF StageInv
<1>7. Overwriting' = Overwriting
  BY <1>1, <1>3 DEF Overwriting, Cached, TypeOK
<1>8. NoKeyTwice' /\ CountersAgree'
  BY <1>1, <1>7 DEF NoKeyTwice, CountersAgree
<1> QED
  BY <1>2, <1>4, <1>5, <1>6, <1>8

\* With the lock free, no put is in its eviction loop.
LEMMA FreeMeansBounded ==
  ASSUME IInv, lock = Free
  PROVE  Len(order) <= CAPACITY /\ stats.current_entries = Len(order)
<1>1. Overwriting = {} /\ \A v \in Workers : pc[v] # "evict"
  BY FreeMeansSettled DEF IInv
<1>2. Len(order) \in Nat /\ CAPACITY \in Nat
  BY CachedAreKeys, CacheAssumption DEF IInv, TypeOK
<1> QED
  BY <1>1, <1>2 DEF IInv, StageInv, CountersAgree

LEMMA HitKeeps ==
  ASSUME IInv, NEW w \in Workers, NEW k \in Keys, get_hit(w, k)
  PROVE  IInv'
<1> USE DEF IInv
<1>1. /\ lock = Free /\ lock' = lock /\ k \in Cached
      /\ order' = move_to_end(k) /\ stats' = record_hit(stats)
      /\ pc' = pc /\ key' = key /\ overwrites' = overwrites
      /\ order \in Seq(Keys) /\ stats \in Stats /\ 0 \in Nat
  BY DEF get_hit, TypeOK
<1>2. /\ order' \in Seq(Keys) /\ Len(order') = Len(order) /\ NoKeyTwice'
  BY <1>1, MoveProperties DEF NoKeyTwice
<1>3. stats' \in Stats
  BY <1>1, RecordTypes
<1>4. TypeOK'
  <2>1. since' \in [Keys -> SUBSET Keys]
    BY DEF get_hit, Used, TypeOK
  <2>2. answer' \in Value
    BY DEF get_hit, TypeOK
  <2> QED
    BY <1>1, <1>2, <1>3, <2>1, <2>2 DEF get_hit, TypeOK
<1>5. LockInv' /\ KeyInv'
  BY <1>1 DEF LockInv, KeyInv
<1>6. StageInv'
  BY <1>1, <1>2 DEF StageInv
<1>7. Overwriting = {} /\ Overwriting' = {}
  BY <1>1, FreeMeansSettled DEF Overwriting
<1>8. CountersAgree'
  BY <1>1, <1>2, <1>7, RecordCounts DEF CountersAgree
<1> QED
  BY <1>2, <1>4, <1>5, <1>6, <1>8

LEMMA ExpiredKeeps ==
  ASSUME IInv, NEW w \in Workers, NEW k \in Keys, get_expired(w, k)
  PROVE  IInv'
<1> USE DEF IInv
<1>1. /\ lock = Free /\ lock' = w /\ k \in Cached /\ pc[w] = "idle"
      /\ order' = Without(k)
      /\ stats' = record_eviction(stats, cache[k].size)
      /\ pc' = [pc EXCEPT ![w] = "expired"]
      /\ key' = [key EXCEPT ![w] = k]
      /\ overwrites' = overwrites
      /\ order \in Seq(Keys) /\ stats \in Stats /\ cache[k].size \in Nat
  BY ValueFacts DEF get_expired, Starts, Goto, TypeOK
<1>2. Len(order) \in Nat /\ Len(order) <= CAPACITY
  BY <1>1, CachedAreKeys, FreeMeansBounded
<1>3. /\ order' \in Seq(Keys) /\ Len(order') = Len(order) - 1 /\ NoKeyTwice'
  BY <1>1, WithoutProperties DEF NoKeyTwice
<1>4. stats' \in Stats
  BY <1>1, RecordTypes
<1>5. TypeOK'
  <2>1. cache' \in [Keys -> Value]
    BY ValueFacts DEF get_expired, TypeOK
  <2>2. pc' \in [Workers -> PCs] /\ key' \in [Workers -> Keys \cup {NoKey}]
    BY <1>1 DEF TypeOK, PCs
  <2> QED
    BY <1>1, <1>3, <1>4, <2>1, <2>2 DEF get_expired, TypeOK
<1>6. \A v \in Workers : pc[v] \notin {"store", "evict", "expired"}
  BY <1>1, FreeMeansSettled
<1>7. LockInv'
  BY <1>1, <1>6, FreeAssumption DEF LockInv, TypeOK
<1>8. KeyInv'
  BY <1>1 DEF KeyInv, TypeOK
<1>9. \A v \in Workers : pc'[v] \notin {"store", "evict"}
  BY <1>1, <1>6 DEF TypeOK
<1>10. Len(order') \in Nat /\ Len(order') <= CAPACITY
  BY <1>2, <1>3, CachedAreKeys, CacheAssumption, LenProperties
<1>11. StageInv'
  BY <1>9, <1>10, CacheAssumption DEF StageInv
<1>12. Overwriting' = {}
  BY <1>9 DEF Overwriting
<1>13. stats.current_entries = Len(order) /\ stats.current_entries > 0
  BY <1>1, <1>2, <1>3, <1>10, FreeMeansBounded
<1>14. CountersAgree'
  <2>1. /\ stats'.current_entries = stats.current_entries - 1
        /\ stats'.stores = stats.stores
        /\ stats'.evictions = stats.evictions + 1
    BY <1>1, <1>13, RecordCounts
  <2>2. /\ stats.stores = stats.current_entries + stats.evictions + overwrites
        /\ stats.evictions \in Nat /\ overwrites \in Nat
    BY <1>1 DEF CountersAgree, TypeOK, Stats
  <2> QED
    BY <1>1, <1>2, <1>3, <1>12, <1>13, <2>1, <2>2 DEF CountersAgree
<1> QED
  BY <1>3, <1>5, <1>7, <1>8, <1>11, <1>14

\* The end of a call: the worker holds nothing any more.
LEMMA ReleaseFacts ==
  ASSUME TypeOK, LockInv, KeyInv, NEW w \in Workers,
         pc[w] \in {"store", "evict", "expired"}, Release(w)
  PROVE  /\ pc' \in [Workers -> PCs]
         /\ key' \in [Workers -> Keys \cup {NoKey}]
         /\ value' \in [Workers -> Value]
         /\ lock' \in Workers \cup {Free}
         /\ LockInv' /\ KeyInv'
         /\ \A v \in Workers : pc'[v] \notin {"store", "evict", "expired"}
<1>1. pc' = [pc EXCEPT ![w] = "idle"] /\ pc \in [Workers -> PCs]
  BY DEF Release, Goto, TypeOK
<1>2. pc' \in [Workers -> PCs]
  BY <1>1 DEF PCs
<1>3. key' \in [Workers -> Keys \cup {NoKey}]
  BY DEF Release, TypeOK
<1>4. value' \in [Workers -> Value]
  BY ValueFacts DEF Release, TypeOK
<1>5. \A v \in Workers : pc'[v] \notin {"store", "evict", "expired"}
  BY <1>1, HolderIsAlone
<1>6. lock' = Free
  BY DEF Release
<1>7. LockInv'
  BY <1>5, <1>6, FreeAssumption DEF LockInv
<1>8. KeyInv'
  <2>1. \A v \in Workers \ {w} : pc'[v] = pc[v] /\ key'[v] = key[v]
    BY <1>1 DEF Release, TypeOK
  <2>2. pc'[w] = "idle"
    BY <1>1
  <2> QED
    BY <2>1, <2>2 DEF KeyInv
<1> QED
  BY <1>2, <1>3, <1>4, <1>5, <1>6, <1>7, <1>8

LEMMA ExpiredMissKeeps ==
  ASSUME IInv, NEW w \in Workers, get_expired_miss(w)
  PROVE  IInv'
<1> USE DEF IInv
<1>1. /\ pc[w] = "expired" /\ Release(w)
      /\ stats' = record_miss(stats) /\ stats \in Stats /\ 0 \in Nat
      /\ order' = order /\ cache' = cache /\ since' = since
      /\ overwrites' = overwrites /\ now' = now /\ answer' = None
  BY DEF get_expired_miss, store, TypeOK
<1>2. stats' \in Stats
  BY <1>1, RecordTypes
<1>3. TypeOK' /\ LockInv' /\ KeyInv'
  BY <1>1, <1>2, ReleaseFacts, ValueFacts DEF TypeOK
<1>4. \A v \in Workers : pc[v] \notin {"store", "evict"}
  BY <1>1, HolderIsAlone
<1>5. \A v \in Workers : pc'[v] \notin {"store", "evict", "expired"}
  BY <1>1, ReleaseFacts
<1>6. StageInv'
  BY <1>1, <1>4, <1>5 DEF StageInv
<1>7. Overwriting = {} /\ Overwriting' = {}
  BY <1>4, <1>5 DEF Overwriting
<1>8. NoKeyTwice' /\ CountersAgree'
  BY <1>1, <1>7, RecordCounts DEF NoKeyTwice, CountersAgree
<1> QED
  BY <1>3, <1>6, <1>8

\* The old entry leaves the statistics; its worker is now the one overwriting.
LEMMA PutRemoveKeeps ==
  ASSUME IInv, NEW w \in Workers, put_remove(w)
  PROVE  IInv'
<1> USE DEF IInv
<1>1. /\ pc[w] = "put" /\ lock = Free /\ lock' = w
      /\ pc' = [pc EXCEPT ![w] = "store"]
      /\ key' = key /\ key[w] \in Keys
      /\ order \in Seq(Keys) /\ stats \in Stats /\ overwrites \in Nat
      /\ cache \in [Keys -> Value]
  BY DEF put_remove, Goto, TypeOK, KeyInv
<1>2. \A v \in Workers : pc[v] \notin {"store", "evict", "expired"}
  BY <1>1, FreeMeansSettled
<1>3. /\ pc' \in [Workers -> PCs] /\ pc'[w] = "store"
      /\ \A v \in Workers \ {w} : pc'[v] = pc[v]
  BY <1>1 DEF TypeOK, PCs
<1>4. LockInv'
  BY <1>1, <1>2, <1>3, FreeAssumption DEF LockInv
<1>5. KeyInv'
  BY <1>1, <1>3 DEF KeyInv
<1>6. Len(order) \in Nat /\ Len(order) <= CAPACITY
      /\ stats.current_entries = Len(order)
      /\ stats.stores = stats.current_entries + stats.evictions + overwrites
  BY <1>1, CachedAreKeys, FreeMeansBounded DEF CountersAgree
<1>7. \A v \in Workers : pc'[v] # "evict"
  BY <1>2, <1>3
<1>8. CASE key[w] \in Cached
  <2>1. /\ stats' = record_remove(stats, cache[key[w]].size)
        /\ order' = move_to_end(key[w])
        /\ overwrites' = overwrites + 1
    BY <1>8 DEF put_remove
  <2>2. cache[key[w]].size \in Nat
    BY <1>1, ValueFacts
  <2>3. /\ order' \in Seq(Keys) /\ Len(order') = Len(order) /\ NoKeyTwice'
        /\ Cached' = Cached
    <3>1. /\ move_to_end(key[w]) \in Seq(Keys)
          /\ Len(move_to_end(key[w])) = Len(order)
          /\ Cached = {move_to_end(key[w])[i] :
                         i \in 1..Len(move_to_end(key[w]))}
          /\ \A i, j \in 1..Len(move_to_end(key[w])) :
               move_to_end(key[w])[i] = move_to_end(key[w])[j] => i = j
      BY <1>1, <1>8, MoveProperties
    <3>2. Cached' = {order'[i] : i \in 1..Len(order')}
      BY DEF Cached
    <3> QED
      BY <2>1, <3>1, <3>2 DEF NoKeyTwice
  <2>4. stats' \in Stats
    BY <1>1, <2>1, <2>2, RecordTypes
  <2>5. TypeOK'
    BY <1>1, <1>3, <2>1, <2>3, <2>4 DEF put_remove, TypeOK
  <2>6. StageInv'
    BY <1>6, <1>7, <2>3, CacheAssumption DEF StageInv
  <2>7. w \in Overwriting'
    BY <1>1, <1>3, <1>8, <2>3 DEF Overwriting
  <2>8. Len(order) > 0
    BY <1>6, <1>8 DEF Cached
  <2>9. /\ stats'.current_entries = stats.current_entries - 1
        /\ stats'.stores = stats.stores
        /\ stats'.evictions = stats.evictions
    BY <1>1, <1>6, <2>1, <2>2, <2>8, RecordCounts
  <2>10. stats.evictions \in Nat
    BY <1>1 DEF Stats
  <2>11. CountersAgree'
    BY <1>1, <1>6, <2>1, <2>3, <2>7, <2>9, <2>10 DEF CountersAgree
  <2> QED
    BY <1>4, <1>5, <2>3, <2>5, <2>6, <2>11
<1>9. CASE key[w] \notin Cached
  <2>1. stats' = stats /\ order' = order /\ overwrites' = overwrites
    BY <1>9 DEF put_remove
  <2>2. TypeOK'
    BY <1>1, <1>3, <2>1 DEF put_remove, TypeOK
  <2>3. StageInv'
    BY <1>6, <1>7, <2>1, CacheAssumption DEF StageInv
  <2>4. Overwriting' = {}
    BY <1>1, <1>2, <1>3, <1>9, <2>1 DEF Overwriting, Cached
  <2>5. NoKeyTwice' /\ CountersAgree'
    BY <1>6, <2>1, <2>4 DEF NoKeyTwice, CountersAgree
  <2> QED
    BY <1>4, <1>5, <2>2, <2>3, <2>5
<1> QED
  BY <1>8, <1>9

\* The end of put_store and of a round of put_evict: the worker either goes on
\* with the loop or lets go.
LEMMA LoopFacts ==
  ASSUME TypeOK, LockInv, KeyInv, CAPACITY \in Nat,
         NEW w \in Workers, pc[w] \in {"store", "evict"},
         Len(order') \in Nat, Len(order') <= CAPACITY + 1,
         IF Len(order') > CAPACITY
         THEN pc' = [pc EXCEPT ![w] = "evict"] /\ UNCHANGED <<lock, key, value>>
         ELSE Release(w)
  PROVE  /\ pc' \in [Workers -> PCs]
         /\ key' \in [Workers -> Keys \cup {NoKey}]
         /\ value' \in [Workers -> Value]
         /\ lock' \in Workers \cup {Free}
         /\ LockInv' /\ KeyInv' /\ StageInv'
         /\ Overwriting' = {}
<1>1. CASE Len(order') > CAPACITY
  <2>1. /\ pc' = [pc EXCEPT ![w] = "evict"]
        /\ lock' = lock /\ key' = key /\ value' = value
    BY <1>1
  <2>2. /\ pc' \in [Workers -> PCs] /\ pc'[w] = "evict"
        /\ \A v \in Workers \ {w} : pc'[v] = pc[v]
    BY <2>1 DEF TypeOK, PCs
  <2>3. \A v \in Workers \ {w} : pc[v] \notin {"store", "evict", "expired"}
    BY HolderIsAlone
  <2>4. LockInv'
    BY <2>1, <2>2, <2>3 DEF LockInv
  <2>5. KeyInv'
    BY <2>1, <2>2 DEF KeyInv
  <2>6. Len(order') = CAPACITY + 1
    BY <1>1
  <2>7. StageInv'
    BY <1>1, <2>2, <2>3, <2>6 DEF StageInv
  <2>8. Overwriting' = {}
    BY <2>2, <2>3 DEF Overwriting
  <2> QED
    BY <2>1, <2>2, <2>4, <2>5, <2>7, <2>8 DEF TypeOK
<1>2. CASE ~(Len(order') > CAPACITY)
  <2>1. Release(w)
    BY <1>2
  <2>2. \A v \in Workers : pc'[v] \notin {"store", "evict", "expired"}
    BY <2>1, ReleaseFacts
  <2>3. StageInv'
    BY <1>2, <2>2 DEF StageInv
  <2>4. Overwriting' = {}
    BY <2>2 DEF Overwriting
  <2> QED
    BY <2>1, <2>3, <2>4, ReleaseFacts
<1> QED
  BY <1>1, <1>2

LEMMA PutStoreKeeps ==
  ASSUME IInv, NEW w \in Workers, put_store(w)
  PROVE  IInv'
<1> USE DEF IInv
<1> DEFINE k == key[w]
<1>1. /\ pc[w] = "store" /\ k \in Keys
      /\ order \in Seq(Keys) /\ stats \in Stats /\ overwrites \in Nat
      /\ value[w] \in Value /\ value[w].size \in Nat
      /\ CAPACITY \in Nat
  BY ValueFacts, CacheAssumption DEF put_store, TooMany, TypeOK, KeyInv
<1>2. /\ stats' = record_store(stats, value[w].size)
      /\ order' = IF k \in Cached THEN order ELSE Append(order, k)
      /\ cache' = [cache EXCEPT ![k] = value[w]]
      /\ since' = Used(k)
      /\ now' = now /\ overwrites' = overwrites /\ answer' = answer
      /\ IF Len(order') > CAPACITY
         THEN pc' = [pc EXCEPT ![w] = "evict"] /\ UNCHANGED <<lock, key, value>>
         ELSE Release(w)
  BY DEF put_store, Goto, TooMany
<1>3. Len(order) \in Nat /\ \A i \in 1..Len(order) : order[i] \in Cached
  BY <1>1, CachedAreKeys DEF Cached
<1>4. \A v \in Workers : pc[v] # "evict"
  BY <1>1, HolderIsAlone
<1>5. Len(order) <= CAPACITY
  BY <1>1, <1>3, <1>4 DEF StageInv
<1>6. /\ order' \in Seq(Keys) /\ NoKeyTwice'
      /\ Len(order') = IF k \in Cached THEN Len(order) ELSE Len(order) + 1
  <2>1. CASE k \in Cached
    BY <1>1, <1>2, <2>1 DEF NoKeyTwice
  <2>2. CASE k \notin Cached
    <3>1. order' = Append(order, k)
      BY <1>2, <2>2
    <3>2. /\ order' \in Seq(Keys) /\ Len(order') = Len(order) + 1
          /\ \A i \in 1..Len(order) : order'[i] = order[i]
          /\ order'[Len(order) + 1] = k
      BY <1>1, <3>1, AppendFacts
    <3>3. \A i \in 1..Len(order') : i \in 1..Len(order) \/ i = Len(order) + 1
      BY <1>3, <3>2
    <3>4. NoKeyTwice'
      BY <1>3, <2>2, <3>2, <3>3 DEF NoKeyTwice
    <3> QED
      BY <2>2, <3>2, <3>4
  <2> QED
    BY <2>1, <2>2
<1>7. Len(order') \in Nat /\ Len(order') <= CAPACITY + 1
  BY <1>1, <1>3, <1>5, <1>6
<1>8. /\ pc' \in [Workers -> PCs]
      /\ key' \in [Workers -> Keys \cup {NoKey}]
      /\ value' \in [Workers -> Value]
      /\ lock' \in Workers \cup {Free}
      /\ LockInv' /\ KeyInv' /\ StageInv'
      /\ Overwriting' = {}
  BY <1>1, <1>2, <1>7, LoopFacts
<1>9. stats' \in Stats
  BY <1>1, <1>2, RecordTypes
<1>10. cache' \in [Keys -> Value] /\ since' \in [Keys -> SUBSET Keys]
  BY <1>1, <1>2 DEF TypeOK, Used
<1>11. TypeOK'
  BY <1>2, <1>6, <1>8, <1>9, <1>10 DEF TypeOK
<1>12. k \in Cached <=> Overwriting # {}
  BY <1>1, HolderIsAlone DEF Overwriting
<1>13. /\ stats'.current_entries = stats.current_entries + 1
       /\ stats'.stores = stats.stores + 1
       /\ stats'.evictions = stats.evictions
  BY <1>1, <1>2, RecordCounts
<1>14. stats.evictions \in Nat /\ stats.current_entries \in Nat
  BY <1>1 DEF Stats
<1>15. CountersAgree'
  <2>1. /\ stats.stores = stats.current_entries + stats.evictions + overwrites
        /\ stats.current_entries = Len(order) - (IF k \in Cached THEN 1 ELSE 0)
    BY <1>3, <1>12 DEF CountersAgree
  <2>2. stats'.current_entries = Len(order')
    BY <1>3, <1>6, <1>13, <1>14, <2>1
  <2>3. stats'.stores = stats'.current_entries + stats'.evictions + overwrites'
    <3>1. overwrites' = overwrites /\ overwrites \in Nat
      BY <1>1, <1>2
    <3> QED
      BY <1>13, <1>14, <2>1, <3>1
  <2> QED
    BY <1>7, <1>8, <2>2, <2>3 DEF CountersAgree
<1> QED
  BY <1>6, <1>8, <1>11, <1>15

LEMMA PutEvictKeeps ==
  ASSUME IInv, NEW w \in Workers, put_evict(w)
  PROVE  IInv'
<1> USE DEF IInv
<1> DEFINE victim == Head(order)
<1>1. /\ pc[w] = "evict"
      /\ order \in Seq(Keys) /\ stats \in Stats /\ overwrites \in Nat
      /\ CAPACITY \in Nat /\ Len(order) \in Nat
  BY CachedAreKeys, CacheAssumption DEF put_evict, TooMany, TypeOK
<1>2. /\ stats' = record_eviction(stats, cache[victim].size)
      /\ order' = Tail(order)
      /\ cache' = [cache EXCEPT ![victim] = None]
      /\ since' = since
      /\ now' = now /\ overwrites' = overwrites /\ answer' = answer
  BY DEF put_evict, TooMany
<1>3. IF Len(order') > CAPACITY
      THEN pc' = [pc EXCEPT ![w] = "evict"] /\ UNCHANGED <<lock, key, value>>
      ELSE Release(w)
  BY <1>1 DEF put_evict, TooMany, TypeOK
<1>4. Len(order) = CAPACITY + 1 /\ order # <<>>
  BY <1>1, EmptySeq DEF StageInv
<1>5. /\ victim \in Keys
      /\ order' \in Seq(Keys)
      /\ Len(order') = Len(order) - 1
      /\ \A i \in 1..Len(order') : order'[i] = order[i + 1]
  BY <1>1, <1>2, <1>4, HeadTailProperties
<1>6. NoKeyTwice'
  BY <1>1, <1>5 DEF NoKeyTwice
<1>7. Len(order') \in Nat /\ Len(order') <= CAPACITY + 1
  BY <1>1, <1>4, <1>5
<1>8. /\ pc' \in [Workers -> PCs]
      /\ key' \in [Workers -> Keys \cup {NoKey}]
      /\ value' \in [Workers -> Value]
      /\ lock' \in Workers \cup {Free}
      /\ LockInv' /\ KeyInv' /\ StageInv'
      /\ Overwriting' = {}
  BY <1>1, <1>3, <1>7, LoopFacts
<1>9. cache[victim].size \in Nat /\ cache' \in [Keys -> Value]
  BY <1>2, <1>5, ValueFacts DEF TypeOK
<1>10. stats' \in Stats
  BY <1>1, <1>2, <1>9, RecordTypes
<1>11. TypeOK'
  BY <1>2, <1>5, <1>8, <1>9, <1>10 DEF TypeOK
<1>12. Overwriting = {}
  BY <1>1, HolderIsAlone DEF Overwriting
<1>13. stats.current_entries = Len(order) /\ stats.current_entries > 0
  BY <1>1, <1>4, <1>12 DEF CountersAgree
<1>14. /\ stats'.current_entries = stats.current_entries - 1
       /\ stats'.stores = stats.stores
       /\ stats'.evictions = stats.evictions + 1
  BY <1>1, <1>2, <1>9, <1>13, RecordCounts
<1>15. stats.evictions \in Nat
  BY <1>1 DEF Stats
<1>16. CountersAgree'
  BY <1>1, <1>2, <1>5, <1>8, <1>12, <1>13, <1>14, <1>15 DEF CountersAgree
<1> QED
  BY <1>6, <1>8, <1>11, <1>16

LEMMA ClearKeeps == ASSUME IInv, clear PROVE IInv'
<1> USE DEF IInv
<1>1. /\ lock = Free /\ order' = <<>> /\ stats' = NewStats
      /\ overwrites' = 0 /\ lock' = lock /\ pc' = pc /\ key' = key
      /\ CAPACITY \in Nat
  BY CacheAssumption DEF clear, locals
<1>2. order' \in Seq(Keys) /\ Len(order') = 0 /\ stats' \in Stats
  BY <1>1, EmptySeq DEF NewStats, Stats
<1>3. TypeOK'
  BY <1>1, <1>2, ValueFacts DEF clear, locals, TypeOK
<1>4. \A v \in Workers : pc[v] \notin {"store", "evict", "expired"}
  BY <1>1, FreeMeansSettled
<1>5. LockInv' /\ KeyInv'
  BY <1>1 DEF LockInv, KeyInv
<1>6. StageInv' /\ NoKeyTwice' /\ Overwriting' = {}
  BY <1>1, <1>2, <1>4 DEF StageInv, NoKeyTwice, Overwriting
<1>7. CountersAgree'
  BY <1>1, <1>2, <1>6 DEF CountersAgree, NewStats
<1> QED
  BY <1>3, <1>5, <1>6, <1>7

-----------------------------------------------------------------------------
(* The theorems *)

LEMMA CacheInductive == IInv /\ [Next]_vars => IInv'
<1> SUFFICES ASSUME IInv, [Next]_vars PROVE IInv'
  OBVIOUS
<1>1. CASE Tick
  BY <1>1, TickKeeps
<1>2. CASE clear
  BY <1>2, ClearKeeps
<1>3. ASSUME NEW w \in Workers, Worker(w) PROVE IInv'
  BY <1>3, MissKeeps, HitKeeps, ExpiredKeeps, ExpiredMissKeeps, PutKeeps,
     PutRemoveKeeps, PutStoreKeeps, PutEvictKeeps DEF Worker
<1>4. CASE UNCHANGED vars
  BY <1>4
  DEF vars, store, locals, IInv, TypeOK, LockInv, KeyInv, NoKeyTwice, StageInv,
      CountersAgree, Overwriting, Cached
<1> QED
  BY <1>1, <1>2, <1>3, <1>4 DEF Next

\* Every reachable state of the cache satisfies the inductive invariant.
THEOREM CacheInvariant == Spec => []IInv
BY CacheInit, CacheInductive, PTL DEF Spec

\* Every variable keeps its type; in particular no counter becomes negative.
THEOREM CacheTypeCorrect == Spec => []TypeOK
<1>1. IInv => TypeOK
  BY DEF IInv
<1> QED
  BY <1>1, CacheInvariant, PTL

\* The entry count the dashboard reads is never off by more than the entry
\* being replaced, and no entry is lost between the counters (CacheStats).
THEOREM CountersAlwaysAgree == Spec => []CountersAgree
<1>1. IInv => CountersAgree
  BY DEF IInv
<1> QED
  BY <1>1, CacheInvariant, PTL

\* The store never exceeds its capacity outside a put (the eviction loop).
THEOREM CapacityAlwaysHeld == Spec => []CapacityHeld
<1>1. ASSUME IInv PROVE CapacityHeld
  <2>1. Len(order) \in Nat /\ CAPACITY \in Nat /\ NoKeyTwice
    BY <1>1, CachedAreKeys, CacheAssumption DEF IInv, TypeOK
  <2>2. CASE lock = Free
    BY <1>1, <2>1, <2>2, FreeMeansBounded DEF CapacityHeld
  <2>3. CASE lock # Free
    BY <1>1, <2>1, <2>3 DEF IInv, StageInv, CapacityHeld
  <2> QED
    BY <2>2, <2>3
<1> QED
  BY <1>1, CacheInvariant, PTL

-----------------------------------------------------------------------------
(* Sums over finite sets *)

\* The element a sum over s starts with.
First(s) == CHOOSE x \in s : TRUE

\* g gives the sum of f over each subset of S.
Sums(S, f, g) ==
  g = [s \in SUBSET S |->
         IF s = {} THEN 0
         ELSE f[First(s)] + g[s \ {First(s)}]]

LEMMA SumIs ==
  ASSUME NEW S, NEW f
  PROVE  SumFunctionOnSet(f, S) = (CHOOSE g : Sums(S, f, g))[S]
BY DEF SumFunctionOnSet, FoldFunctionOnSet, MapThenFoldSet, Sums, First

LEMMA Smallest ==
  ASSUME NEW S, IsFiniteSet(S), NEW D, D \subseteq SUBSET S, D # {}
  PROVE  \E s \in D : \A t \in D : ~(t \subseteq s /\ t # s)
<1>1. \A s \in SUBSET S : IsFiniteSet(s)
  BY FS_Subset
<1>2. D \subseteq FiniteSubsetsOf(S)
  BY <1>1 DEF FiniteSubsetsOf
<1>3. PICK s \in D : \A t \in D : ~(<<t, s>> \in StrictSubsetOrdering(S))
  BY <1>2, FS_StrictSubsetOrderingWellFounded, WFMin
<1>4. ASSUME NEW t \in D, t \subseteq s, t # s PROVE FALSE
  <2>1. <<t, s>> \in StrictSubsetOrdering(S)
    BY <1>2, <1>4 DEF StrictSubsetOrdering, FiniteSubsetsOf
  <2> QED BY <1>3, <2>1
<1> QED BY <1>4

LEMMA SumsAt ==
  ASSUME NEW S, NEW f, NEW g, Sums(S, f, g), NEW s \in SUBSET S, s # {}
  PROVE  /\ First(s) \in s
         /\ g[s] = f[First(s)] + g[s \ {First(s)}]
<1>1. First(s) \in s
  BY DEF First
<1> QED BY <1>1 DEF Sums

LEMMA SumOfNone ==
  ASSUME NEW S, NEW f, NEW g, Sums(S, f, g)
  PROVE  g[{}] = 0
<1>1. {} \in SUBSET S
  OBVIOUS
<1> QED BY <1>1 DEF Sums

\* Two sums over the same set are the same, and so are those of functions that
\* agree on it, and one of them over a smaller set.
LEMMA SumsUnique ==
  ASSUME NEW S, IsFiniteSet(S), NEW T, S \subseteq T, NEW f, NEW h,
         \A x \in S : h[x] = f[x],
         NEW g, Sums(S, f, g), NEW u, Sums(T, h, u)
  PROVE  \A s \in SUBSET S : g[s] = u[s]
<1> DEFINE D == {s \in SUBSET S : g[s] # u[s]}
<1> SUFFICES ASSUME D # {} PROVE FALSE
  OBVIOUS
<1>1. PICK s \in D : \A t \in D : ~(t \subseteq s /\ t # s)
  <2>1. D \subseteq SUBSET S
    OBVIOUS
  <2> HIDE DEF D
  <2> QED BY <2>1, Smallest
<1>2. s \in SUBSET S /\ s \in SUBSET T /\ g[s] # u[s]
  OBVIOUS
<1>3. \A t \in SUBSET S : t \notin D => g[t] = u[t]
  OBVIOUS
<1> HIDE DEF D
<1>4. s # {}
  BY <1>2, SumOfNone
<1> DEFINE x == First(s)
<1>5. x \in s /\ g[s] = f[x] + g[s \ {x}]
  BY <1>2, <1>4, SumsAt
<1>6. u[s] = h[x] + u[s \ {x}]
  BY <1>2, <1>4, SumsAt
<1> HIDE DEF x
<1>7. x \in S /\ h[x] = f[x]
  BY <1>2, <1>5
<1>8. s \ {x} \in SUBSET S /\ s \ {x} \subseteq s /\ s \ {x} # s
  BY <1>2, <1>5
<1>9. g[s \ {x}] = u[s \ {x}]
  BY <1>1, <1>3, <1>8
<1> QED BY <1>2, <1>5, <1>6, <1>7, <1>9

LEMMA SumsExist ==
  ASSUME NEW S, IsFiniteSet(S), NEW f
  PROVE  \E g : Sums(S, f, g)
<1> DEFINE D == {s \in SUBSET S : ~\E g : Sums(s, f, g)}
<1>0. \A s \in SUBSET S : s \notin D => \E g : Sums(s, f, g)
  OBVIOUS
<1>1. D \subseteq SUBSET S /\ \A s \in D : ~\E g : Sums(s, f, g)
  OBVIOUS
<1> HIDE DEF D
<1> SUFFICES ASSUME D # {} PROVE FALSE
  BY <1>0
<1>2. PICK s \in D : \A t \in D : ~(t \subseteq s /\ t # s)
  BY <1>1, Smallest
<1> DEFINE g(t) == CHOOSE g : Sums(t, f, g)
           Body(t, x) == f[x] + g(t \ {x})[t \ {x}]
           v == [t \in SUBSET s |-> IF t = {} THEN 0 ELSE Body(t, First(t))]
<1>3. \A t \in SUBSET s : t # s => Sums(t, f, g(t))
  <2> SUFFICES ASSUME NEW t \in SUBSET s, t # s PROVE \E h : Sums(t, f, h)
    BY Zenon
  <2>1. t \in SUBSET S /\ t \notin D
    BY <1>1, <1>2
  <2> QED BY <1>0, <2>1
<1> HIDE DEF g
<1>4. \A t \in SUBSET s : IsFiniteSet(t)
  BY <1>1, FS_Subset
<1>5. ASSUME NEW t \in SUBSET s, t # s PROVE v[t] = g(t)[t]
  <2>1. CASE t = {}
    <3>1. v[t] = 0
      BY <2>1
    <3>2. Sums(t, f, g(t))
      BY <1>3, <1>5
    <3> QED BY <2>1, <3>1, <3>2, SumOfNone
  <2>2. CASE t # {}
    <3>1. Sums(t, f, g(t))
      BY <1>3, <1>5
    <3>2. /\ First(t) \in t
         /\ g(t)[t] = f[First(t)] + g(t)[t \ {First(t)}]
      BY <2>2, <3>1, SumsAt
    <3>3. v[t] = Body(t, First(t))
      BY <2>2, <3>2
    <3>4. t \ {First(t)} \in SUBSET s /\ t \ {First(t)} # s /\ t \ {First(t)} \subseteq t
      BY <3>2
    <3>5. Sums(t \ {First(t)}, f, g(t \ {First(t)})) /\ IsFiniteSet(t \ {First(t)})
      BY <1>3, <1>4, <3>4
    <3>6. g(t \ {First(t)})[t \ {First(t)}] = g(t)[t \ {First(t)}]
      <4> DEFINE r == t \ {First(t)}
      <4>1. IsFiniteSet(r) /\ r \subseteq t /\ r \in SUBSET r /\ Sums(r, f, g(r)) /\ Sums(t, f, g(t))
        BY <3>1, <3>5
      <4> HIDE DEF r, v, Body
      <4>2. \A q \in SUBSET r : g(r)[q] = g(t)[q]
        BY <4>1, SumsUnique
      <4>3. g(r)[r] = g(t)[r]
        BY <4>1, <4>2
      <4> QED BY <4>3 DEF r
    <3> QED BY <3>2, <3>3, <3>6
  <2> QED BY <2>1, <2>2
<1>6. ASSUME NEW t \in SUBSET s
      PROVE  v[t] = IF t = {} THEN 0
                    ELSE f[First(t)] + v[t \ {First(t)}]
  <2>1. CASE t = {}
    BY <2>1
  <2>2. CASE t # {}
    <3>1. First(t) \in t
      BY <2>2 DEF First
    <3>2. v[t] = Body(t, First(t))
      BY <2>2, <3>1
    <3>3. t \ {First(t)} \in SUBSET s /\ t \ {First(t)} # s
      BY <3>1
    <3>4. v[t \ {First(t)}] = g(t \ {First(t)})[t \ {First(t)}]
      BY <1>5, <3>3
    <3> QED BY <2>2, <3>1, <3>2, <3>4
  <2> QED BY <2>1, <2>2
<1>7. v = [t \in SUBSET s |-> v[t]]
  OBVIOUS
<1> HIDE DEF v
<1>8. Sums(s, f, v)
  BY <1>6, <1>7 DEF Sums
<1> QED BY <1>1, <1>8

\* The sum of numbers is a number and does not depend on the order.
LEMMA SumsSplit ==
  ASSUME NEW S, IsFiniteSet(S), NEW f, \A y \in S : f[y] \in Nat, NEW g, Sums(S, f, g)
  PROVE  /\ \A s \in SUBSET S : g[s] \in Nat
         /\ \A s \in SUBSET S : \A x \in s : g[s] = f[x] + g[s \ {x}]
<1>1. \A s \in SUBSET S : g[s] \in Nat
  <2> DEFINE D == {s \in SUBSET S : g[s] \notin Nat}
  <2>1. D \subseteq SUBSET S /\ (\A s \in D : g[s] \notin Nat)
        /\ \A s \in SUBSET S : s \notin D => g[s] \in Nat
    OBVIOUS
  <2> HIDE DEF D
  <2> SUFFICES ASSUME D # {} PROVE FALSE
    BY <2>1
  <2>2. PICK s \in D : \A t \in D : ~(t \subseteq s /\ t # s)
    BY <2>1, Smallest
  <2>3. s \in SUBSET S /\ s # {}
    <3>1. g[{}] = 0
      BY SumOfNone
    <3>2. g[{}] \in Nat
      BY <3>1
    <3> QED BY <2>1, <3>2
  <2>4. First(s) \in s /\ g[s] = f[First(s)] + g[s \ {First(s)}]
    BY <2>3, SumsAt
  <2>5. s \ {First(s)} \in SUBSET S /\ s \ {First(s)} \notin D
    BY <2>2, <2>3, <2>4
  <2>6. g[s \ {First(s)}] \in Nat /\ f[First(s)] \in Nat
    BY <2>1, <2>3, <2>4, <2>5
  <2> QED BY <2>1, <2>4, <2>6
<1>2. \A s \in SUBSET S : \A x \in s : g[s] = f[x] + g[s \ {x}]
  <2> DEFINE D == {s \in SUBSET S : \E x \in s : g[s] # f[x] + g[s \ {x}]}
  <2>1. D \subseteq SUBSET S /\ (\A s \in D : \E x \in s : g[s] # f[x] + g[s \ {x}])
        /\ \A s \in SUBSET S : s \notin D => \A x \in s : g[s] = f[x] + g[s \ {x}]
    OBVIOUS
  <2> HIDE DEF D
  <2> SUFFICES ASSUME D # {} PROVE FALSE
    BY <2>1
  <2>2. PICK s \in D : \A t \in D : ~(t \subseteq s /\ t # s)
    BY <2>1, Smallest
  <2>3. s \in SUBSET S
    BY <2>1
  <2>4. PICK x \in s : g[s] # f[x] + g[s \ {x}]
    BY <2>1
  <2> DEFINE y == First(s)
             r == s \ {y}
             q == s \ {x}
             b == (s \ {y}) \ {x}
  <2>5. y \in s /\ g[s] = f[y] + g[r]
    BY <2>3, <2>4, SumsAt
  <2>6. x # y
    BY <2>4, <2>5
  <2>7. /\ r \in SUBSET S /\ r \notin D /\ x \in r
        /\ q \in SUBSET S /\ q \notin D /\ y \in q /\ b \in SUBSET S
    <3>1. r \in SUBSET S /\ q \in SUBSET S /\ b \in SUBSET S
      BY <2>3
    <3>2. x \in r /\ y \in q
      BY <2>4, <2>5, <2>6
    <3>3. r \subseteq s /\ r # s /\ q \subseteq s /\ q # s
      BY <2>4, <2>5
    <3> HIDE DEF r, q, b
    <3> QED BY <2>2, <3>1, <3>2, <3>3
  <2>8. b = q \ {y} /\ b = r \ {x}
    <3>1. b = (s \ {x}) \ {y}
      OBVIOUS
    <3> QED BY <3>1
  <2> HIDE DEF y, r, q, b
  <2>9. g[r] = f[x] + g[b] /\ g[q] = f[y] + g[b]
    <3>1. g[r] = f[x] + g[r \ {x}]
      BY <2>1, <2>7
    <3>2. g[q] = f[y] + g[q \ {y}]
      BY <2>1, <2>7
    <3> QED BY <2>8, <3>1, <3>2
  <2>10. f[x] \in Nat /\ f[y] \in Nat /\ g[b] \in Nat
    BY <1>1, <2>3, <2>4, <2>5, <2>7
  <2>11. g[s] = f[x] + g[q]
    BY <2>5, <2>9, <2>10
  <2> QED BY <2>4, <2>11 DEF q
<1> QED BY <1>1, <1>2

\* What SumFunctionOnSet computes, in the one form the proofs below use.
LEMMA SumDefined ==
  ASSUME NEW S, IsFiniteSet(S), NEW f
  PROVE  \E g : Sums(S, f, g) /\ SumFunctionOnSet(f, S) = g[S]
<1>1. \E g : Sums(S, f, g)
  BY SumsExist
<1> QED BY <1>1, SumIs

LEMMA SumEmpty == ASSUME NEW f PROVE SumFunctionOnSet(f, {}) = 0
<1>1. PICK g : Sums({}, f, g) /\ SumFunctionOnSet(f, {}) = g[{}]
  BY FS_EmptySet, SumDefined
<1> QED BY <1>1, SumOfNone

LEMMA SumAgrees ==
  ASSUME NEW S, IsFiniteSet(S), NEW f, NEW h, \A y \in S : f[y] = h[y]
  PROVE  SumFunctionOnSet(f, S) = SumFunctionOnSet(h, S)
<1>1. PICK g : Sums(S, f, g) /\ SumFunctionOnSet(f, S) = g[S]
  BY SumDefined
<1>2. PICK u : Sums(S, h, u) /\ SumFunctionOnSet(h, S) = u[S]
  BY SumDefined
<1>3. \A s \in SUBSET S : g[s] = u[s]
  BY <1>1, <1>2, SumsUnique
<1> QED BY <1>1, <1>2, <1>3

LEMMA SumSplits ==
  ASSUME NEW S, IsFiniteSet(S), NEW f, \A y \in S : f[y] \in Nat, NEW x \in S
  PROVE  /\ SumFunctionOnSet(f, S) = f[x] + SumFunctionOnSet(f, S \ {x})
         /\ SumFunctionOnSet(f, S) \in Nat /\ SumFunctionOnSet(f, S \ {x}) \in Nat
<1> DEFINE r == S \ {x}
<1>0. IsFiniteSet(r) /\ r \subseteq S /\ r \in SUBSET r /\ r \in SUBSET S /\ S \in SUBSET S
  BY FS_Subset
<1>1. PICK g : Sums(S, f, g) /\ SumFunctionOnSet(f, S) = g[S]
  BY SumDefined
<1>2. g[S] \in Nat /\ g[r] \in Nat /\ g[S] = f[x] + g[r]
  <2>1. /\ \A s \in SUBSET S : g[s] \in Nat
        /\ \A s \in SUBSET S : \A z \in s : g[s] = f[z] + g[s \ {z}]
    BY <1>1, SumsSplit
  <2> QED BY <1>0, <2>1
<1> HIDE DEF r
<1>3. PICK u : Sums(r, f, u) /\ SumFunctionOnSet(f, r) = u[r]
  BY <1>0, SumDefined
<1>4. \A s \in SUBSET r : u[s] = g[s]
  BY <1>0, <1>1, <1>3, SumsUnique
<1>5. SumFunctionOnSet(f, r) = g[r]
  BY <1>0, <1>3, <1>4
<1> QED BY <1>1, <1>2, <1>5 DEF r

-----------------------------------------------------------------------------
(* The bytes *)

\* A store of any order and values is finite, and its sizes are numbers.
LEMMA StoreFinite ==
  ASSUME NEW o \in Seq(Keys), NEW c \in [Keys -> Value]
  PROVE  /\ {o[i] : i \in 1..Len(o)} \subseteq Keys
         /\ IsFiniteSet({o[i] : i \in 1..Len(o)})
         /\ \A k \in Keys : [j \in Keys |-> c[j].size][k] = c[k].size
         /\ \A k \in Keys : c[k].size \in Nat
<1> DEFINE D == 1..Len(o)
           K == {o[i] : i \in D}
           f == [i \in D |-> o[i]]
<1>1. Len(o) \in Nat /\ \A i \in D : o[i] \in Keys
  BY LenProperties, ElementOfSeq
<1>2. IsFiniteSet(D)
  BY <1>1, FS_Interval
<1>3. f \in Surjection(D, K)
  <2>1. f \in [D -> K] /\ \A k \in K : \E i \in D : f[i] = k
    OBVIOUS
  <2> HIDE DEF D, K, f
  <2> QED BY <2>1 DEF Surjection
<1>4. IsFiniteSet(K)
  <2> HIDE DEF D, K, f
  <2> QED BY <1>2, <1>3, FS_Surjection
<1>5. \A k \in Keys : c[k].size \in Nat
  BY ValueFacts
<1> QED BY <1>1, <1>4, <1>5

LEMMA CachedFinite ==
  ASSUME TypeOK
  PROVE  /\ Cached \subseteq Keys /\ IsFiniteSet(Cached)
         /\ \A k \in Keys : Weight[k] = cache[k].size /\ Weight[k] \in Nat
<1>1. order \in Seq(Keys) /\ cache \in [Keys -> Value]
  BY DEF TypeOK
<1>2. Cached \subseteq Keys /\ IsFiniteSet(Cached)
  BY <1>1, StoreFinite DEF Cached
<1>3. \A k \in Keys : Weight[k] = cache[k].size /\ Weight[k] \in Nat
  BY <1>1, StoreFinite DEF Weight
<1> QED BY <1>2, <1>3

\* What each record_* call does to the byte count.
LEMMA RecordBytes ==
  ASSUME NEW s \in Stats, NEW n \in Nat
  PROVE  /\ record_hit(s).current_bytes = s.current_bytes
         /\ record_miss(s).current_bytes = s.current_bytes
         /\ record_store(s, n).current_bytes = s.current_bytes + n
         /\ s.current_bytes >= n =>
              /\ record_eviction(s, n).current_bytes = s.current_bytes - n
              /\ record_remove(s, n).current_bytes = s.current_bytes - n
BY DEF Stats, record_hit, record_miss, record_eviction, record_store,
       record_remove, AtLeastZero

\* Two sums over finite stores that weigh their entries alike.
LEMMA SameBytes ==
  ASSUME NEW S, IsFiniteSet(S), S \subseteq Keys,
         \A k \in S : cache'[k] = cache[k]
  PROVE  SumFunctionOnSet(Weight, S) = SumFunctionOnSet(Weight', S)
<1>1. \A k \in S : Weight[k] = Weight'[k]
  BY DEF Weight
<1> QED BY <1>1, SumAgrees

LEMMA QuietBytes ==
  ASSUME TypeOK, BytesInv, Cached' = Cached, cache' = cache,
         stats'.current_bytes = stats.current_bytes,
         \A v \in Workers : (pc'[v] = "store" => pc[v] = "store") /\ (pc[v] = "store" => pc'[v] = "store"),
         \A v \in Workers : pc[v] = "store" => key'[v] = key[v]
  PROVE  BytesInv'
<1>1. \A v \in Workers : v \in Overwriting' <=> v \in Overwriting
  BY DEF Overwriting
<1>2. Overwriting' = Overwriting
  BY <1>1 DEF Overwriting
<1>3. \A v \in Overwriting : key'[v] = key[v]
  BY DEF Overwriting
<1>4. {key'[v] : v \in Overwriting} = {key[v] : v \in Overwriting}
  BY <1>3
<1>5. Counted' = Counted
  BY <1>2, <1>4 DEF Counted
<1>6. Weight' = Weight
  BY DEF Weight
<1> QED BY <1>5, <1>6 DEF BytesInv

LEMMA MissBytes ==
  ASSUME IInv, BytesInv, NEW w \in Workers, NEW k \in Keys, get_miss(w, k)
  PROVE  BytesInv'
<1>1. /\ TypeOK /\ stats \in Stats /\ 0 \in Nat /\ stats' = record_miss(stats)
      /\ UNCHANGED <<order, cache, pc, key>>
  BY DEF IInv, TypeOK, get_miss, store
<1>2. stats'.current_bytes = stats.current_bytes /\ Cached' = Cached
  BY <1>1, RecordBytes DEF Cached
<1> QED BY <1>1, <1>2, QuietBytes

LEMMA HitBytes ==
  ASSUME IInv, BytesInv, NEW w \in Workers, NEW k \in Keys, get_hit(w, k)
  PROVE  BytesInv'
<1>1. /\ TypeOK /\ stats \in Stats /\ 0 \in Nat /\ stats' = record_hit(stats)
      /\ k \in Cached /\ order' = move_to_end(k) /\ order \in Seq(Keys) /\ NoKeyTwice
      /\ UNCHANGED <<cache, pc, key>>
  BY DEF IInv, TypeOK, get_hit
<1>2. Cached' = Cached
  BY <1>1, MoveProperties DEF Cached
<1>3. stats'.current_bytes = stats.current_bytes
  BY <1>1, RecordBytes
<1> QED BY <1>1, <1>2, <1>3, QuietBytes

LEMMA PutBytes ==
  ASSUME IInv, BytesInv, NEW w \in Workers, NEW k \in Keys, NEW size \in Sizes,
         put(w, k, size)
  PROVE  BytesInv'
<1>1. /\ TypeOK /\ pc[w] = "idle" /\ pc' = [pc EXCEPT ![w] = "put"]
      /\ key' = [key EXCEPT ![w] = k] /\ UNCHANGED <<order, cache, stats>>
  BY DEF IInv, put, Starts, Goto, store
<1>2. \A v \in Workers : /\ pc'[v] = "store" => pc[v] = "store"
                         /\ pc[v] = "store" => pc'[v] = "store" /\ key'[v] = key[v]
  BY <1>1 DEF TypeOK
<1>3. Cached' = Cached
  BY <1>1 DEF Cached
<1> QED BY <1>1, <1>2, <1>3, QuietBytes

LEMMA ExpiredMissBytes ==
  ASSUME IInv, BytesInv, NEW w \in Workers, get_expired_miss(w)
  PROVE  BytesInv'
<1>1. /\ TypeOK /\ pc[w] = "expired" /\ pc' = [pc EXCEPT ![w] = "idle"]
      /\ key' = [key EXCEPT ![w] = NoKey] /\ stats' = record_miss(stats)
      /\ stats \in Stats /\ 0 \in Nat /\ UNCHANGED <<order, cache>>
  BY DEF IInv, TypeOK, get_expired_miss, Release, Goto, store
<1>2. \A v \in Workers : /\ pc'[v] = "store" => pc[v] = "store"
                         /\ pc[v] = "store" => pc'[v] = "store" /\ key'[v] = key[v]
  BY <1>1 DEF TypeOK
<1>3. stats'.current_bytes = stats.current_bytes /\ Cached' = Cached
  BY <1>1, RecordBytes DEF Cached
<1> QED BY <1>1, <1>2, <1>3, QuietBytes

\* When nobody overwrites, every entry is counted.
LEMMA CountedAll == ASSUME Overwriting = {} PROVE Counted = Cached
BY DEF Counted

\* An entry leaves a store that is counted in full.
LEMMA EntryLeaves ==
  ASSUME TypeOK, BytesInv, Overwriting = {}, NEW k \in Cached,
         cache' = [cache EXCEPT ![k] = None]
  PROVE  /\ cache[k].size \in Nat /\ stats.current_bytes >= cache[k].size
         /\ stats.current_bytes - cache[k].size = SumFunctionOnSet(Weight, Cached \ {k})
         /\ stats.current_bytes - cache[k].size = SumFunctionOnSet(Weight', Cached \ {k})
<1>1. /\ Cached \subseteq Keys /\ IsFiniteSet(Cached)
      /\ \A j \in Keys : Weight[j] = cache[j].size /\ Weight[j] \in Nat
  BY CachedFinite
<1>2. stats.current_bytes = SumFunctionOnSet(Weight, Cached)
  BY CountedAll DEF BytesInv
<1>3. /\ SumFunctionOnSet(Weight, Cached) = Weight[k] + SumFunctionOnSet(Weight, Cached \ {k})
      /\ SumFunctionOnSet(Weight, Cached) \in Nat /\ SumFunctionOnSet(Weight, Cached \ {k}) \in Nat
  <2>1. \A j \in Cached : Weight[j] \in Nat
    BY <1>1
  <2> QED BY <1>1, <2>1, SumSplits
<1>4. SumFunctionOnSet(Weight, Cached \ {k}) = SumFunctionOnSet(Weight', Cached \ {k})
  <2>1. IsFiniteSet(Cached \ {k}) /\ Cached \ {k} \subseteq Keys
    BY <1>1, FS_Subset
  <2>2. \A j \in Cached \ {k} : cache'[j] = cache[j]
    BY <2>1 DEF TypeOK
  <2> QED BY <2>1, <2>2, SameBytes
<1>5. Weight[k] = cache[k].size /\ Weight[k] \in Nat
  BY <1>1
<1> QED BY <1>2, <1>3, <1>4, <1>5

LEMMA ExpiredBytes ==
  ASSUME IInv, BytesInv, NEW w \in Workers, NEW k \in Keys, get_expired(w, k)
  PROVE  BytesInv'
<1>1. /\ TypeOK /\ NoKeyTwice /\ order \in Seq(Keys) /\ stats \in Stats
      /\ lock = Free /\ k \in Cached /\ order' = Without(k)
      /\ cache' = [cache EXCEPT ![k] = None]
      /\ stats' = record_eviction(stats, cache[k].size)
      /\ pc' = [pc EXCEPT ![w] = "expired"]
  BY DEF IInv, TypeOK, get_expired, Goto
<1>2. /\ Overwriting = {} /\ \A v \in Workers : pc[v] # "store"
  BY <1>1, FreeMeansSettled DEF IInv
<1>3. Overwriting' = {}
  BY <1>1, <1>2 DEF Overwriting, TypeOK
<1>4. Cached' = Cached \ {k}
  <2>1. /\ \A i \in 1..Len(order') : order'[i] \in Cached \ {k}
        /\ \A j \in Cached \ {k} : \E i \in 1..Len(order') : order'[i] = j
    BY <1>1, WithoutProperties
  <2>2. Cached' = {order'[i] : i \in 1..Len(order')}
    BY DEF Cached
  <2> QED BY <2>1, <2>2
<1>5. /\ cache[k].size \in Nat /\ stats.current_bytes >= cache[k].size
      /\ stats.current_bytes - cache[k].size = SumFunctionOnSet(Weight', Cached \ {k})
  BY <1>1, <1>2, EntryLeaves
<1>6. stats'.current_bytes = stats.current_bytes - cache[k].size
  BY <1>1, <1>5, RecordBytes
<1>7. Counted' = Cached'
  BY <1>3 DEF Counted
<1> QED BY <1>4, <1>5, <1>6, <1>7 DEF BytesInv

\* The bytes of the old value go before the new one is there.
LEMMA PutRemoveBytes ==
  ASSUME IInv, BytesInv, NEW w \in Workers, put_remove(w)
  PROVE  BytesInv'
<1> DEFINE k == key[w]
<1>1. /\ TypeOK /\ NoKeyTwice /\ order \in Seq(Keys) /\ stats \in Stats /\ k \in Keys
      /\ lock = Free /\ pc[w] = "put" /\ pc' = [pc EXCEPT ![w] = "store"]
      /\ UNCHANGED <<cache, key>>
  BY DEF IInv, TypeOK, KeyInv, put_remove, Goto
<1>2. Overwriting = {} /\ \A v \in Workers : pc[v] # "store"
  BY <1>1, FreeMeansSettled DEF IInv
<1>3. pc'[w] = "store" /\ \A v \in Workers : pc'[v] = "store" => v = w
  BY <1>1, <1>2 DEF TypeOK
<1>4. Weight' = Weight /\ stats.current_bytes = SumFunctionOnSet(Weight, Cached)
  BY <1>1, <1>2, CountedAll DEF Weight, BytesInv
<1>5. CASE k \in Cached
  <2>1. stats' = record_remove(stats, cache[k].size) /\ order' = move_to_end(k)
    BY <1>5 DEF put_remove
  <2>2. Cached' = Cached
    BY <1>1, <1>5, <2>1, MoveProperties DEF Cached
  <2>3. Overwriting' = {w}
    BY <1>1, <1>3, <1>5, <2>2 DEF Overwriting
  <2>4. Counted' = Cached \ {k}
    BY <1>1, <2>2, <2>3 DEF Counted
  <2>5. /\ cache[k].size \in Nat /\ stats.current_bytes >= cache[k].size
        /\ stats.current_bytes - cache[k].size = SumFunctionOnSet(Weight, Cached \ {k})
    <3>1. /\ Cached \subseteq Keys /\ IsFiniteSet(Cached)
          /\ \A j \in Keys : Weight[j] = cache[j].size /\ Weight[j] \in Nat
      BY <1>1, CachedFinite
    <3>2. \A j \in Cached : Weight[j] \in Nat
      BY <3>1
    <3>3. /\ SumFunctionOnSet(Weight, Cached) = Weight[k] + SumFunctionOnSet(Weight, Cached \ {k})
          /\ SumFunctionOnSet(Weight, Cached \ {k}) \in Nat
      BY <1>5, <3>1, <3>2, SumSplits
    <3>4. Weight[k] = cache[k].size /\ Weight[k] \in Nat
      BY <1>1, <3>1
    <3> QED BY <1>4, <3>3, <3>4
  <2>6. stats'.current_bytes = stats.current_bytes - cache[k].size
    BY <1>1, <2>1, <2>5, RecordBytes
  <2> QED BY <1>4, <2>4, <2>5, <2>6 DEF BytesInv
<1>6. CASE k \notin Cached
  <2>1. stats' = stats /\ order' = order
    BY <1>6 DEF put_remove
  <2>2. Cached' = Cached
    BY <2>1 DEF Cached
  <2>3. Overwriting' = {}
    BY <1>1, <1>3, <1>6, <2>2 DEF Overwriting
  <2>4. Counted' = Cached
    BY <2>2, <2>3 DEF Counted
  <2> QED BY <1>4, <2>1, <2>4 DEF BytesInv
<1> QED BY <1>5, <1>6

\* Whether the key was there or not, the new value is what is counted now.
LEMMA PutStoreBytes ==
  ASSUME IInv, IInv', BytesInv, NEW w \in Workers, put_store(w)
  PROVE  BytesInv'
<1> DEFINE k == key[w]
           others == Cached \ {k}
<1>1. /\ TypeOK /\ TypeOK' /\ pc[w] = "store" /\ k \in Keys /\ stats \in Stats
      /\ order' = (IF k \in Cached THEN order ELSE Append(order, k))
      /\ cache' = [cache EXCEPT ![k] = value[w]]
      /\ stats' = record_store(stats, value[w].size)
      /\ value[w] \in Value /\ value[w].size \in Nat /\ order \in Seq(Keys)
  BY ValueFacts DEF IInv, KeyInv, TypeOK, put_store
<1>2. \A v \in Workers \ {w} : pc[v] # "store"
  BY <1>1, HolderIsAlone DEF IInv
<1>3. Overwriting' = {}
  <2>1. \A v \in Workers : pc'[v] # "store"
    BY <1>1, <1>2 DEF put_store, Release, Goto, TypeOK
  <2> QED BY <2>1 DEF Overwriting
<1>4. Counted = others
  <2>1. CASE k \in Cached
    <3>1. Overwriting = {w}
      BY <1>1, <1>2, <2>1 DEF Overwriting
    <3> QED BY <3>1 DEF Counted
  <2>2. CASE k \notin Cached
    <3>1. Overwriting = {}
      BY <1>1, <1>2, <2>2 DEF Overwriting
    <3> QED BY <2>2, <3>1 DEF Counted
  <2> QED BY <2>1, <2>2
<1>5. Cached' = Cached \cup {k}
  <2>1. CASE k \in Cached
    BY <1>1, <2>1 DEF Cached
  <2>2. CASE k \notin Cached
    <3>1. /\ Len(order') = Len(order) + 1 /\ Len(order) \in Nat
          /\ \A j \in 1..Len(order) : order'[j] = order[j]
          /\ order'[Len(order) + 1] = k
      BY <1>1, <2>2, AppendFacts, LenProperties
    <3>2. 1..Len(order') = (1..Len(order)) \cup {Len(order) + 1}
      BY <3>1
    <3>3. {order'[i] : i \in 1..Len(order')} = {order[i] : i \in 1..Len(order)} \cup {k}
      BY <3>1, <3>2
    <3> QED BY <3>3 DEF Cached
  <2> QED BY <2>1, <2>2
<1>6. /\ Cached' \subseteq Keys /\ IsFiniteSet(Cached')
      /\ \A j \in Cached' : Weight'[j] \in Nat
      /\ Weight'[k] = value[w].size
  <2>1. /\ Cached' \subseteq Keys /\ IsFiniteSet(Cached')
        /\ \A j \in Keys : Weight'[j] = cache'[j].size /\ Weight'[j] \in Nat
    <3>1. order' \in Seq(Keys) /\ cache' \in [Keys -> Value]
      BY <1>1 DEF TypeOK
    <3>2. Cached' \subseteq Keys /\ IsFiniteSet(Cached')
      BY <3>1, StoreFinite DEF Cached
    <3>3. \A j \in Keys : Weight'[j] = cache'[j].size /\ Weight'[j] \in Nat
      BY <3>1, StoreFinite DEF Weight
    <3> QED BY <3>2, <3>3
  <2>2. cache'[k] = value[w]
    BY <1>1 DEF TypeOK
  <2> QED BY <1>1, <2>1, <2>2
<1>7. /\ SumFunctionOnSet(Weight', Cached') = Weight'[k] + SumFunctionOnSet(Weight', Cached' \ {k})
      /\ SumFunctionOnSet(Weight', Cached' \ {k}) \in Nat
  <2>1. k \in Cached'
    BY <1>5
  <2> HIDE DEF k
  <2> QED BY <1>6, <2>1, SumSplits
<1>8. Cached' \ {k} = others
  BY <1>5
<1>9. SumFunctionOnSet(Weight, others) = SumFunctionOnSet(Weight', others)
  <2>1. others \subseteq Keys /\ IsFiniteSet(others)
    BY <1>1, CachedFinite, FS_Subset
  <2>2. \A j \in others : cache'[j] = cache[j]
    BY <1>1, <2>1 DEF TypeOK
  <2> HIDE DEF others
  <2> QED BY <2>1, <2>2, SameBytes
<1>10. stats'.current_bytes = stats.current_bytes + value[w].size
  BY <1>1, RecordBytes
<1>11. Counted' = Cached'
  BY <1>3 DEF Counted
<1> HIDE DEF others, k
<1>12. stats.current_bytes = SumFunctionOnSet(Weight', others)
  BY <1>4, <1>9 DEF BytesInv
<1>13. /\ SumFunctionOnSet(Weight', Cached') = value[w].size + SumFunctionOnSet(Weight', others)
       /\ SumFunctionOnSet(Weight', others) \in Nat
  BY <1>6, <1>7, <1>8
<1>14. stats'.current_bytes = SumFunctionOnSet(Weight', Cached')
  BY <1>1, <1>10, <1>12, <1>13
<1> QED BY <1>11, <1>14 DEF BytesInv

LEMMA PutEvictBytes ==
  ASSUME IInv, IInv', BytesInv, NEW w \in Workers, put_evict(w)
  PROVE  BytesInv'
<1> DEFINE victim == Head(order)
<1>1. /\ TypeOK /\ NoKeyTwice /\ pc[w] = "evict" /\ order' = Tail(order)
      /\ cache' = [cache EXCEPT ![victim] = None]
      /\ stats' = record_eviction(stats, cache[victim].size)
      /\ stats \in Stats /\ order \in Seq(Keys)
  BY DEF IInv, TypeOK, put_evict
<1>2. \A v \in Workers : pc[v] # "store" /\ pc'[v] # "store"
  BY <1>1, HolderIsAlone DEF IInv, TypeOK, put_evict, Release, Goto
<1>3. Overwriting = {} /\ Overwriting' = {}
  BY <1>2 DEF Overwriting
<1>4. /\ Len(order) \in Nat /\ Len(order) > 0 /\ order # <<>>
  BY <1>1, EmptySeq, CacheAssumption, CachedAreKeys DEF IInv, StageInv
<1>5. /\ victim = order[1] /\ Len(order') = Len(order) - 1
      /\ \A i \in 1..Len(order') : order'[i] = order[i + 1]
  BY <1>1, <1>4, HeadTailProperties
<1>6. victim \in Cached
  BY <1>4, <1>5 DEF Cached
<1>7. Cached' = Cached \ {victim}
  <2>1. Cached' = {order'[i] : i \in 1..Len(order')}
    BY DEF Cached
  <2>2. ASSUME NEW i \in 1..Len(order') PROVE order'[i] \in Cached \ {victim}
    <3>1. i + 1 \in 1..Len(order) /\ 1 \in 1..Len(order) /\ i + 1 # 1
      BY <1>4, <1>5
    <3> QED BY <1>1, <1>5, <3>1 DEF Cached, NoKeyTwice
  <2>3. ASSUME NEW j \in Cached \ {victim} PROVE \E i \in 1..Len(order') : order'[i] = j
    <3>1. PICK i \in 1..Len(order) : order[i] = j
      BY DEF Cached
    <3>2. i # 1
      BY <1>5, <3>1
    <3>3. i - 1 \in 1..Len(order') /\ (i - 1) + 1 = i
      BY <1>4, <1>5, <3>2
    <3> QED BY <1>5, <3>1, <3>3
  <2> QED BY <2>1, <2>2, <2>3
<1> HIDE DEF victim
<1>8. /\ cache[victim].size \in Nat /\ stats.current_bytes >= cache[victim].size
      /\ stats.current_bytes - cache[victim].size = SumFunctionOnSet(Weight', Cached \ {victim})
  BY <1>1, <1>3, <1>6, EntryLeaves
<1>9. stats'.current_bytes = stats.current_bytes - cache[victim].size
  BY <1>1, <1>8, RecordBytes
<1>10. Counted' = Cached'
  BY <1>3 DEF Counted
<1> QED BY <1>7, <1>8, <1>9, <1>10 DEF BytesInv

\* An empty store has no bytes.
LEMMA EmptyBytes ==
  /\ Init => BytesInv
  /\ IInv /\ clear => BytesInv'
<1>1. ASSUME Init PROVE BytesInv
  <2>1. Cached = {} /\ Counted = {} /\ stats.current_bytes = 0
    BY <1>1 DEF Init, NewStats, Cached, Counted
  <2> QED BY <2>1, SumEmpty DEF BytesInv
<1>2. ASSUME IInv, clear PROVE BytesInv'
  <2>1. order' = <<>> /\ stats' = NewStats
    BY <1>2 DEF clear
  <2>2. Cached' = {}
    BY <2>1 DEF Cached
  <2>3. Counted' = {} /\ stats'.current_bytes = 0
    BY <2>1, <2>2 DEF Counted, NewStats
  <2> QED BY <2>3, SumEmpty DEF BytesInv
<1> QED BY <1>1, <1>2

LEMMA BytesInductive == IInv /\ IInv' /\ BytesInv /\ [Next]_vars => BytesInv'
<1> SUFFICES ASSUME IInv, IInv', BytesInv, [Next]_vars PROVE BytesInv'
  OBVIOUS
<1>1. ASSUME Tick \/ UNCHANGED vars PROVE BytesInv'
  <2>1. UNCHANGED <<order, cache, stats, pc, key>>
    BY <1>1 DEF Tick, vars, store, locals
  <2>2. Cached' = Cached
    BY <2>1 DEF Cached
  <2> QED BY <2>1, <2>2, QuietBytes DEF IInv
<1>2. ASSUME clear PROVE BytesInv'
  BY <1>2, EmptyBytes
<1>3. ASSUME NEW w \in Workers, Worker(w) PROVE BytesInv'
  BY <1>3, MissBytes, HitBytes, ExpiredBytes, ExpiredMissBytes, PutBytes,
     PutRemoveBytes, PutStoreBytes, PutEvictBytes DEF Worker
<1> QED BY <1>1, <1>2, <1>3 DEF Next

\* cache.py: whenever no call holds the lock, the byte count the dashboard
\* shows is the sum of the sizes of the entries of the store.
THEOREM BytesAlwaysAgree == Spec => []BytesAgree
<1>1. IInv /\ BytesInv => BytesAgree
  BY FreeMeansSettled, CountedAll DEF IInv, BytesInv, BytesAgree, Bytes
<1>2. Spec => []BytesInv
  BY EmptyBytes, BytesInductive, CacheInvariant, PTL DEF Spec
<1> QED BY <1>1, <1>2, CacheInvariant, PTL

-----------------------------------------------------------------------------
(* The order of the last uses *)

\* Deleting a key leaves the others in their order.
LEMMA WithoutOrder ==
  ASSUME order \in Seq(Keys), NEW k \in Cached
  PROVE  /\ Len(order) \in Nat \ {0} /\ At(k) \in 1..Len(order) /\ order[At(k)] = k
         /\ Without(k) \in Seq(Keys) /\ Len(Without(k)) = Len(order) - 1
         /\ \A i \in 1..Len(order) - 1 :
              Without(k)[i] = IF i < At(k) THEN order[i] ELSE order[i + 1]
<1> DEFINE p == At(k)
           s == Without(k)
<1>1. p \in 1..Len(order) /\ order[p] = k
  BY AtFinds
<1>2. Len(order) \in Nat
  BY LenProperties
<1>3. /\ s \in Seq(Keys) /\ Len(s) = Len(order) - 1
      /\ \A i \in 1..Len(order) - 1 : s[i] = IF i < p THEN order[i] ELSE order[i + 1]
  BY <1>1, RemoveAtProperties DEF Without
<1> HIDE DEF p, s
<1>4. Len(order) \in Nat \ {0}
  BY <1>1, <1>2
<1> QED BY <1>1, <1>3, <1>4 DEF p, s

LEMMA PairsKept ==
  ASSUME order \in Seq(Keys), NEW k \in Cached,
         NEW i \in 1..Len(order) - 1, NEW j \in 1..Len(order) - 1, i < j
  PROVE  \E a, b \in 1..Len(order) :
           a < b /\ Without(k)[i] = order[a] /\ Without(k)[j] = order[b]
<1> DEFINE p == At(k)
           a == IF i < p THEN i ELSE i + 1
           b == IF j < p THEN j ELSE j + 1
<1>1. /\ Len(order) \in Nat \ {0} /\ p \in 1..Len(order)
      /\ \A h \in 1..Len(order) - 1 : Without(k)[h] = IF h < p THEN order[h] ELSE order[h + 1]
  BY WithoutOrder
<1> HIDE DEF p
<1>2. a \in 1..Len(order) /\ b \in 1..Len(order) /\ a < b
  BY <1>1
<1>3. Without(k)[i] = order[a] /\ Without(k)[j] = order[b]
  BY <1>1
<1> QED BY <1>2, <1>3

\* A step that changes no use and leaves a put that assigns where it is.
LEMMA UsesKept ==
  ASSUME RecentInv, order' = order, since' = since,
         \A v \in Workers : pc'[v] = "store" <=> pc[v] = "store",
         \A v \in Workers : pc[v] = "store" => key'[v] = key[v]
  PROVE  RecentInv'
BY DEF RecentInv, Cached

LEMMA MissRecent ==
  ASSUME IInv, RecentInv, NEW w \in Workers, NEW k \in Keys, get_miss(w, k)
  PROVE  RecentInv'
BY UsesKept DEF get_miss, store

LEMMA PutRecent ==
  ASSUME IInv, RecentInv, NEW w \in Workers, NEW k \in Keys, NEW size \in Sizes,
         put(w, k, size)
  PROVE  RecentInv'
BY UsesKept DEF put, Starts, Goto, store, IInv, TypeOK

LEMMA ExpiredMissRecent ==
  ASSUME IInv, RecentInv, NEW w \in Workers, get_expired_miss(w)
  PROVE  RecentInv'
BY UsesKept DEF get_expired_miss, Release, Goto, store, IInv, TypeOK

LEMMA HitRecent ==
  ASSUME IInv, RecentInv, NEW w \in Workers, NEW k \in Keys, get_hit(w, k)
  PROVE  RecentInv'
<1> DEFINE n == Len(order)
<1>1. /\ TypeOK /\ NoKeyTwice /\ lock = Free /\ k \in Cached /\ order' = Append(Without(k), k)
      /\ since' = Used(k) /\ UNCHANGED <<pc, key>>
  BY DEF get_hit, move_to_end, IInv
<1>2. /\ n \in Nat \ {0} /\ Without(k) \in Seq(Keys) /\ Len(Without(k)) = n - 1
      /\ order \in Seq(Keys) /\ \A h \in 1..n : order[h] \in Keys
      /\ \A h \in 1..n - 1 : Without(k)[h] \in Keys \ {k}
  BY <1>1, WithoutOrder, WithoutProperties, CachedAreKeys, ElementOfSeq DEF TypeOK
<1>3. /\ Len(order') = n /\ order'[n] = k
      /\ \A h \in 1..n - 1 : order'[h] = Without(k)[h]
  BY <1>1, <1>2, AppendFacts
<1>4. \A v \in Workers : pc[v] # "store"
  BY <1>1, FreeMeansSettled DEF IInv
<1>5. \A j \in Keys \ {k} : since'[j] = since[j] \cup {k}
  BY <1>1 DEF Used
<1>6. ASSUME NEW i \in 1..n, NEW j \in 1..n, i < j
      PROVE  order'[j] \in since'[order'[i]]
  <2>1. i \in 1..n - 1 /\ order'[i] \in Keys \ {k}
    BY <1>2, <1>3, <1>6
  <2>2. CASE j = n
    BY <1>3, <1>5, <2>1, <2>2
  <2>3. CASE j # n
    <3>1. j \in 1..n - 1 /\ order \in Seq(Keys) /\ k \in Cached
      BY <1>1, <1>2, <2>3
    <3>2. PICK a, b \in 1..n : a < b /\ Without(k)[i] = order[a] /\ Without(k)[j] = order[b]
      BY <1>6, <2>1, <3>1, PairsKept
    <3>3. order[b] \in since[order[a]]
      BY <1>4, <3>2 DEF RecentInv
    <3> QED BY <1>3, <1>5, <2>1, <3>1, <3>2, <3>3
  <2> QED BY <2>2, <2>3
<1> QED BY <1>1, <1>3, <1>4, <1>6 DEF RecentInv

LEMMA ExpiredRecent ==
  ASSUME IInv, RecentInv, NEW w \in Workers, NEW k \in Keys, get_expired(w, k)
  PROVE  RecentInv'
<1> DEFINE n == Len(order)
<1>1. /\ TypeOK /\ lock = Free /\ k \in Cached /\ order' = Without(k)
      /\ since' = since /\ pc' = [pc EXCEPT ![w] = "expired"]
  BY DEF get_expired, Goto, IInv
<1>2. n \in Nat \ {0} /\ Len(order') = n - 1 /\ order \in Seq(Keys)
  BY <1>1, WithoutOrder DEF TypeOK
<1>3. \A v \in Workers : pc[v] # "store" /\ pc'[v] # "store"
  BY <1>1, FreeMeansSettled DEF IInv, TypeOK
<1>4. ASSUME NEW i \in 1..n - 1, NEW j \in 1..n - 1, i < j
      PROVE  order'[j] \in since[order'[i]]
  <2>1. PICK a, b \in 1..n : a < b /\ Without(k)[i] = order[a] /\ Without(k)[j] = order[b]
    BY <1>1, <1>2, <1>4, PairsKept
  <2> QED BY <1>1, <1>3, <2>1 DEF RecentInv
<1> QED BY <1>1, <1>2, <1>3, <1>4 DEF RecentInv

LEMMA PutRemoveRecent ==
  ASSUME IInv, RecentInv, NEW w \in Workers, put_remove(w)
  PROVE  RecentInv'
<1> DEFINE n == Len(order)
           k == key[w]
<1>1. /\ TypeOK /\ NoKeyTwice /\ lock = Free /\ pc' = [pc EXCEPT ![w] = "store"]
      /\ since' = since /\ key' = key
      /\ IF k \in Cached THEN order' = Append(Without(k), k) ELSE order' = order
  BY DEF put_remove, Goto, move_to_end, IInv
<1>2. \A v \in Workers : pc[v] # "store"
  BY <1>1, FreeMeansSettled DEF IInv
<1>3. pc'[w] = "store" /\ \A v \in Workers \ {w} : pc'[v] # "store"
  BY <1>1, <1>2 DEF TypeOK
<1>4. CASE k \in Cached
  <2>1. /\ n \in Nat \ {0} /\ Without(k) \in Seq(Keys) /\ Len(Without(k)) = n - 1
        /\ order \in Seq(Keys) /\ k \in Keys
    BY <1>1, <1>4, WithoutOrder, CachedAreKeys DEF TypeOK
  <2>2. /\ Len(order') = n /\ order'[n] = k
        /\ \A h \in 1..n - 1 : order'[h] = Without(k)[h]
    BY <1>1, <1>4, <2>1, AppendFacts
  <2>3. ASSUME NEW i \in 1..n, NEW j \in 1..n, i < j
        PROVE  order'[j] \in since[order'[i]] \/ order'[j] = k
    <3>1. CASE j # n
      <4>1. i \in 1..n - 1 /\ j \in 1..n - 1
        BY <2>1, <2>3, <3>1
      <4>2. PICK a, b \in 1..n : a < b /\ Without(k)[i] = order[a] /\ Without(k)[j] = order[b]
        BY <1>4, <2>1, <2>3, <4>1, PairsKept
      <4> QED BY <1>2, <2>2, <4>1, <4>2 DEF RecentInv
    <3> QED BY <2>2, <3>1
  <2> QED BY <1>1, <1>3, <2>1, <2>2, <2>3 DEF RecentInv
<1>5. CASE k \notin Cached
  <2>1. order' = order /\ Cached' = Cached
    BY <1>1, <1>5 DEF Cached
  <2>2. \A i, j \in 1..Len(order) : i < j => order[j] \in since[order[i]]
    BY <1>2 DEF RecentInv
  <2> QED BY <1>1, <1>3, <1>5, <2>1, <2>2 DEF RecentInv
<1> QED BY <1>4, <1>5

LEMMA PutStoreRecent ==
  ASSUME IInv, RecentInv, NEW w \in Workers, put_store(w)
  PROVE  RecentInv'
<1> DEFINE n == Len(order)
           k == key[w]
<1>1. /\ TypeOK /\ NoKeyTwice /\ LockInv /\ KeyInv /\ pc[w] = "store" /\ k \in Keys
      /\ since' = Used(k) /\ order' = (IF k \in Cached THEN order ELSE Append(order, k))
      /\ \A v \in Workers : pc[v] = "store" => v = w
  BY HolderIsAlone DEF put_store, IInv, KeyInv
<1>2. \A v \in Workers : pc'[v] # "store"
  BY <1>1, HolderIsAlone DEF put_store, Release, Goto, TypeOK
<1>3. n \in Nat /\ order \in Seq(Keys) /\ \A h \in 1..n : order[h] \in Keys
  BY <1>1, CachedAreKeys, ElementOfSeq DEF TypeOK
<1>4. since'[k] = {} /\ \A j \in Keys \ {k} : since'[j] = since[j] \cup {k}
  BY <1>1 DEF Used
<1>5. \A i, j \in 1..n : i < j => order[j] \in since[order[i]] \/ order[j] = k
  BY <1>1 DEF RecentInv
<1>6. CASE k \in Cached
  <2>1. order' = order /\ k = order[n] /\ n \in 1..n
    <3>1. k = order[n] /\ order' = order
      BY <1>1, <1>6 DEF RecentInv
    <3>2. n # 0
      BY <1>6 DEF Cached
    <3> QED BY <1>3, <3>1, <3>2
  <2>2. \A i \in 1..n : i # n => order[i] # k
    BY <1>1, <1>3, <2>1 DEF NoKeyTwice
  <2>3. \A i, j \in 1..n : i < j => order[j] \in since'[order[i]]
    BY <1>3, <1>4, <1>5, <2>1, <2>2
  <2> QED BY <1>2, <2>1, <2>3 DEF RecentInv
<1>7. CASE k \notin Cached
  <2>1. \A i \in 1..n : order[i] # k
    BY <1>7 DEF Cached
  <2>2. /\ Len(order') = n + 1 /\ order'[n + 1] = k
        /\ \A i \in 1..n : order'[i] = order[i]
    BY <1>1, <1>3, <1>7, AppendFacts
  <2>3. \A i, j \in 1..n + 1 : i < j => order'[j] \in since'[order'[i]]
    BY <1>3, <1>4, <1>5, <2>1, <2>2
  <2> QED BY <1>2, <2>2, <2>3 DEF RecentInv
<1> QED BY <1>6, <1>7

LEMMA PutEvictRecent ==
  ASSUME IInv, RecentInv, NEW w \in Workers, put_evict(w)
  PROVE  RecentInv'
<1> DEFINE n == Len(order)
<1>1. /\ TypeOK /\ LockInv /\ pc[w] = "evict" /\ order' = Tail(order) /\ since' = since
      /\ \A v \in Workers : pc[v] # "store"
  BY HolderIsAlone DEF put_evict, store, IInv
<1>2. \A v \in Workers : pc'[v] # "store"
  BY <1>1 DEF put_evict, Release, Goto, TypeOK
<1>3. order # <<>> /\ n \in Nat \ {0} /\ order \in Seq(Keys)
  BY <1>1, EmptySeq, CachedAreKeys, CacheAssumption DEF IInv, StageInv, TypeOK
<1>4. Len(order') = n - 1 /\ \A i \in 1..n - 1 : order'[i] = order[i + 1]
  BY <1>1, <1>3, HeadTailProperties
<1>5. \A i, j \in 1..n - 1 : i < j => order'[j] \in since[order'[i]]
  <2> SUFFICES ASSUME NEW i \in 1..n - 1, NEW j \in 1..n - 1, i < j
               PROVE  order'[j] \in since[order'[i]]
    OBVIOUS
  <2>1. i + 1 \in 1..n /\ j + 1 \in 1..n /\ i + 1 < j + 1
    BY <1>3
  <2>2. order[j + 1] \in since[order[i + 1]]
    BY <1>1, <2>1 DEF RecentInv
  <2> QED BY <1>4, <2>2
<1> QED BY <1>1, <1>2, <1>4, <1>5 DEF RecentInv

LEMMA RecentInductive == IInv /\ RecentInv /\ [Next]_vars => RecentInv'
<1> SUFFICES ASSUME IInv, RecentInv, [Next]_vars PROVE RecentInv'
  OBVIOUS
<1>1. CASE Tick
  BY <1>1, UsesKept DEF Tick, store, locals
<1>2. CASE clear
  BY <1>2, FreeMeansSettled DEF clear, locals, RecentInv, IInv
<1>3. ASSUME NEW w \in Workers, Worker(w) PROVE RecentInv'
  BY <1>3, MissRecent, HitRecent, ExpiredRecent, ExpiredMissRecent, PutRecent,
     PutRemoveRecent, PutStoreRecent, PutEvictRecent DEF Worker
<1>4. CASE UNCHANGED vars
  BY <1>4, UsesKept DEF vars, store, locals
<1> QED
  BY <1>1, <1>2, <1>3, <1>4 DEF Next

\* cache.py: what put evicts has been used less recently than every entry that
\* stays, for any interleaving of lookups, stores and expiries before it.
THEOREM LeastRecentIsEvicted == Spec => EvictsLeastRecent
<1> DEFINE Evicts ==
      \A w \in Workers :
        put_evict(w) => \A k \in Cached \ {Head(order)} : k \in since[Head(order)]
<1>1. Init => RecentInv
  BY EmptySeq DEF Init, RecentInv
<1>2. IInv /\ RecentInv => Evicts
  <2> SUFFICES ASSUME IInv, RecentInv, NEW w \in Workers, put_evict(w),
                      NEW k \in Cached \ {Head(order)}
               PROVE  k \in since[Head(order)]
    OBVIOUS
  <2>1. pc[w] = "evict" /\ \A v \in Workers : pc[v] # "store"
    BY HolderIsAlone DEF put_evict, IInv
  <2>2. PICK j \in 1..Len(order) : order[j] = k
    BY DEF Cached
  <2>3. Len(order) \in Nat /\ order \in Seq(Keys)
    BY CachedAreKeys DEF IInv, TypeOK
  <2>4. order # <<>> /\ Head(order) = order[1]
    BY <2>2, <2>3, EmptySeq
  <2>5. j # 1 /\ 1 \in 1..Len(order) /\ 1 < j
    BY <2>2, <2>3, <2>4
  <2> QED BY <2>1, <2>2, <2>4, <2>5 DEF RecentInv
<1> QED
  BY <1>1, <1>2, CacheInvariant, RecentInductive, PTL DEF Spec, EvictsLeastRecent

-----------------------------------------------------------------------------
(* What a call has in hand *)

LEMMA CallsKeep ==
  ASSUME IInv, CallInv, now >= 1, [Next]_vars
  PROVE  CallInv' /\ now' >= 1
<1>1. now' >= now /\ now \in Nat /\ now' \in Nat
  BY CacheInductive
  DEF IInv, TypeOK, Next, vars, Tick, clear, Worker, get_miss, get_hit, get_expired,
      get_expired_miss, put, put_remove, put_store, put_evict
<1>2. \A n \in 1..now : n \in 1..now'
  BY <1>1
<1>3. ASSUME NEW w \in Workers, pc'[w] = pc[w], key'[w] = key[w], value'[w] = value[w],
             Cached' \subseteq Cached \/ pc[w] # "expired"
      PROVE  /\ pc'[w] = "expired" => key'[w] \in Keys \ Cached'
             /\ pc'[w] \in {"put", "store"} =>
                  /\ value'[w].size \in Sizes /\ value'[w].size <= MAX_OBJECT_SIZE
                  /\ value'[w].timestamp \in 1..now'
  BY <1>2, <1>3 DEF CallInv
<1>4. CASE UNCHANGED <<pc, key, value>> /\ (Cached' \subseteq Cached \/ lock = Free)
  BY <1>1, <1>3, <1>4, FreeMeansSettled DEF CallInv, IInv
<1>5. CASE Tick \/ clear \/ UNCHANGED vars
  <2>1. UNCHANGED <<pc, key, value>>
    BY <1>5 DEF Tick, clear, vars, locals
  <2>2. Cached' \subseteq Cached \/ lock = Free
    BY <1>5 DEF Tick, clear, vars, store, Cached
  <2> QED BY <1>4, <2>1, <2>2
<1>6. ASSUME NEW w \in Workers, NEW k \in Keys, get_miss(w, k) \/ get_hit(w, k)
      PROVE  CallInv' /\ now' >= 1
  BY <1>4, <1>6 DEF get_miss, get_hit
<1>7. ASSUME NEW w \in Workers,
             \A v \in Workers \ {w} :
               pc'[v] = pc[v] /\ key'[v] = key[v] /\ value'[v] = value[v],
             lock = Free \/ lock = w,
             pc'[w] = "expired" => key'[w] \in Keys \ Cached',
             pc'[w] \in {"put", "store"} =>
                  /\ value'[w].size \in Sizes /\ value'[w].size <= MAX_OBJECT_SIZE
                  /\ value'[w].timestamp \in 1..now'
      PROVE  CallInv' /\ now' >= 1
  <2>1. \A v \in Workers \ {w} : pc[v] # "expired"
    BY <1>7, FreeAssumption DEF IInv, LockInv
  <2> QED BY <1>1, <1>3, <1>7, <2>1 DEF CallInv
<1>8. ASSUME NEW w \in Workers, NEW k \in Keys, get_expired(w, k)
      PROVE  CallInv' /\ now' >= 1
  <2>1. /\ TypeOK /\ NoKeyTwice /\ lock = Free /\ k \in Cached /\ order' = Without(k)
        /\ key' = [key EXCEPT ![w] = k] /\ pc' = [pc EXCEPT ![w] = "expired"]
        /\ UNCHANGED value
    BY <1>8 DEF get_expired, Goto, IInv
  <2>2. k \notin Cached'
    BY <2>1, WithoutProperties DEF Cached, TypeOK
  <2>3. /\ pc'[w] = "expired" /\ key'[w] = k
        /\ \A v \in Workers \ {w} : pc'[v] = pc[v] /\ key'[v] = key[v]
    BY <2>1 DEF TypeOK
  <2> QED BY <1>7, <2>1, <2>2, <2>3
<1>9. ASSUME NEW w \in Workers, NEW k \in Keys, NEW size \in Sizes, put(w, k, size)
      PROVE  CallInv' /\ now' >= 1
  <2>1. /\ TypeOK /\ UNCHANGED <<order, now>> /\ size <= MAX_OBJECT_SIZE
        /\ key' = [key EXCEPT ![w] = k] /\ pc' = [pc EXCEPT ![w] = "put"]
        /\ value' = [value EXCEPT ![w] = [size |-> size, timestamp |-> now]]
    BY <1>9 DEF put, store, Goto, IInv
  <2>2. pc'[w] = "put" /\ value'[w] = [size |-> size, timestamp |-> now] /\ Cached' = Cached
    BY <2>1 DEF TypeOK, Cached
  <2>3. \A v \in Workers \ {w} :
          pc'[v] = pc[v] /\ key'[v] = key[v] /\ value'[v] = value[v]
    BY <2>1 DEF TypeOK
  <2>4. /\ value'[w].size \in Sizes /\ value'[w].size <= MAX_OBJECT_SIZE
        /\ value'[w].timestamp \in 1..now'
    BY <1>1, <2>1, <2>2
  <2>5. /\ pc'[w] = "expired" => key'[w] \in Keys \ Cached'
        /\ pc'[w] \in {"put", "store"} =>
             /\ value'[w].size \in Sizes /\ value'[w].size <= MAX_OBJECT_SIZE
             /\ value'[w].timestamp \in 1..now'
    BY <2>2, <2>4
  <2> QED BY <1>1, <1>3, <2>2, <2>3, <2>5 DEF CallInv
<1>10. ASSUME NEW w \in Workers,
              get_expired_miss(w) \/ put_remove(w) \/ put_store(w) \/ put_evict(w)
       PROVE  CallInv' /\ now' >= 1
  <2>1. /\ \/ UNCHANGED <<key, value>> /\ pc[w] = "put" /\ pc' = [pc EXCEPT ![w] = "store"]
           \/ pc' = [pc EXCEPT ![w] = "evict"] /\ UNCHANGED <<key, value>>
           \/ UNCHANGED <<pc, key, value>> /\ pc[w] = "evict"
           \/ Release(w)
        /\ lock = Free \/ lock = w
    BY <1>10, HolderIsAlone
    DEF get_expired_miss, put_remove, put_store, put_evict, Goto, IInv
  <2>2. \A v \in Workers \ {w} :
          pc'[v] = pc[v] /\ key'[v] = key[v] /\ value'[v] = value[v]
    BY <2>1 DEF Release, Goto, IInv, TypeOK
  <2>3. \/ pc'[w] \in {"idle", "evict"}
        \/ pc'[w] = "store" /\ pc[w] = "put" /\ value'[w] = value[w]
    BY <2>1 DEF Release, Goto, IInv, TypeOK
  <2>4. CASE pc'[w] \in {"idle", "evict"}
    BY <1>7, <2>1, <2>2, <2>4
  <2>5. CASE pc'[w] = "store" /\ pc[w] = "put" /\ value'[w] = value[w]
    BY <1>2, <1>7, <2>1, <2>2, <2>5 DEF CallInv
  <2> QED BY <2>3, <2>4, <2>5
<1> QED
  BY <1>5, <1>6, <1>8, <1>9, <1>10 DEF Next, Worker

-----------------------------------------------------------------------------
(* To its callers the cache is atomic *)

LEMMA StorerIs ==
  ASSUME LockInv, NEW w \in Workers, pc[w] = "store"
  PROVE  Storing /\ Storer = w
<1>1. \A v \in Workers : pc[v] = "store" => v = w
  BY HolderIsAlone
<1> QED BY <1>1 DEF Storing, Storer

Listed(keys, vals) == [i \in 1..Len(keys) |-> Entry(keys[i], vals[keys[i]])]
Latest(s) == IF Len(s) > CAPACITY THEN SubSeq(s, Len(s) - CAPACITY + 1, Len(s)) ELSE s

\* The store, by the keys and the values it will have.
LEMMA SettledIs ==
  ASSUME NEW keys, keys = PutKeys, NEW vals,
         \A i \in 1..Len(keys) : vals[keys[i]] = PutValue(keys[i])
  PROVE  Settled = Latest(Listed(keys, vals))
<1>1. [i \in 1..Len(PutKeys) |-> Entry(PutKeys[i], PutValue(PutKeys[i]))] = Listed(keys, vals)
  BY DEF Listed
<1> QED BY <1>1 DEF Settled, Latest

Entries == [key : Keys, size : Nat, timestamp : Nat]

LEMMA ListedFacts ==
  ASSUME NEW keys \in Seq(Keys), NEW vals \in [Keys -> Value]
  PROVE  /\ Listed(keys, vals) \in Seq(Entries)
         /\ Len(Listed(keys, vals)) = Len(keys) /\ Len(keys) \in Nat
         /\ \A i \in 1..Len(keys) :
              Listed(keys, vals)[i] = Entry(keys[i], vals[keys[i]]) /\ keys[i] \in Keys
<1>1. Len(keys) \in Nat /\ \A i \in 1..Len(keys) : keys[i] \in Keys
  BY LenProperties, ElementOfSeq
<1>2. \A i \in 1..Len(keys) : Entry(keys[i], vals[keys[i]]) \in Entries
  <2> SUFFICES ASSUME NEW i \in 1..Len(keys)
               PROVE  Entry(keys[i], vals[keys[i]]) \in Entries
    OBVIOUS
  <2>1. vals[keys[i]].size \in Nat /\ vals[keys[i]].timestamp \in Nat
    BY <1>1, ValueFacts DEF Value
  <2> QED BY <1>1, <2>1 DEF Entry, Entries
<1> DEFINE l == Listed(keys, vals)
<1>3. l \in [1..Len(keys) -> Entries] /\ DOMAIN l = 1..Len(keys)
  BY <1>2 DEF Listed
<1>4. l \in Seq(Entries)
  BY <1>1, <1>3, SeqDef
<1>5. Len(l) = Len(keys)
  BY <1>1, <1>3, <1>4, LenProperties
<1> QED BY <1>1, <1>4, <1>5 DEF Listed

\* While nobody assigns, the store is the OrderedDict, cut to its capacity.
LEMMA SettledQuiet ==
  ASSUME \A w \in Workers : pc[w] # "store"
  PROVE  Settled = Latest(Listed(order, cache))
BY SettledIs DEF Storing, PutKeys, PutValue
LEMMA SettledAfter ==
  ASSUME \A w \in Workers : pc'[w] # "store"
  PROVE  Settled' = Latest(Listed(order', cache'))
<1>1. ~Storing' /\ PutKeys' = order' /\ \A k : PutValue(k)' = cache'[k]
  BY DEF Storing, PutKeys, PutValue
<1>2. [i \in 1..Len(PutKeys') |-> Entry(PutKeys'[i], PutValue(PutKeys[i])')] = Listed(order', cache')
  BY <1>1 DEF Listed
<1> QED BY <1>2 DEF Settled, Latest

LEMMA SettledDuring ==
  ASSUME NEW w \in Workers, pc'[w] = "store", \A v \in Workers : pc'[v] = "store" => v = w,
         NEW keys, NEW vals,
         key'[w] \in Cached' => keys = order',
         key'[w] \notin Cached' => keys = Append(order', key'[w]),
         \A i \in 1..Len(keys) :
           vals[keys[i]] = IF keys[i] = key'[w] THEN value'[w] ELSE cache'[keys[i]]
  PROVE  Settled' = Latest(Listed(keys, vals))
<1>1. Storing' /\ Storer' = w
  BY DEF Storing, Storer
<1>2. PutKeys' = keys
  BY <1>1 DEF PutKeys
<1>3. \A i \in 1..Len(keys) : PutValue(PutKeys[i])' = vals[keys[i]]
  BY <1>1, <1>2 DEF PutValue
<1>4. [i \in 1..Len(PutKeys') |-> Entry(PutKeys'[i], PutValue(PutKeys[i])')] = Listed(keys, vals)
  BY <1>2, <1>3 DEF Listed
<1> QED BY <1>4 DEF Settled, Latest

LEMMA ListedAppend ==
  ASSUME NEW keys \in Seq(Keys), NEW k \in Keys,
         NEW vals \in [Keys -> Value], NEW later \in [Keys -> Value],
         \A i \in 1..Len(keys) : later[keys[i]] = vals[keys[i]]
  PROVE  Listed(Append(keys, k), later) = Append(Listed(keys, vals), Entry(k, later[k]))
<1> DEFINE a == Append(keys, k)
           l == Listed(a, later)
           m == Listed(keys, vals)
           n == Append(m, Entry(k, later[k]))
<1>1. /\ a \in Seq(Keys) /\ Len(a) = Len(keys) + 1 /\ a[Len(keys) + 1] = k
      /\ \A i \in 1..Len(keys) : a[i] = keys[i]
  BY AppendFacts
<1>2. /\ m \in Seq(Entries) /\ Len(m) = Len(keys) /\ Len(keys) \in Nat
      /\ \A i \in 1..Len(keys) : m[i] = Entry(keys[i], vals[keys[i]])
  BY ListedFacts
<1>3. /\ l \in Seq(Entries) /\ Len(l) = Len(keys) + 1
      /\ \A i \in 1..Len(keys) + 1 : l[i] = Entry(a[i], later[a[i]])
  BY <1>1, ListedFacts
<1>4. Entry(k, later[k]) \in Entries
  BY <1>1, <1>2, <1>3, ElementOfSeq
<1>5. /\ n \in Seq(Entries) /\ Len(n) = Len(m) + 1
      /\ \A i \in 1..Len(m) : n[i] = m[i]
      /\ n[Len(m) + 1] = Entry(k, later[k])
  BY <1>2, <1>4, AppendFacts
<1> HIDE DEF a, l, m, n
<1>6. ASSUME NEW i \in 1..Len(l) PROVE l[i] = n[i]
  <2>1. CASE i \in 1..Len(keys)
    <3>1. l[i] = Entry(keys[i], later[keys[i]]) /\ n[i] = Entry(keys[i], vals[keys[i]])
      BY <1>1, <1>2, <1>3, <1>5, <2>1
    <3> QED BY <2>1, <3>1
  <2>2. CASE i = Len(keys) + 1
    BY <1>1, <1>2, <1>3, <1>5, <2>2
  <2> QED BY <1>2, <1>3, <2>1, <2>2
<1>7. l = n
  BY <1>2, <1>3, <1>5, <1>6, SeqEqual
<1> QED BY <1>7 DEF a, l, m, n

LEMMA ListedWithout ==
  ASSUME TypeOK, NoKeyTwice, NEW k \in Cached
  PROVE  /\ At(k) \in 1..Len(order)
         /\ RemoveAt(Listed(order, cache), At(k)) = Listed(Without(k), cache)
<1> DEFINE p == At(k)
           l == Listed(order, cache)
           m == Listed(Without(k), cache)
           n == RemoveAt(l, p)
<1>1. /\ p \in 1..Len(order) /\ Without(k) \in Seq(Keys)
      /\ Len(Without(k)) = Len(order) - 1
      /\ \A i \in 1..Len(order) - 1 :
           Without(k)[i] = IF i < p THEN order[i] ELSE order[i + 1]
  BY WithoutOrder DEF TypeOK
<1>2. /\ l \in Seq(Entries) /\ Len(l) = Len(order) /\ Len(order) \in Nat
      /\ \A i \in 1..Len(order) : l[i] = Entry(order[i], cache[order[i]])
  BY ListedFacts DEF TypeOK
<1>3. /\ m \in Seq(Entries) /\ Len(m) = Len(order) - 1
      /\ \A i \in 1..Len(order) - 1 : m[i] = Entry(Without(k)[i], cache[Without(k)[i]])
  BY <1>1, ListedFacts DEF TypeOK
<1> HIDE DEF l, m, p
<1>4. /\ n \in Seq(Entries) /\ Len(n) = Len(order) - 1
      /\ \A i \in 1..Len(order) - 1 : n[i] = IF i < p THEN l[i] ELSE l[i + 1]
  <2>1. l \in Seq(Entries) /\ p \in 1..Len(l) /\ Len(l) = Len(order)
    BY <1>1, <1>2
  <2>2. /\ RemoveAt(l, p) \in Seq(Entries) /\ Len(RemoveAt(l, p)) = Len(l) - 1
        /\ \A i \in 1..Len(l) - 1 : RemoveAt(l, p)[i] = IF i < p THEN l[i] ELSE l[i + 1]
    BY <2>1, RemoveAtProperties
  <2> QED BY <2>1, <2>2
<1> HIDE DEF n
<1>5. ASSUME NEW i \in 1..Len(n) PROVE n[i] = m[i]
  <2>1. i \in 1..Len(order) - 1 /\ i \in 1..Len(order) /\ i + 1 \in 1..Len(order)
    BY <1>2, <1>4
  <2> QED BY <1>1, <1>2, <1>3, <1>4, <2>1
<1>6. n = m
  BY <1>3, <1>4, <1>5, SeqEqual
<1> QED BY <1>1, <1>6 DEF l, m, n, p

\* What the callers see while no put is under way.
LEMMA AtRest ==
  ASSUME IInv, lock = Free \/ \E w \in Workers : pc[w] = "expired"
  PROVE  /\ Settled = Listed(order, cache)
         /\ \A k \in Keys : k \in Atomic!Stored <=> k \in Cached
         /\ \A k \in Cached : Atomic!Others(k) = Listed(Without(k), cache)
         /\ \A k \in Keys \ Cached : Atomic!Others(k) = Listed(order, cache)
<1>1. (\A w \in Workers : pc[w] \notin {"store", "evict"}) /\ Len(order) <= CAPACITY
  <2>1. \A w \in Workers : pc[w] \notin {"store", "evict"}
    BY FreeMeansSettled, HolderIsAlone DEF IInv
  <2>2. Len(order) \in Nat
    BY LenProperties DEF IInv, TypeOK
  <2> QED BY <2>1, <2>2, CacheAssumption DEF IInv, StageInv
<1>2. /\ Listed(order, cache) \in Seq(Entries) /\ Len(Listed(order, cache)) = Len(order)
      /\ DOMAIN Listed(order, cache) = 1..Len(order)
      /\ \A i \in 1..Len(order) :
           Listed(order, cache)[i] = Entry(order[i], cache[order[i]]) /\ order[i] \in Keys
  BY ListedFacts, LenProperties DEF IInv, TypeOK
<1>3. Settled = Listed(order, cache)
  BY <1>1, <1>2, SettledQuiet, CacheAssumption DEF Latest
<1>4. \A i \in 1..Len(order) : Settled[i].key = order[i]
  BY <1>2, <1>3 DEF Entry
<1>5. \A k \in Keys : k \in Atomic!Stored <=> k \in Cached
  BY <1>2, <1>3, <1>4 DEF Atomic!Stored, Cached
<1>6. ASSUME NEW k \in Cached
      PROVE  Atomic!Others(k) = Listed(Without(k), cache)
  <2>1. k \in Atomic!Stored
    BY <1>5, CachedAreKeys DEF IInv, TypeOK
  <2>2. At(k) \in 1..Len(order) /\ order[At(k)] = k
    BY AtFinds
  <2>3. (CHOOSE i \in DOMAIN Settled : Settled[i].key = k) = At(k)
    <3>1. \A i \in 1..Len(order) : Settled[i].key = k <=> i = At(k)
      BY <1>4, <2>2 DEF IInv, NoKeyTwice
    <3>2. DOMAIN Settled = 1..Len(order)
      BY <1>2, <1>3
    <3> QED BY <2>2, <3>1, <3>2
  <2>4. Atomic!Others(k) = RemoveAt(Settled, At(k))
    BY <2>1, <2>3 DEF Atomic!Others, Atomic!RemoveAt, RemoveAt
  <2> QED BY <1>3, <2>4, ListedWithout DEF IInv
<1>7. ASSUME NEW k \in Keys \ Cached
      PROVE  Atomic!Others(k) = Listed(order, cache)
  BY <1>3, <1>5 DEF Atomic!Others
<1> QED BY <1>3, <1>5, <1>6, <1>7

AtomicVars == <<now, Settled, answer>>

LEMMA EmptyListed ==
  ASSUME NEW vals
  PROVE  Latest(Listed(<<>>, vals)) = <<>>
<1>1. Listed(<<>>, vals) = <<>>
  BY DEF Listed
<1>2. Len(<<>>) = 0
  OBVIOUS
<1> QED BY <1>1, <1>2, CacheAssumption DEF Latest

LEMMA AtomicInit == ASSUME Init PROVE Atomic!Init
<1>1. \A w \in Workers : pc[w] # "store"
  BY DEF Init
<1>2. Settled = <<>>
  BY <1>1, SettledQuiet, EmptyListed DEF Init
<1> QED BY <1>2 DEF Init, Atomic!Init, None, Atomic!None

LEMMA HitIsAtomic ==
  ASSUME IInv, IInv', NEW w \in Workers, NEW k \in Keys, get_hit(w, k)
  PROVE  Atomic!Next
<1>1. /\ TypeOK /\ NoKeyTwice /\ lock = Free /\ lock' = Free /\ k \in Cached /\ ~Expired(k)
      /\ order' = Append(Without(k), k) /\ cache' = cache /\ answer' = cache[k]
      /\ now' = now
  BY DEF get_hit, move_to_end, IInv
<1>2. /\ \A v \in Workers : pc'[v] # "store"
      /\ Len(order') <= CAPACITY
  BY <1>1, FreeMeansSettled, FreeMeansBounded, MoveProperties DEF get_hit, IInv, TypeOK
<1>3. Without(k) \in Seq(Keys) /\ cache \in [Keys -> Value] /\ order \in Seq(Keys)
  BY <1>1, WithoutOrder DEF TypeOK
<1>4. Listed(order', cache') = Append(Listed(Without(k), cache), Entry(k, cache[k]))
  BY <1>1, <1>3, ListedAppend
<1>5. order' \in Seq(Keys) /\ Len(Listed(order', cache')) = Len(order') /\ Len(order') \in Nat
  <2>1. order' \in Seq(Keys)
    BY DEF IInv, TypeOK
  <2> QED BY <1>1, <1>3, <2>1, ListedFacts
<1>6. Settled' = Append(Atomic!Others(k), Entry(k, cache[k]))
  BY <1>1, <1>2, <1>4, <1>5, SettledAfter, AtRest, CacheAssumption DEF Latest
<1>7. At(k) \in 1..Len(order) /\ order[At(k)] = k
  BY <1>1, AtFinds
<1>8. /\ Settled[At(k)] = Entry(k, cache[k]) /\ At(k) \in DOMAIN Settled
  BY <1>1, <1>3, <1>7, AtRest, ListedFacts, LenProperties
<1>9. Atomic!Hit(At(k))
  <2>1. /\ Settled[At(k)].key = k
        /\ Settled[At(k)].size = cache[k].size /\ Settled[At(k)].timestamp = cache[k].timestamp
    BY <1>8 DEF Entry
  <2>2. answer' = [size |-> cache[k].size, timestamp |-> cache[k].timestamp]
    BY <1>1, <1>3 DEF Value
  <2>3. now - cache[k].timestamp <= CACHE_TTL
    <3>1. now \in Nat /\ cache[k].timestamp \in Nat
      BY <1>1 DEF TypeOK, Value
    <3> QED BY <1>1, <3>1, CacheAssumption DEF Expired
  <2> QED BY <1>1, <1>6, <1>8, <2>1, <2>2, <2>3 DEF Atomic!Hit
<1> QED BY <1>8, <1>9 DEF Atomic!Next

LEMMA ExpiredIsAtomic ==
  ASSUME IInv, IInv', NEW w \in Workers, NEW k \in Keys, get_expired(w, k)
  PROVE  Atomic!Next
<1>1. /\ TypeOK /\ NoKeyTwice /\ lock = Free /\ k \in Cached /\ Expired(k)
      /\ order' = Without(k) /\ cache' = [cache EXCEPT ![k] = None] /\ answer' = answer
      /\ now' = now /\ pc' = [pc EXCEPT ![w] = "expired"]
  BY DEF get_expired, Goto, IInv
<1>2. \A v \in Workers : pc'[v] # "store"
  BY <1>1, FreeMeansSettled DEF IInv, TypeOK
<1>3. /\ Without(k) \in Seq(Keys) /\ Len(Without(k)) <= CAPACITY /\ Len(Without(k)) \in Nat
      /\ cache \in [Keys -> Value] /\ order \in Seq(Keys)
      /\ \A i \in 1..Len(Without(k)) : Without(k)[i] \in Keys \ {k}
  <2>1. Without(k) \in Seq(Keys) /\ Len(Without(k)) = Len(order) - 1
    BY <1>1, WithoutProperties DEF TypeOK
  <2>2. Len(order) \in Nat /\ Len(order) <= CAPACITY /\ Len(Without(k)) \in Nat
    BY <1>1, <2>1, CachedAreKeys, FreeMeansBounded, LenProperties DEF TypeOK
  <2>3. \A i \in 1..Len(Without(k)) : Without(k)[i] \in Keys \ {k}
    BY <1>1, WithoutProperties, CachedAreKeys DEF TypeOK
  <2> QED BY <1>1, <2>1, <2>2, <2>3, CacheAssumption DEF TypeOK
<1>4. Listed(order', cache') = Listed(Without(k), cache)
  BY <1>1, <1>3 DEF Listed
<1>5. Settled' = Atomic!Others(k)
  BY <1>1, <1>2, <1>3, <1>4, SettledAfter, AtRest, ListedFacts, CacheAssumption DEF Latest
<1>6. At(k) \in 1..Len(order) /\ order[At(k)] = k
  BY <1>1, AtFinds
<1>7. /\ Settled[At(k)] = Entry(k, cache[k]) /\ At(k) \in DOMAIN Settled
  BY <1>1, <1>3, <1>6, AtRest, ListedFacts, LenProperties
<1>8. Atomic!Expire(At(k))
  <2>1. Settled[At(k)].key = k /\ Settled[At(k)].timestamp = cache[k].timestamp
    BY <1>7 DEF Entry
  <2> QED BY <1>1, <1>5, <2>1 DEF Atomic!Expire, Expired
<1> QED BY <1>7, <1>8 DEF Atomic!Next

\* The put takes effect when it has the lock, with the evictions it causes.
LEMMA PutIsAtomic ==
  ASSUME IInv, IInv', CallInv, NEW w \in Workers, put_remove(w)
  PROVE  Atomic!Next
<1> DEFINE k == key[w]
           keys == IF k \in Cached THEN Without(k) ELSE order
           full == Append(keys, k)
           later == [cache EXCEPT ![k] = value[w]]
<1>1. /\ TypeOK /\ NoKeyTwice /\ lock = Free /\ pc[w] = "put" /\ k \in Keys
      /\ pc' = [pc EXCEPT ![w] = "store"]
      /\ order' = (IF k \in Cached THEN Append(Without(k), k) ELSE order)
      /\ UNCHANGED <<now, cache, key, value, answer>>
  BY DEF put_remove, Goto, move_to_end, IInv, KeyInv
<1>2. pc'[w] = "store" /\ \A v \in Workers : pc'[v] = "store" => v = w
  BY <1>1, FreeMeansSettled DEF IInv, TypeOK
<1>3. keys \in Seq(Keys) /\ \A i \in 1..Len(keys) : keys[i] \in Keys \ {k}
  <2>1. CASE k \in Cached
    BY <1>1, <2>1, WithoutProperties, CachedAreKeys DEF TypeOK
  <2>2. CASE k \notin Cached
    <3>1. \A i \in 1..Len(order) : order[i] \in Cached
      BY DEF Cached
    <3> QED BY <1>1, <2>2, <3>1, CachedAreKeys DEF TypeOK
  <2> QED BY <2>1, <2>2
<1>4. k \in Cached' <=> k \in Cached
  <2>1. CASE k \in Cached
    <3>1. Cached = {order'[i] : i \in 1..Len(order')}
      BY <1>1, <2>1, MoveProperties DEF TypeOK, move_to_end
    <3> QED BY <2>1, <3>1 DEF Cached
  <2>2. CASE k \notin Cached
    BY <1>1, <2>2 DEF Cached
  <2> QED BY <2>1, <2>2
<1>5. full = IF k \in Cached' THEN order' ELSE Append(order', k)
  BY <1>1, <1>4
<1>6. /\ full \in Seq(Keys) /\ later \in [Keys -> Value] /\ cache \in [Keys -> Value]
      /\ \A i \in 1..Len(keys) : later[keys[i]] = cache[keys[i]]
      /\ later[k] = value[w] /\ \A j \in Keys \ {k} : later[j] = cache[j]
  <2>1. full \in Seq(Keys)
    BY <1>1, <1>3, AppendFacts
  <2>2. /\ later \in [Keys -> Value] /\ cache \in [Keys -> Value]
        /\ later[k] = value[w] /\ \A j \in Keys \ {k} : later[j] = cache[j]
    BY <1>1 DEF TypeOK
  <2> HIDE DEF keys, full, later
  <2> QED BY <1>3, <2>1, <2>2
<1>7. \A i \in 1..Len(full) : full[i] \in Keys
  BY <1>6, ElementOfSeq
<1>8. \A i \in 1..Len(full) : later[full[i]] = IF full[i] = k THEN value[w] ELSE cache[full[i]]
  <2> HIDE DEF full, later
  <2> QED BY <1>6, <1>7
<1>9. Settled' = Latest(Listed(full, later))
  <2> HIDE DEF full, later
  <2>1. /\ key'[w] \in Cached' => full = order'
        /\ key'[w] \notin Cached' => full = Append(order', key'[w])
    BY <1>1, <1>5
  <2>2. \A i \in 1..Len(full) :
          later[full[i]] = IF full[i] = key'[w] THEN value'[w] ELSE cache'[full[i]]
    BY <1>1, <1>8
  <2> HIDE DEF k
  <2> QED BY <1>2, <2>1, <2>2, SettledDuring
<1>10. Listed(full, later) = Append(Listed(keys, cache), Entry(k, value[w]))
  <2> HIDE DEF keys, later
  <2>1. Listed(Append(keys, k), later) = Append(Listed(keys, cache), Entry(k, later[k]))
    <3>1. /\ keys \in Seq(Keys) /\ k \in Keys /\ cache \in [Keys -> Value]
          /\ later \in [Keys -> Value] /\ \A i \in 1..Len(keys) : later[keys[i]] = cache[keys[i]]
      BY <1>1, <1>3, <1>6
    <3> HIDE DEF k
    <3> QED BY <3>1, ListedAppend
  <2> QED BY <1>6, <2>1
<1>11. Atomic!Others(k) = Listed(keys, cache)
  BY <1>1, AtRest
<1>12. Settled' = Atomic!Bounded(Append(Atomic!Others(k), Entry(k, value[w])))
  BY <1>9, <1>10, <1>11 DEF Latest, Atomic!Bounded, Atomic!Newest
<1>13. /\ value[w].size \in Sizes /\ value[w].size <= MAX_OBJECT_SIZE
       /\ value[w].timestamp \in 1..now /\ value[w].timestamp <= now
  BY <1>1 DEF CallInv, TypeOK
<1>14. Atomic!Put(k, value[w].size, value[w].timestamp)
  BY <1>1, <1>12, <1>13 DEF Atomic!Put, Entry
<1> QED BY <1>1, <1>13, <1>14 DEF Atomic!Next

\* The assignment leaves what the callers see as it is ...
LEMMA StoreIsQuiet ==
  ASSUME IInv, IInv', NEW w \in Workers, put_store(w)
  PROVE  UNCHANGED AtomicVars
<1> DEFINE k == key[w]
<1>1. /\ pc[w] = "store" /\ k \in Keys /\ TypeOK
      /\ order' = (IF k \in Cached THEN order ELSE Append(order, k))
      /\ cache' = [cache EXCEPT ![k] = value[w]] /\ UNCHANGED <<now, answer>>
  BY DEF put_store, IInv, KeyInv
<1>2. Storing /\ Storer = w
  BY <1>1, StorerIs DEF IInv
<1>3. \A v \in Workers : pc'[v] # "store"
  BY <1>1, HolderIsAlone DEF put_store, Release, Goto, IInv, TypeOK
<1>4. order' = PutKeys
  BY <1>1, <1>2 DEF PutKeys
<1>5. order' \in Seq(Keys) /\ \A i \in 1..Len(order') : order'[i] \in Keys
  BY ElementOfSeq DEF IInv, TypeOK
<1>6. \A i \in 1..Len(order') : cache'[order'[i]] = PutValue(order'[i])
  BY <1>1, <1>2, <1>5 DEF PutValue, TypeOK
<1>7. Settled = Latest(Listed(order', cache'))
  BY <1>4, <1>6, SettledIs
<1> QED BY <1>1, <1>3, <1>7, SettledAfter DEF AtomicVars

\* ... and so does the loop, which evicts what they no longer see.
LEMMA EvictIsQuiet ==
  ASSUME IInv, IInv', NEW w \in Workers, put_evict(w)
  PROVE  UNCHANGED AtomicVars
<1> DEFINE n == Len(order)
           l == Listed(order, cache)
           m == Listed(order', cache')
<1>1. /\ pc[w] = "evict" /\ TypeOK /\ NoKeyTwice /\ order' = Tail(order)
      /\ cache' = [cache EXCEPT ![Head(order)] = None] /\ UNCHANGED <<now, answer>>
      /\ \A v \in Workers : pc[v] # "store"
  BY HolderIsAlone DEF put_evict, IInv
<1>2. \A v \in Workers : pc'[v] # "store"
  BY <1>1 DEF put_evict, Release, Goto, TypeOK
<1>3. n = CAPACITY + 1 /\ order # <<>> /\ CAPACITY \in Nat /\ order \in Seq(Keys)
  BY <1>1, EmptySeq, CacheAssumption, CachedAreKeys DEF IInv, StageInv, TypeOK
<1>4. /\ Len(order') = CAPACITY /\ order' \in Seq(Keys) /\ cache' \in [Keys -> Value]
      /\ \A i \in 1..CAPACITY : order'[i] = order[i + 1]
      /\ Head(order) = order[1]
  BY <1>1, <1>3, HeadTailProperties DEF IInv, TypeOK
<1>5. \A i \in 1..CAPACITY : cache'[order[i + 1]] = cache[order[i + 1]]
  <2> SUFFICES ASSUME NEW i \in 1..CAPACITY
               PROVE  cache'[order[i + 1]] = cache[order[i + 1]]
    OBVIOUS
  <2>1. i + 1 \in 1..n /\ 1 \in 1..n /\ i + 1 # 1
    BY <1>3
  <2>2. order[i + 1] # order[1] /\ order[i + 1] \in Keys
    BY <1>1, <1>3, <2>1, ElementOfSeq DEF NoKeyTwice
  <2> QED BY <1>1, <1>4, <2>2 DEF TypeOK
<1>6. /\ l \in Seq(Entries) /\ Len(l) = n
      /\ \A i \in 1..n : l[i] = Entry(order[i], cache[order[i]]) /\ l[i] \in Entries
  BY <1>1, <1>3, ListedFacts, ElementOfSeq DEF TypeOK
<1>7. /\ m \in Seq(Entries) /\ Len(m) = CAPACITY
      /\ \A i \in 1..CAPACITY : m[i] = Entry(order[i + 1], cache[order[i + 1]])
  <2>1. /\ m \in Seq(Entries) /\ Len(m) = CAPACITY
        /\ \A i \in 1..CAPACITY : m[i] = Entry(order'[i], cache'[order'[i]])
    BY <1>4, ListedFacts
  <2> QED BY <1>4, <1>5, <2>1
<1> HIDE DEF l, m
<1>8. Settled = SubSeq(l, 2, n)
  <2>1. Settled = Latest(l)
    BY <1>1, SettledQuiet DEF l
  <2> QED BY <1>3, <1>6, <2>1 DEF Latest
<1>9. /\ SubSeq(l, 2, n) \in Seq(Entries) /\ Len(SubSeq(l, 2, n)) = CAPACITY
      /\ \A i \in 1..CAPACITY : SubSeq(l, 2, n)[i] = l[i + 1]
  <2>1. \A i \in 2..n : l[i] \in Entries
    BY <1>3, <1>6
  <2>2. /\ SubSeq(l, 2, n) \in Seq(Entries)
        /\ Len(SubSeq(l, 2, n)) = IF 2 <= n THEN n - 2 + 1 ELSE 0
        /\ \A i \in 1..n - 2 + 1 : SubSeq(l, 2, n)[i] = l[2 + i - 1]
    BY <1>3, <2>1, SubSeqProperties
  <2> QED BY <1>3, <2>2
<1>10. SubSeq(l, 2, n) = m
  <2>1. \A i \in 1..CAPACITY : SubSeq(l, 2, n)[i] = m[i]
    BY <1>3, <1>6, <1>7, <1>9
  <2> QED BY <1>7, <1>9, <2>1, SeqEqual
<1>11. Settled' = m
  <2>1. Settled' = Latest(m)
    BY <1>2, SettledAfter DEF m
  <2> QED BY <1>3, <1>7, <2>1 DEF Latest
<1> QED BY <1>1, <1>8, <1>10, <1>11 DEF AtomicVars

\* A step that leaves the OrderedDict alone and takes no worker to or from
\* the assignment.
LEMMA SettledStays ==
  ASSUME UNCHANGED <<order, cache>>,
         \A v \in Workers : (pc'[v] = "store" => pc[v] = "store") /\ (pc[v] = "store" => pc'[v] = "store"),
         \A v \in Workers : pc[v] = "store" => key'[v] = key[v] /\ value'[v] = value[v]
  PROVE  Settled' = Settled
<1>1. (Storing' => Storing) /\ (Storing => Storing') /\ Cached' = Cached
  BY DEF Storing, Cached
<1>2. CASE Storing
  <2>1. \A v \in Workers : pc'[v] = "store" <=> pc[v] = "store"
    OBVIOUS
  <2>2. Storer' = Storer
    BY <2>1 DEF Storer
  <2>3. Storer \in Workers /\ pc[Storer] = "store"
    BY <1>2 DEF Storing, Storer
  <2>4. key'[Storer'] = key[Storer] /\ value'[Storer'] = value[Storer]
    BY <2>2, <2>3
  <2>5. PutKeys' = PutKeys /\ \A k : PutValue(k)' = PutValue(k)
    BY <1>1, <1>2, <2>4 DEF PutKeys, PutValue
  <2> QED BY <2>5 DEF Settled
<1>3. CASE ~Storing
  <2>1. (\A v \in Workers : pc[v] # "store") /\ (\A v \in Workers : pc'[v] # "store")
    BY <1>1, <1>3 DEF Storing
  <2> QED BY <2>1, SettledQuiet, SettledAfter
<1> QED BY <1>2, <1>3

LEMMA MissIsAtomic ==
  ASSUME IInv, NEW w \in Workers, NEW k \in Keys, get_miss(w, k)
  PROVE  Atomic!Next
<1>1. /\ lock = Free /\ k \notin Cached /\ answer' = None
      /\ UNCHANGED <<now, order, cache, pc, key, value>>
  BY DEF get_miss, store
<1>2. Settled' = Settled
  BY <1>1, SettledStays
<1>3. k \notin Atomic!Stored
  BY <1>1, AtRest
<1> QED BY <1>1, <1>2, <1>3 DEF Atomic!Next, Atomic!Miss, Atomic!None, None

LEMMA ExpiredMissIsAtomic ==
  ASSUME IInv, IInv', CallInv, NEW w \in Workers, get_expired_miss(w)
  PROVE  Atomic!Next
<1> DEFINE k == key[w]
<1>1. /\ pc[w] = "expired" /\ lock' = Free /\ answer' = None /\ k \in Keys \ Cached
      /\ pc' = [pc EXCEPT ![w] = "idle"] /\ UNCHANGED <<now, order, cache>> /\ TypeOK
  BY DEF get_expired_miss, Release, Goto, store, CallInv, IInv
<1>2. /\ \A v \in Workers : pc[v] # "store"
      /\ \A v \in Workers : pc'[v] # "store"
  BY <1>1, HolderIsAlone DEF IInv, TypeOK
<1>3. Settled' = Settled
  BY <1>1, <1>2, SettledStays
<1>4. k \notin Atomic!Stored
  BY <1>1, AtRest
<1> QED BY <1>1, <1>3, <1>4 DEF Atomic!Next, Atomic!Miss, Atomic!None, None

LEMMA ClearIsAtomic == ASSUME IInv, clear PROVE Atomic!Next
<1>1. /\ \A v \in Workers : pc'[v] # "store"
      /\ order' = <<>> /\ UNCHANGED <<now, answer>>
  BY FreeMeansSettled DEF clear, locals, IInv
<1>2. Settled' = <<>>
  BY <1>1, SettledAfter, EmptyListed
<1> QED BY <1>1, <1>2 DEF Atomic!Next, Atomic!Clear

LEMMA TickIsAtomic == ASSUME Tick PROVE Atomic!Next
<1>1. Settled' = Settled
  BY SettledStays DEF Tick, store, locals
<1> QED BY <1>1 DEF Tick, locals, Atomic!Next, Atomic!Tick

LEMMA PutIsQuiet ==
  ASSUME IInv, NEW w \in Workers, NEW k \in Keys, NEW size \in Sizes, put(w, k, size)
  PROVE  UNCHANGED AtomicVars
<1>1. Settled' = Settled
  BY SettledStays DEF put, Starts, Goto, store, IInv, TypeOK
<1> QED BY <1>1 DEF put, AtomicVars

\* Every step of the threads is one of the atomic cache, or none.
LEMMA StepIsAtomic ==
  ASSUME IInv, IInv', CallInv, [Next]_vars
  PROVE  [Atomic!Next]_AtomicVars
<1>1. CASE Tick \/ clear
  BY <1>1, TickIsAtomic, ClearIsAtomic
<1>2. ASSUME NEW w \in Workers, Worker(w) PROVE Atomic!Next \/ UNCHANGED AtomicVars
  BY <1>2, MissIsAtomic, HitIsAtomic, ExpiredIsAtomic, ExpiredMissIsAtomic, PutIsQuiet,
     PutIsAtomic, StoreIsQuiet, EvictIsQuiet DEF Worker
<1>3. CASE UNCHANGED vars
  BY <1>3, SettledStays DEF vars, store, locals, AtomicVars
<1> QED BY <1>1, <1>2, <1>3 DEF Next

\* cache.py: a caller of get and put cannot tell the LRUCache from one that
\* looks up, stores and evicts in one step: it never sees a key twice, an
\* entry past its time to live or more than CAPACITY of them.
THEOREM CacheIsAtomic == Spec => ImplementsAtomicCache
<1> DEFINE Early == now >= 1
<1>1. Init => Atomic!Init
  BY AtomicInit
<1>2. Init => CallInv /\ Early
  BY DEF Init, CallInv
<1>3. IInv /\ CallInv /\ Early /\ [Next]_vars => CallInv' /\ Early'
  BY CallsKeep
<1>4. IInv /\ IInv' /\ CallInv /\ [Next]_vars => [Atomic!Next]_<<now, Settled, answer>>
  BY StepIsAtomic DEF AtomicVars
<1> HIDE DEF Early
<1>5. Spec => [](IInv /\ CallInv)
  BY <1>2, <1>3, CacheInvariant, PTL DEF Spec
<1>6. Spec => Atomic!Init /\ [][Atomic!Next]_<<now, Settled, answer>>
  BY <1>1, <1>4, <1>5, PTL DEF Spec
<1> QED
  BY <1>6 DEF ImplementsAtomicCache, Atomic!Spec
=============================================================================
