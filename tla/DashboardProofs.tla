--------------------------- MODULE DashboardProofs ---------------------------
(***************************************************************************)
(* Proofs about LogFeed and Dashboard, for every size of the ring, any     *)
(* number of streams and any finite number of workers.                     *)
(***************************************************************************)
EXTENDS Dashboard, SequenceTheorems, FiniteSetTheorems, TLAPS

-----------------------------------------------------------------------------
(* Sequences *)

LEMMA AppendFacts ==
  ASSUME NEW S, NEW s \in Seq(S), NEW e \in S
  PROVE  /\ Append(s, e) \in Seq(S)
         /\ Len(Append(s, e)) = Len(s) + 1 /\ Len(s) \in Nat
         /\ \A j \in 1..Len(s) : Append(s, e)[j] = s[j] /\ s[j] \in S
         /\ Append(s, e)[Len(s) + 1] = e
BY AppendProperties, LenProperties, ElementOfSeq

LEMMA ConcatFacts ==
  ASSUME NEW S, NEW s \in Seq(S), NEW t \in Seq(S)
  PROVE  /\ s \o t \in Seq(S) /\ Len(s) \in Nat /\ Len(t) \in Nat
         /\ Len(s \o t) = Len(s) + Len(t)
         /\ \A i \in 1..Len(s) : (s \o t)[i] = s[i]
         /\ \A i \in Len(s) + 1..Len(s) + Len(t) : (s \o t)[i] = t[i - Len(s)]
<1>1. Len(s) \in Nat /\ Len(t) \in Nat
  BY LenProperties
<1> QED BY <1>1, ConcatProperties

\* Moving the head of t to the end of s.
LEMMA MoveHead ==
  ASSUME NEW S, NEW s \in Seq(S), NEW t \in Seq(S), t # <<>>
  PROVE  /\ Append(s, Head(t)) \in Seq(S) /\ Tail(t) \in Seq(S)
         /\ Append(s, Head(t)) \o Tail(t) = s \o t
<1> DEFINE a == Append(s, Head(t))
           b == Tail(t)
<1>1. /\ Head(t) \in S /\ b \in Seq(S) /\ Len(t) \in Nat \ {0} /\ Len(b) = Len(t) - 1
      /\ Head(t) = t[1] /\ \A i \in 1..Len(b) : b[i] = t[i + 1]
  BY HeadTailProperties, EmptySeq
<1>2. /\ a \in Seq(S) /\ Len(a) = Len(s) + 1 /\ Len(s) \in Nat
      /\ \A i \in 1..Len(s) : a[i] = s[i]
      /\ a[Len(s) + 1] = t[1]
  BY <1>1, AppendFacts
<1> HIDE DEF a, b
<1>3. /\ a \o b \in Seq(S) /\ Len(a \o b) = Len(s) + Len(t)
      /\ \A i \in 1..Len(s) + 1 : (a \o b)[i] = a[i]
      /\ \A i \in Len(s) + 2..Len(s) + Len(t) : (a \o b)[i] = b[i - (Len(s) + 1)]
  <2>1. /\ a \o b \in Seq(S) /\ Len(a \o b) = Len(a) + Len(b)
        /\ \A i \in 1..Len(a) : (a \o b)[i] = a[i]
        /\ \A i \in Len(a) + 1..Len(a) + Len(b) : (a \o b)[i] = b[i - Len(a)]
    <3>1. a \in Seq(S) /\ b \in Seq(S)
      BY <1>1, <1>2
    <3> QED BY <3>1, ConcatFacts
  <2> QED BY <1>1, <1>2, <2>1
<1>4. /\ s \o t \in Seq(S) /\ Len(s \o t) = Len(s) + Len(t)
      /\ \A i \in 1..Len(s) : (s \o t)[i] = s[i]
      /\ \A i \in Len(s) + 1..Len(s) + Len(t) : (s \o t)[i] = t[i - Len(s)]
  BY ConcatFacts
<1>5. ASSUME NEW i \in 1..Len(s) + Len(t) PROVE (a \o b)[i] = (s \o t)[i]
  <2>1. CASE i \in 1..Len(s)
    BY <1>1, <1>2, <1>3, <1>4, <2>1
  <2>2. CASE i = Len(s) + 1
    <3>1. (s \o t)[i] = t[1]
      BY <1>1, <1>2, <1>4, <2>2
    <3> QED BY <1>2, <1>3, <2>2, <3>1
  <2>3. CASE i \in Len(s) + 2..Len(s) + Len(t)
    <3>1. i - (Len(s) + 1) \in 1..Len(b) /\ i - (Len(s) + 1) + 1 = i - Len(s)
      BY <1>1, <1>2, <2>3
    <3>2. (a \o b)[i] = t[i - Len(s)]
      BY <1>1, <1>3, <2>3, <3>1
    <3> QED BY <1>1, <1>2, <1>4, <2>3, <3>2
  <2> QED BY <1>1, <1>2, <2>1, <2>2, <2>3
<1>6. a \o b = s \o t
  BY <1>3, <1>4, <1>5, SeqEqual
<1> QED BY <1>1, <1>2, <1>6 DEF a, b

LEMMA NewestFacts ==
  ASSUME NEW S, NEW s \in Seq(S), NEW n \in Nat \ {0}
  PROVE  /\ Newest(s, n) \in Seq(S)
         /\ Len(Newest(s, n)) = IF n < Len(s) THEN n ELSE Len(s)
         /\ \A i \in 1..Len(Newest(s, n)) :
              Newest(s, n)[i] = s[Len(s) - Len(Newest(s, n)) + i]
<1>1. Len(s) \in Nat
  BY LenProperties
<1>2. CASE n < Len(s)
  <2> DEFINE m == Len(s) - n + 1
             w == SubSeq(s, m, Len(s))
  <2>1. m \in 1..Len(s) /\ Len(s) - m + 1 = n /\ m - 1 = Len(s) - n
    BY <1>1, <1>2
  <2>2. \A i \in m..Len(s) : s[i] \in S
    BY <1>1, <2>1, ElementOfSeq
  <2>3. /\ w \in Seq(S) /\ Len(w) = IF m <= Len(s) THEN Len(s) - m + 1 ELSE 0
        /\ \A i \in 1..Len(s) - m + 1 : w[i] = s[m + i - 1]
    BY <1>1, <2>1, <2>2, SubSeqProperties
  <2> HIDE DEF m
  <2>4. /\ w \in Seq(S) /\ Len(w) = n /\ \A i \in 1..n : w[i] = s[Len(s) - n + i]
    <3>1. \A i \in 1..n : m + i - 1 = Len(s) - n + i
      BY <1>1, <2>1
    <3> QED BY <2>1, <2>3, <3>1
  <2>5. Newest(s, n) = w
    BY <1>2 DEF Newest, m
  <2> QED BY <1>2, <2>4, <2>5
<1>3. CASE ~(n < Len(s))
  BY <1>1, <1>3 DEF Newest
<1> QED BY <1>2, <1>3

-----------------------------------------------------------------------------
(* The order of the feed *)

Ordered(v) ==
  /\ \A i \in 1..Len(Feed(v)) : Feed(v)[i] > opened[v]
  /\ \A i, j \in 1..Len(Feed(v)) : i < j => Feed(v)[i] < Feed(v)[j]

Seen(v) ==
  /\ last_log_count[v] <= Len(ring)
  /\ pc[v] = "away" => sent[v] = <<>>
  /\ pc[v] \in {"away", "poll"} => new_entries[v] = <<>>
  /\ last_log_count[v] < RING_SIZE =>
       /\ opened[v] <= last_log_count[v]
       /\ \A i \in 1..Len(Feed(v)) : Feed(v)[i] <= last_log_count[v]

LEMMA FeedInvIs ==
  FeedInv <=> TypeOK /\ RingInv /\ \A v \in Viewers : Ordered(v) /\ Seen(v)
BY DEF FeedInv, FeedInOrder, SeenInv, Ordered, Seen

LEMMA RingFacts ==
  ASSUME TypeOK, RingInv
  PROVE  /\ Len(ring) \in Nat /\ logged \in Nat /\ RING_SIZE \in Nat \ {0}
         /\ Len(ring) <= logged /\ Len(ring) <= RING_SIZE
         /\ Len(ring) < RING_SIZE => Len(ring) = logged
BY FeedAssumption, LenProperties DEF TypeOK, RingInv

\* What a step does not touch stays in order.
LEMMA OthersKeep ==
  ASSUME NEW v \in Viewers, Ordered(v), Seen(v), Len(ring) \in Nat, Len(ring') \in Nat,
         last_log_count[v] \in Nat, Len(ring) <= Len(ring'),
         pc'[v] = pc[v] \/ pc'[v] = "gone",
         last_log_count'[v] = last_log_count[v],
         new_entries'[v] = new_entries[v], sent'[v] = sent[v], opened'[v] = opened[v]
  PROVE  Ordered(v)' /\ Seen(v)'
<1>1. Feed(v)' = Feed(v)
  BY DEF Feed
<1>2. Ordered(v)'
  BY <1>1 DEF Ordered
<1>3. Seen(v)'
  BY <1>1 DEF Seen
<1> QED BY <1>2, <1>3

LEMMA NumbersGrow ==
  ASSUME logged \in Nat, logged' \in Nat, logged <= logged'
  PROVE  Seq(1..logged) \subseteq Seq(1..logged') /\ 0..logged \subseteq 0..logged'
<1>1. 1..logged \subseteq 1..logged' /\ 0..logged \subseteq 0..logged'
  OBVIOUS
<1> QED BY <1>1, SeqMonotonic

LEMMA FeedInit == ASSUME Init PROVE FeedInv
<1>1. \A S : <<>> \in Seq(S) /\ Len(<<>>) = 0
  BY EmptySeq
<1>2. \A v \in Viewers : Feed(v) = <<>>
  BY <1>1, ConcatEmptySeq DEF Init, Feed
<1>3. TypeOK
  BY <1>1, FeedAssumption DEF Init, TypeOK, PCs
<1>4. RingInv
  BY <1>1, FeedAssumption DEF Init, RingInv
<1>5. \A v \in Viewers : Ordered(v) /\ Seen(v)
  BY <1>1, <1>2 DEF Init, Ordered, Seen
<1> QED BY <1>3, <1>4, <1>5, FeedInvIs

LEMMA LogKeepsFeed ==
  ASSUME FeedInv, log_event
  PROVE  FeedInv'
<1> DEFINE a == Append(ring, logged + 1)
           n == Len(ring)
<1>1. /\ TypeOK /\ RingInv /\ \A v \in Viewers : Ordered(v) /\ Seen(v)
      /\ logged' = logged + 1 /\ ring' = Newest(a, RING_SIZE) /\ UNCHANGED stream
  BY FeedInvIs DEF log_event
<1>2. /\ n \in Nat /\ logged \in Nat /\ RING_SIZE \in Nat \ {0}
      /\ n <= logged /\ n <= RING_SIZE /\ (n < RING_SIZE => n = logged)
      /\ \A i \in 1..n : ring[i] = logged - n + i
  BY <1>1, RingFacts DEF RingInv
<1>3. Seq(1..logged) \subseteq Seq(1..logged') /\ 0..logged \subseteq 0..logged'
  BY <1>1, <1>2, NumbersGrow
<1>4. /\ a \in Seq(1..logged') /\ Len(a) = n + 1
      /\ \A i \in 1..n : a[i] = ring[i]
      /\ a[n + 1] = logged + 1
  <2>1. ring \in Seq(1..logged') /\ logged + 1 \in 1..logged'
    BY <1>1, <1>2, <1>3 DEF TypeOK
  <2> QED BY <2>1, AppendFacts
<1> HIDE DEF a
<1>5. /\ ring' \in Seq(1..logged')
      /\ Len(ring') = IF RING_SIZE < n + 1 THEN RING_SIZE ELSE n + 1
      /\ \A i \in 1..Len(ring') : ring'[i] = a[n + 1 - Len(ring') + i]
  <2>1. a \in Seq(1..logged') /\ RING_SIZE \in Nat \ {0}
    BY <1>2, <1>4
  <2>2. /\ Newest(a, RING_SIZE) \in Seq(1..logged')
        /\ Len(Newest(a, RING_SIZE)) = IF RING_SIZE < Len(a) THEN RING_SIZE ELSE Len(a)
        /\ \A i \in 1..Len(Newest(a, RING_SIZE)) :
             Newest(a, RING_SIZE)[i] = a[Len(a) - Len(Newest(a, RING_SIZE)) + i]
    BY <2>1, NewestFacts
  <2>3. ring' = Newest(a, RING_SIZE) /\ Len(a) = n + 1
    BY <1>1, <1>4
  <2>4. ring' \in Seq(1..logged') /\ Len(ring') = IF RING_SIZE < n + 1 THEN RING_SIZE ELSE n + 1
    BY <2>2, <2>3
  <2>5. ASSUME NEW i \in 1..Len(ring') PROVE ring'[i] = a[n + 1 - Len(ring') + i]
    <3>1. ring'[i] = a[Len(a) - Len(ring') + i]
      BY <2>2, <2>3
    <3> QED BY <2>3, <3>1
  <2> QED BY <2>4, <2>5
<1>6. /\ n <= Len(ring') /\ Len(ring') \in Nat
      /\ Len(ring') <= RING_SIZE /\ Len(ring') <= n + 1
  BY <1>2, <1>5
<1>7. RingInv'
  <2>1. Len(ring') = IF logged' < RING_SIZE THEN logged' ELSE RING_SIZE
    BY <1>1, <1>2, <1>5
  <2>2. ASSUME NEW i \in 1..Len(ring') PROVE ring'[i] = logged' - Len(ring') + i
    <3> DEFINE j == n + 1 - Len(ring') + i
    <3>1. j \in 1..n + 1 /\ ring'[i] = a[j]
      <4>1. ring'[i] = a[n + 1 - Len(ring') + i]
        BY <1>5
      <4>2. j \in 1..n + 1
        BY <1>2, <1>6
      <4> QED BY <4>1, <4>2
    <3>2. logged - n + j = logged' - Len(ring') + i
      BY <1>1, <1>2, <1>6
    <3> HIDE DEF j
    <3>3. a[j] = logged - n + j
      <4>1. CASE j = n + 1
        BY <1>2, <1>4, <4>1
      <4>2. CASE j \in 1..n
        BY <1>2, <1>4, <4>2
      <4> QED BY <1>2, <3>1, <4>1, <4>2
    <3> QED BY <3>1, <3>2, <3>3
  <2> QED BY <2>1, <2>2 DEF RingInv
<1>8. TypeOK'
  BY <1>1, <1>2, <1>3, <1>5, <1>6 DEF TypeOK, stream
<1>9. \A v \in Viewers : Ordered(v)' /\ Seen(v)'
  BY <1>1, <1>2, <1>6, OthersKeep DEF stream, TypeOK
<1> QED BY <1>7, <1>8, <1>9, FeedInvIs DEF FeedInv, FeedInOrder, SeenInv, Ordered, Seen

\* A step of one stream, when the others and the ring stay as they are.
LEMMA OneStream ==
  ASSUME FeedInv, NEW v \in Viewers, UNCHANGED <<ring, logged>>, TypeOK',
         \A u \in Viewers \ {v} :
           /\ pc'[u] = pc[u] /\ last_log_count'[u] = last_log_count[u]
           /\ new_entries'[u] = new_entries[u] /\ sent'[u] = sent[u]
           /\ opened'[u] = opened[u],
         Ordered(v)' /\ Seen(v)'
  PROVE  FeedInv'
<1>1. /\ TypeOK /\ RingInv /\ \A u \in Viewers : Ordered(u) /\ Seen(u)
  BY FeedInvIs
<1>2. \A u \in Viewers : Ordered(u)' /\ Seen(u)'
  <2> SUFFICES ASSUME NEW u \in Viewers, u # v PROVE Ordered(u)' /\ Seen(u)'
    OBVIOUS
  <2>1. Len(ring) \in Nat /\ Len(ring') = Len(ring) /\ last_log_count[u] \in Nat
    BY <1>1, RingFacts DEF TypeOK
  <2> QED BY <1>1, <2>1, OthersKeep
<1>3. RingInv'
  BY <1>1 DEF RingInv
<1> QED BY <1>2, <1>3 DEF FeedInv, FeedInOrder, SeenInv, Ordered, Seen

LEMMA OpenKeepsFeed ==
  ASSUME FeedInv, NEW v \in Viewers, open(v)
  PROVE  FeedInv'
<1>1. /\ TypeOK /\ RingInv /\ \A u \in Viewers : Ordered(u) /\ Seen(u)
      /\ pc[v] = "away" /\ pc' = [pc EXCEPT ![v] = "poll"]
      /\ last_log_count' = [last_log_count EXCEPT ![v] = Len(ring)]
      /\ opened' = [opened EXCEPT ![v] = logged]
      /\ UNCHANGED <<ring, logged, new_entries, sent>>
  BY FeedInvIs DEF open
<1>2. /\ Len(ring) \in Nat /\ logged \in Nat /\ RING_SIZE \in Nat
      /\ Len(ring) <= RING_SIZE /\ (Len(ring) < RING_SIZE => Len(ring) = logged)
  BY <1>1, RingFacts
<1>3. TypeOK'
  BY <1>1, <1>2 DEF TypeOK, PCs
<1>4. sent'[v] = <<>> /\ new_entries'[v] = <<>> /\ Feed(v)' = <<>>
  <2>1. sent'[v] = <<>> /\ new_entries'[v] = <<>>
    BY <1>1 DEF Seen
  <2>2. Feed(v)' = <<>> \o <<>>
    BY <2>1 DEF Feed
  <2> QED BY <2>1, <2>2, EmptySeq, ConcatEmptySeq
<1>5. pc'[v] = "poll" /\ last_log_count'[v] = Len(ring) /\ opened'[v] = logged
  BY <1>1 DEF TypeOK
<1>6. Ordered(v)' /\ Seen(v)'
  <2>1. Len(<<>>) = 0
    OBVIOUS
  <2>2. Ordered(v)'
    BY <1>4, <2>1 DEF Ordered
  <2>3. Seen(v)'
    BY <1>1, <1>2, <1>4, <1>5, <2>1 DEF Seen
  <2> QED BY <2>2, <2>3
<1> QED BY <1>1, <1>3, <1>6, OneStream DEF TypeOK

\* What a poll finds is the entries the stream has not counted yet.
LEMMA FreshFacts ==
  ASSUME TypeOK, RingInv, NEW last \in Nat, last < Len(ring)
  PROVE  /\ fresh(Len(ring), last) \in Seq(1..logged)
         /\ Len(fresh(Len(ring), last)) = Len(ring) - last
         /\ \A i \in 1..Len(ring) - last :
              fresh(Len(ring), last)[i] = logged - Len(ring) + last + i
<1> DEFINE n == Len(ring)
           f == Newest(ring, n - last)
<1>1. n \in Nat /\ logged \in Nat /\ ring \in Seq(1..logged) /\ n - last \in Nat \ {0}
      /\ \A i \in 1..n : ring[i] = logged - n + i
  BY RingFacts DEF TypeOK, RingInv
<1>2. /\ f \in Seq(1..logged) /\ Len(f) = IF n - last < n THEN n - last ELSE n
      /\ \A i \in 1..Len(f) : f[i] = ring[n - Len(f) + i]
  BY <1>1, NewestFacts
<1>3. fresh(n, last) = f
  BY <1>1 DEF fresh
<1>4. Len(f) = n - last
  BY <1>1, <1>2
<1> HIDE DEF f
<1>5. ASSUME NEW i \in 1..n - last PROVE f[i] = logged - n + last + i
  <2>1. last + i \in 1..n /\ n - (n - last) + i = last + i
    BY <1>1
  <2>2. f[i] = ring[last + i]
    BY <1>2, <1>4, <2>1
  <2>3. ring[last + i] = logged - n + (last + i)
    BY <1>1, <2>1
  <2> QED BY <1>1, <2>2, <2>3
<1> QED BY <1>2, <1>3, <1>4, <1>5

LEMMA PollKeepsFeed ==
  ASSUME FeedInv, NEW v \in Viewers, poll(v)
  PROVE  FeedInv'
<1> DEFINE n == Len(ring)
           last == last_log_count[v]
           f == fresh(n, last)
           s == sent[v]
<1>1. /\ TypeOK /\ RingInv /\ \A u \in Viewers : Ordered(u) /\ Seen(u)
      /\ pc[v] = "poll" /\ n # last /\ pc' = [pc EXCEPT ![v] = "send"]
      /\ new_entries' = [new_entries EXCEPT ![v] = f]
      /\ last_log_count' = [last_log_count EXCEPT ![v] = n]
      /\ UNCHANGED <<ring, logged, sent, opened>>
  BY FeedInvIs DEF poll
<1>2. /\ n \in Nat /\ logged \in Nat /\ RING_SIZE \in Nat
      /\ n <= RING_SIZE /\ n <= logged /\ (n < RING_SIZE => n = logged)
      /\ s \in Seq(1..logged) /\ opened[v] \in 0..logged
  BY <1>1, RingFacts DEF TypeOK
<1>3. last \in Nat /\ last < n /\ last < RING_SIZE /\ opened[v] <= last
  <2>1. last \in Nat /\ last <= n
    BY <1>1 DEF TypeOK, Seen
  <2>2. last < n /\ last < RING_SIZE
    BY <1>1, <1>2, <2>1
  <2> QED BY <1>1, <2>1, <2>2 DEF Seen
<1>4. /\ f \in Seq(1..logged) /\ Len(f) = n - last
      /\ \A i \in 1..n - last : f[i] = logged - n + last + i
  BY <1>1, <1>3, FreshFacts
<1> HIDE DEF f
<1>5. TypeOK'
  BY <1>1, <1>2, <1>4 DEF TypeOK, PCs
<1>6. /\ pc'[v] = "send" /\ last_log_count'[v] = n /\ new_entries'[v] = f
      /\ sent'[v] = s /\ opened'[v] = opened[v]
  BY <1>1 DEF TypeOK
<1>7. Feed(v) = s
  <2>1. new_entries[v] = <<>>
    BY <1>1 DEF Seen
  <2> QED BY <1>2, <2>1, ConcatEmptySeq DEF Feed
<1> DEFINE g == s \o f
           m == Len(s)
<1>8. /\ \A i \in 1..m : s[i] > opened[v] /\ s[i] <= last /\ s[i] \in 1..logged
      /\ \A i, j \in 1..m : i < j => s[i] < s[j]
  BY <1>1, <1>2, <1>3, <1>7, ElementOfSeq DEF Ordered, Seen
<1>9. /\ Feed(v)' = g /\ g \in Seq(1..logged) /\ m \in Nat /\ Len(g) = m + (n - last)
      /\ \A i \in 1..m : g[i] = s[i]
      /\ \A i \in m + 1..m + (n - last) : g[i] = logged - n + last + (i - m)
  <2>1. /\ g \in Seq(1..logged) /\ m \in Nat /\ Len(g) = m + Len(f)
        /\ \A i \in 1..m : g[i] = s[i]
        /\ \A i \in m + 1..m + Len(f) : g[i] = f[i - m]
    <3>1. s \in Seq(1..logged) /\ f \in Seq(1..logged)
      BY <1>2, <1>4
    <3> HIDE DEF s
    <3> QED BY <3>1, ConcatFacts
  <2>2. \A i \in m + 1..m + (n - last) : i - m \in 1..n - last
    BY <1>2, <1>3, <2>1
  <2>3. Feed(v)' = g
    BY <1>6 DEF Feed
  <2> QED BY <1>4, <2>1, <2>2, <2>3
<1> HIDE DEF g, n, last, s, m
<1>10. ASSUME NEW i \in 1..Len(g) PROVE g[i] > opened[v] /\ g[i] <= logged
  <2>1. CASE i \in 1..m
    BY <1>2, <1>8, <1>9, <2>1
  <2>2. CASE i \in m + 1..m + (n - last)
    <3>1. g[i] = logged - n + last + (i - m)
      BY <1>9, <2>2
    <3>2. opened[v] \in Nat
      BY <1>2
    <3> QED BY <1>2, <1>3, <1>9, <2>2, <3>1, <3>2
  <2> QED BY <1>2, <1>3, <1>9, <2>1, <2>2
<1>11. ASSUME NEW i \in 1..Len(g), NEW j \in 1..Len(g), i < j
       PROVE  g[i] < g[j]
  <2>1. CASE j \in 1..m
    <3>1. i \in 1..m
      BY <1>9, <1>11, <2>1
    <3> QED BY <1>8, <1>9, <1>11, <2>1, <3>1
  <2>2. CASE j \in m + 1..m + (n - last)
    <3>1. g[j] = logged - n + last + (j - m)
      BY <1>9, <2>2
    <3>2. CASE i \in 1..m
      <4>1. g[i] = s[i] /\ s[i] <= last /\ s[i] \in 1..logged
        BY <1>8, <1>9, <3>2
      <4> QED BY <1>2, <1>3, <1>9, <2>2, <3>1, <4>1
    <3>3. CASE i \in m + 1..m + (n - last)
      <4>1. g[i] = logged - n + last + (i - m)
        BY <1>9, <3>3
      <4> QED BY <1>2, <1>3, <1>9, <1>11, <2>2, <3>1, <3>3, <4>1
    <3> QED BY <1>2, <1>3, <1>9, <3>2, <3>3
  <2> QED BY <1>2, <1>3, <1>9, <2>1, <2>2
<1>12. Ordered(v)'
  BY <1>6, <1>9, <1>10, <1>11 DEF Ordered, n, last, s
<1>13. Seen(v)'
  <2>1. n < RING_SIZE => opened[v] <= n /\ \A i \in 1..Len(g) : g[i] <= n
    BY <1>2, <1>3, <1>10
  <2> QED BY <1>1, <1>6, <1>9, <2>1 DEF Seen, n, last, s
<1> QED BY <1>1, <1>5, <1>12, <1>13, OneStream DEF TypeOK, n, last, s, f

LEMMA SendKeepsFeed ==
  ASSUME FeedInv, NEW v \in Viewers, send(v)
  PROVE  FeedInv'
<1>1. /\ TypeOK /\ RingInv /\ \A u \in Viewers : Ordered(u) /\ Seen(u)
      /\ pc[v] = "send" /\ UNCHANGED <<ring, logged, last_log_count, opened>>
  BY FeedInvIs DEF send
<1>2. CASE new_entries[v] = <<>>
  <2>1. pc' = [pc EXCEPT ![v] = "poll"] /\ UNCHANGED <<new_entries, sent>>
    BY <1>2 DEF send
  <2>2. TypeOK'
    BY <1>1, <2>1 DEF TypeOK, PCs
  <2>3. Feed(v)' = Feed(v) /\ pc'[v] = "poll"
    BY <1>1, <2>1 DEF Feed, TypeOK
  <2>4. Ordered(v)' /\ Seen(v)'
    BY <1>1, <1>2, <2>1, <2>3 DEF Ordered, Seen
  <2> QED BY <1>1, <2>1, <2>2, <2>4, OneStream DEF TypeOK
<1>3. CASE new_entries[v] # <<>>
  <2>1. /\ sent' = [sent EXCEPT ![v] = Append(sent[v], Head(new_entries[v]))]
        /\ new_entries' = [new_entries EXCEPT ![v] = Tail(new_entries[v])]
        /\ pc' = pc
    BY <1>3 DEF send
  <2>2. /\ Append(sent[v], Head(new_entries[v])) \in Seq(1..logged)
        /\ Tail(new_entries[v]) \in Seq(1..logged)
        /\ Append(sent[v], Head(new_entries[v])) \o Tail(new_entries[v]) = Feed(v)
    <3>1. sent[v] \in Seq(1..logged) /\ new_entries[v] \in Seq(1..logged)
      BY <1>1 DEF TypeOK
    <3> QED BY <1>3, <3>1, MoveHead DEF Feed
  <2>3. TypeOK'
    BY <1>1, <2>1, <2>2 DEF TypeOK
  <2>4. Feed(v)' = Feed(v)
    <3>1. /\ sent'[v] = Append(sent[v], Head(new_entries[v]))
          /\ new_entries'[v] = Tail(new_entries[v])
      BY <1>1, <2>1 DEF TypeOK
    <3> QED BY <2>2, <3>1 DEF Feed
  <2>5. Ordered(v)' /\ Seen(v)'
    BY <1>1, <2>1, <2>4 DEF Ordered, Seen
  <2> QED BY <1>1, <2>1, <2>3, <2>5, OneStream DEF TypeOK
<1> QED BY <1>2, <1>3

LEMMA LeaveKeepsFeed ==
  ASSUME FeedInv, NEW v \in Viewers, leave(v)
  PROVE  FeedInv'
<1>1. /\ TypeOK /\ RingInv /\ \A u \in Viewers : Ordered(u) /\ Seen(u)
      /\ pc' = [pc EXCEPT ![v] = "gone"]
      /\ UNCHANGED <<ring, logged, last_log_count, new_entries, sent, opened>>
  BY FeedInvIs DEF leave
<1>2. TypeOK'
  BY <1>1 DEF TypeOK, PCs
<1>3. Len(ring) \in Nat /\ last_log_count[v] \in Nat /\ pc'[v] = "gone"
  BY <1>1, RingFacts DEF TypeOK
<1>4. Ordered(v)' /\ Seen(v)'
  BY <1>1, <1>3, OthersKeep
<1> QED BY <1>1, <1>2, <1>4, OneStream DEF TypeOK

LEMMA QuietKeepsFeed == FeedInv /\ UNCHANGED vars => FeedInv'
<1> SUFFICES ASSUME FeedInv, UNCHANGED vars PROVE FeedInv'
  OBVIOUS
<1>1. \A v \in Viewers : Feed(v)' = Feed(v)
  BY DEF vars, stream, Feed
<1> QED
  BY <1>1 DEF vars, stream, FeedInv, FeedInOrder, TypeOK, RingInv, SeenInv

LEMMA FeedInductive == FeedInv /\ [Next]_vars => FeedInv'
BY LogKeepsFeed, OpenKeepsFeed, PollKeepsFeed, SendKeepsFeed, LeaveKeepsFeed, QuietKeepsFeed
DEF Next, Serve

\* logger.py, dashboard.py: whatever the size of the ring, however many entries
\* are logged between two polls, a stream sends none twice, none out of order
\* and none from before it was opened.
THEOREM FeedIsInOrder == Spec => []FeedInOrder
<1>1. FeedInv => FeedInOrder
  BY DEF FeedInv
<1> QED BY <1>1, FeedInit, FeedInductive, PTL DEF Spec

-----------------------------------------------------------------------------
(* What a worker does next *)

Steps == {"idle", "total", "rate_limited", "RATE_LIMITED", "AUTH_FAILED",
          "blocked", "BLOCKED", "allowed", "CONNECT", "FORWARD", "hits", "CACHE_HIT",
          "cached", "misses", "CACHE_MISS", "CACHE_STORE", "FORWARDED", "errors", "ERROR"}

LEMMA ThenSteps == DOMAIN Then = Steps
BY DEF Then, Steps

\* The order of the steps, as far as the invariants need it.
LEMMA StepFacts ==
  ASSUME NEW a \in Steps, NEW b \in Then[a]
  PROVE  /\ b \in Steps
         /\ b = "total" => a = "idle"
         /\ b \in {"allowed", "blocked", "rate_limited"} => a = "total"
         /\ b \in {"CONNECT", "FORWARD"} => a = "allowed"
         /\ b \in {"hits", "misses"} => a = "FORWARD"
         /\ b = "CACHE_HIT" => a = "hits"
         /\ b = "cached" => a = "CACHE_HIT"
         /\ b = "CACHE_MISS" => a = "misses"
         /\ b = "RATE_LIMITED" => a = "rate_limited"
         /\ b = "BLOCKED" => a = "blocked"
         /\ b = "ERROR" => a = "errors"
<1>1. CASE a \in {"idle", "total", "rate_limited", "blocked"}
  BY <1>1 DEF Then, Steps
<1>2. CASE a \in {"RATE_LIMITED", "BLOCKED", "AUTH_FAILED", "allowed", "CONNECT"}
  BY <1>2 DEF Then, Steps
<1>3. CASE a \in {"FORWARD", "hits", "CACHE_HIT", "cached", "misses"}
  BY <1>3 DEF Then, Steps
<1>4. CASE a \in {"CACHE_MISS", "CACHE_STORE", "FORWARDED", "errors", "ERROR"}
  BY <1>4 DEF Then, Steps
<1> QED BY <1>1, <1>2, <1>3, <1>4 DEF Steps

-----------------------------------------------------------------------------
(* Counting workers and log entries *)

\* A worker that goes from a step to another leaves the one and joins the other.
LEMMA Moves ==
  ASSUME NEW w \in Workers, NEW b, at \in [Workers -> Steps], at' = [at EXCEPT ![w] = b],
         NEW P
  PROVE  /\ Standing(P) \in Nat /\ Standing(P)' \in Nat
         /\ at[w] \in P /\ b \in P => Standing(P)' = Standing(P)
         /\ at[w] \notin P /\ b \notin P => Standing(P)' = Standing(P)
         /\ at[w] \notin P /\ b \in P => Standing(P)' = Standing(P) + 1
         /\ at[w] \in P /\ b \notin P => Standing(P)' = Standing(P) - 1
         /\ b \notin P => Standing(P)' <= Standing(P)
         /\ Standing(P)' <= Standing(P) + 1
<1> DEFINE A == {u \in Workers : at[u] \in P}
           B == {u \in Workers : at'[u] \in P}
<1>1. IsFiniteSet(A) /\ IsFiniteSet(B)
  BY DashboardAssumption, FS_Subset
<1> DEFINE C == A \ {w}
<1>2. C = B \ {w} /\ (w \in A <=> at[w] \in P) /\ (w \in B <=> b \in P)
  OBVIOUS
<1>3. Standing(P) = Cardinality(A) /\ Standing(P)' = Cardinality(B)
  BY DEF Standing
<1> HIDE DEF A, B
<1>4. Cardinality(A) \in Nat /\ Cardinality(B) \in Nat /\ Cardinality(C) \in Nat
  BY <1>1, FS_CardinalityType, FS_RemoveElement
<1>5. /\ w \in A => Cardinality(C) = Cardinality(A) - 1
      /\ w \notin A => Cardinality(C) = Cardinality(A)
  BY <1>1, FS_RemoveElement
<1>6. /\ w \in B => Cardinality(C) = Cardinality(B) - 1
      /\ w \notin B => Cardinality(C) = Cardinality(B)
  BY <1>1, <1>2, FS_RemoveElement
<1> HIDE DEF C
<1>7. /\ at[w] \in P => Standing(P) = Cardinality(C) + 1
      /\ at[w] \notin P => Standing(P) = Cardinality(C)
  BY <1>2, <1>3, <1>4, <1>5
<1>8. /\ b \in P => Standing(P)' = Cardinality(C) + 1
      /\ b \notin P => Standing(P)' = Cardinality(C)
  BY <1>2, <1>3, <1>4, <1>6
<1> QED BY <1>3, <1>4, <1>7, <1>8

LEMMA MovesWithin ==
  ASSUME NEW w \in Workers, NEW b, at \in [Workers -> Steps], at' = [at EXCEPT ![w] = b],
         NEW P, b \in P => at[w] \in P
  PROVE  Standing(P)' <= Standing(P)
<1>1. Standing(P) \in Nat /\ Standing(P)' \in Nat
  BY Moves
<1>2. CASE b \in P
  <2>1. at[w] \in P
    BY <1>2
  <2>2. Standing(P)' = Standing(P)
    BY <1>2, <2>1, Moves
  <2> QED BY <1>1, <2>2
<1>3. CASE b \notin P
  BY <1>3, Moves
<1> QED BY <1>2, <1>3

LEMMA StandingIsNat ==
  ASSUME NEW P
  PROVE  Standing(P) \in Nat /\ Standing(P) <= Cardinality(Workers) /\ Cardinality(Workers) \in Nat
BY DashboardAssumption, FS_Subset, FS_CardinalityType DEF Standing

LEMMA LoggedIsNat ==
  ASSUME logged \in Nat, NEW P
  PROVE  Logged(P) \in Nat /\ IsFiniteSet({e \in 1..logged : actions[e] \in P})
<1>1. IsFiniteSet(1..logged)
  BY FS_Interval
<1>2. IsFiniteSet({e \in 1..logged : actions[e] \in P})
  BY <1>1, FS_Subset
<1> QED BY <1>2, FS_CardinalityType DEF Logged

LEMMA Logs ==
  ASSUME logged \in Nat, actions \in Seq(Steps), Len(actions) = logged, NEW b \in Steps,
         actions' = Append(actions, b), logged' = logged + 1, NEW P
  PROVE  /\ Logged(P) \in Nat /\ Logged(P)' \in Nat
         /\ b \in P => Logged(P)' = Logged(P) + 1
         /\ b \notin P => Logged(P)' = Logged(P)
<1> DEFINE A == {e \in 1..logged : actions[e] \in P}
           B == {e \in 1..logged' : actions'[e] \in P}
           n == logged + 1
<1>1. /\ \A e \in 1..logged : actions'[e] = actions[e]
      /\ actions'[n] = b
  BY AppendFacts
<1>2. /\ n \notin 1..logged /\ 1..logged' = 1..logged \cup {n}
  OBVIOUS
<1>3. B = IF b \in P THEN A \cup {n} ELSE A
  BY <1>1, <1>2
<1>4. IsFiniteSet(A) /\ n \notin A /\ Cardinality(A) = Logged(P) /\ Logged(P) \in Nat
  BY <1>2, LoggedIsNat DEF Logged
<1>5. Logged(P)' = Cardinality(B)
  BY DEF Logged
<1>6. Cardinality(A \cup {n}) = Cardinality(A) + 1
  BY <1>4, FS_AddElement
<1> HIDE DEF A, B, n
<1> QED BY <1>3, <1>4, <1>5, <1>6

\* A stream has been sent no more entries of some actions than were logged.
LEMMA SentIsLogged ==
  ASSUME TypeOK, NEW v \in Viewers, Ordered(v), NEW P
  PROVE  SentOf(v, P) \in Nat /\ SentOf(v, P) <= Logged(P)
<1> DEFINE s == sent[v]
           A == {i \in DOMAIN s : actions[s[i]] \in P}
           B == {e \in 1..logged : actions[e] \in P}
           f == [i \in A |-> s[i]]
<1>1. /\ s \in Seq(1..logged) /\ new_entries[v] \in Seq(1..logged) /\ logged \in Nat
      /\ DOMAIN s = 1..Len(s) /\ Len(s) \in Nat
  BY LenProperties DEF TypeOK
<1>2. \A i \in 1..Len(s) : s[i] \in 1..logged
  BY <1>1, ElementOfSeq
<1>3. \A i, j \in 1..Len(s) : i < j => s[i] < s[j]
  <2>1. /\ Len(Feed(v)) = Len(s) + Len(new_entries[v]) /\ Len(new_entries[v]) \in Nat
        /\ \A i \in 1..Len(s) : Feed(v)[i] = s[i]
    <3> DEFINE r == new_entries[v]
    <3>1. s \in Seq(1..logged) /\ r \in Seq(1..logged) /\ Feed(v) = s \o r
      BY <1>1 DEF Feed
    <3> HIDE DEF s, r
    <3>2. /\ Len(s \o r) = Len(s) + Len(r) /\ Len(r) \in Nat
          /\ \A i \in 1..Len(s) : (s \o r)[i] = s[i]
      BY <3>1, ConcatFacts
    <3> QED BY <3>1, <3>2 DEF r
  <2>2. 1..Len(s) \subseteq 1..Len(Feed(v))
    <3> HIDE DEF s
    <3> QED BY <1>1, <2>1
  <2> QED BY <2>1, <2>2 DEF Ordered
<1>4. \A i, j \in 1..Len(s) : s[i] = s[j] => i = j
  <2> SUFFICES ASSUME NEW i \in 1..Len(s), NEW j \in 1..Len(s), s[i] = s[j], i # j
               PROVE  FALSE
    OBVIOUS
  <2>1. i < j \/ j < i
    BY <1>1
  <2>2. s[i] \in 1..logged /\ s[j] \in 1..logged
    BY <1>2
  <2> QED BY <1>1, <1>3, <2>1, <2>2
<1> HIDE DEF s
<1>5. f \in [A -> B] /\ \A i, j \in A : f[i] = f[j] => i = j
  BY <1>1, <1>2, <1>4
<1>6. f \in Injection(A, B)
  BY <1>5 DEF Injection, IsInjective
<1>7. IsFiniteSet(B) /\ Logged(P) = Cardinality(B) /\ SentOf(v, P) = Cardinality(A)
  BY <1>1, LoggedIsNat DEF Logged, SentOf, s
<1>8. IsFiniteSet(A) /\ Cardinality(A) <= Cardinality(B)
  BY <1>6, <1>7, FS_Injection
<1> QED BY <1>7, <1>8, FS_CardinalityType

-----------------------------------------------------------------------------
(* The counters and the log *)

LEMMA WorkTypes ==
  ASSUME WorkTypeOK
  PROVE  /\ at \in [Workers -> Steps] /\ actions \in Seq(Steps) /\ Len(actions) = logged
         /\ counts \in [Counters -> Nat] /\ logged \in Nat
         /\ {"total", "allowed", "blocked", "cached", "rate_limited", "errors",
             "hits", "misses"} = Counters
         /\ \A c \in Counters : counts[c] \in Nat
BY ThenSteps, LenProperties DEF WorkTypeOK, Counters, Metrics, CacheStats

LEMMA GoesFacts ==
  ASSUME WorkTypeOK, NEW w \in Workers, NEW b, Goes(w, b)
  PROVE  /\ at[w] \in Steps /\ b \in Then[at[w]] /\ b \in Steps
         /\ at' = [at EXCEPT ![w] = b] /\ at' \in [Workers -> Steps]
         /\ UNCHANGED <<taken, snapshot>>
BY WorkTypes, StepFacts DEF Goes

\* A count keeps the counters in their order ...
LEMMA CountKeepsCounts ==
  ASSUME WorkTypeOK, CountInv, NEW w \in Workers, NEW c \in Counters, count(w, c)
  PROVE  CountInv'
<1> DEFINE a == at[w]
<1>1. /\ at \in [Workers -> Steps] /\ a \in Steps /\ c \in Then[a]
      /\ at' = [at EXCEPT ![w] = c]
  BY WorkTypes, GoesFacts DEF count
<1>2. /\ c = "total" => a = "idle"
      /\ c \in {"allowed", "blocked", "rate_limited"} => a = "total"
      /\ c \in {"hits", "misses"} => a = "FORWARD"
      /\ c = "cached" => a = "CACHE_HIT"
      /\ c \notin {"FORWARD", "CACHE_HIT"}
  BY <1>1, StepFacts DEF Counters, Metrics, CacheStats
<1>3. /\ counts'[c] = counts[c] + 1
      /\ \A d \in Counters \ {c} : counts'[d] = counts[d]
      /\ \A d \in Counters : counts[d] \in Nat
      /\ {"total", "allowed", "blocked", "cached", "rate_limited", "errors",
          "hits", "misses"} = Counters
  BY WorkTypes DEF count
<1>4. counts'["allowed"] + counts'["blocked"] + counts'["rate_limited"]
        + Standing({"total"})' <= counts'["total"]
  <2> DEFINE P == {"total"}
  <2>1. /\ Standing(P) \in Nat /\ Standing(P)' \in Nat
        /\ Standing(P)' <= Standing(P) + 1
        /\ c \notin P => Standing(P)' <= Standing(P)
    BY <1>1, Moves
  <2>2. c \in {"allowed", "blocked", "rate_limited"} => Standing(P)' = Standing(P) - 1
    BY <1>1, <1>2, Moves
  <2> QED BY <1>3, <2>1, <2>2 DEF CountInv
<1>5. counts'["cached"] + Standing({"allowed", "FORWARD", "hits", "CACHE_HIT"})'
        <= counts'["allowed"]
  <2> DEFINE P == {"allowed", "FORWARD", "hits", "CACHE_HIT"}
  <2>1. /\ Standing(P) \in Nat /\ Standing(P)' \in Nat
        /\ Standing(P)' <= Standing(P) + 1
        /\ c \notin P => Standing(P)' <= Standing(P)
    BY <1>1, Moves
  <2>2. c = "hits" => Standing(P)' = Standing(P)
    BY <1>1, <1>2, Moves
  <2>3. c = "cached" => Standing(P)' = Standing(P) - 1
    BY <1>1, <1>2, Moves
  <2> QED BY <1>2, <1>3, <2>1, <2>2, <2>3 DEF CountInv
<1>6. counts'["cached"] + Standing({"hits", "CACHE_HIT"})' <= counts'["hits"]
  <2> DEFINE P == {"hits", "CACHE_HIT"}
  <2>1. /\ Standing(P) \in Nat /\ Standing(P)' \in Nat
        /\ Standing(P)' <= Standing(P) + 1
        /\ c \notin P => Standing(P)' <= Standing(P)
    BY <1>1, Moves
  <2>2. c = "cached" => Standing(P)' = Standing(P) - 1
    BY <1>1, <1>2, Moves
  <2> QED BY <1>2, <1>3, <2>1, <2>2 DEF CountInv
<1> QED BY <1>4, <1>5, <1>6 DEF CountInv

\* ... and so does a step that counts nothing.
LEMMA RestKeepsCounts ==
  ASSUME WorkTypeOK, CountInv, NEW w \in Workers, NEW b, b \notin Counters, Goes(w, b),
         counts' = counts
  PROVE  CountInv'
<1> DEFINE a == at[w]
<1>1. /\ at \in [Workers -> Steps] /\ a \in Steps /\ b \in Then[a]
      /\ at' = [at EXCEPT ![w] = b]
  BY WorkTypes, GoesFacts
<1>2. /\ b \notin {"total", "allowed", "hits"}
      /\ b = "FORWARD" => a = "allowed"
      /\ b = "CACHE_HIT" => a = "hits"
  <2>1. b \notin {"total", "allowed", "hits"}
    BY DEF Counters, Metrics, CacheStats
  <2> QED BY <1>1, <2>1, StepFacts
<1>3. \A d \in {"total", "allowed", "blocked", "cached", "rate_limited", "hits"} :
        counts[d] \in Nat
  BY WorkTypes
<1>4. \A P : Standing(P) \in Nat /\ Standing(P)' \in Nat
  BY <1>1, Moves
<1>5. Standing({"total"})' <= Standing({"total"})
  BY <1>1, <1>2, Moves
<1>6. Standing({"allowed", "FORWARD", "hits", "CACHE_HIT"})'
        <= Standing({"allowed", "FORWARD", "hits", "CACHE_HIT"})
  <2> DEFINE P == {"allowed", "FORWARD", "hits", "CACHE_HIT"}
  <2>1. b \in P => a \in P
    BY <1>2
  <2> HIDE DEF P
  <2>2. Standing(P)' <= Standing(P)
    BY <1>1, <2>1, MovesWithin
  <2> QED BY <2>2 DEF P
<1>7. Standing({"hits", "CACHE_HIT"})' <= Standing({"hits", "CACHE_HIT"})
  <2> DEFINE P == {"hits", "CACHE_HIT"}
  <2>1. b \in P => a \in P
    BY <1>2
  <2> HIDE DEF P
  <2>2. Standing(P)' <= Standing(P)
    BY <1>1, <2>1, MovesWithin
  <2> QED BY <2>2 DEF P
<1> QED BY <1>3, <1>4, <1>5, <1>6, <1>7 DEF CountInv

\* Every log entry of the actions L follows a count of c.
LEMMA OneLog ==
  ASSUME WorkTypeOK, NEW w \in Workers, Worker(w),
         NEW c \in Counters, NEW L, \A b \in L : b \notin Counters /\ b # "idle",
         \A a \in Steps : \A b \in L : b \in Then[a] => a = c,
         Logged(L) + Standing({c}) <= counts[c]
  PROVE  Logged(L)' + Standing({c})' <= counts'[c]
<1>1. /\ at \in [Workers -> Steps] /\ actions \in Seq(Steps) /\ Len(actions) = logged
      /\ logged \in Nat /\ counts[c] \in Nat /\ counts \in [Counters -> Nat]
  BY WorkTypes
<1>2. Logged(L) \in Nat /\ Standing({c}) \in Nat
  BY <1>1, LoggedIsNat, StandingIsNat
<1>3. ASSUME NEW d \in Counters, count(w, d)
      PROVE  Logged(L)' + Standing({c})' <= counts'[c]
  <2>1. /\ Goes(w, d) /\ counts' = [counts EXCEPT ![d] = @ + 1]
        /\ UNCHANGED <<logged, actions>>
    BY <1>3 DEF count, vars
  <2>2. Logged(L)' = Logged(L)
    BY <2>1 DEF Logged
  <2>3. /\ Standing({c})' \in Nat /\ Standing({c})' <= Standing({c}) + 1
        /\ d # c => Standing({c})' <= Standing({c})
    BY <1>1, <2>1, GoesFacts, Moves
  <2>4. /\ d = c => counts'[c] = counts[c] + 1
        /\ d # c => counts'[c] = counts[c]
    BY <1>1, <2>1
  <2> QED BY <1>1, <1>2, <2>2, <2>3, <2>4
<1>4. ASSUME NEW b \in DOMAIN Then \ (Counters \union {"idle"}), log(w, b)
      PROVE  Logged(L)' + Standing({c})' <= counts'[c]
  <2>1. /\ Goes(w, b) /\ counts' = counts /\ logged' = logged + 1
        /\ actions' = Append(actions, b) /\ b # c /\ b \in Steps
    BY <1>4, ThenSteps DEF log, log_event
  <2>2. /\ Logged(L)' \in Nat
        /\ b \in L => Logged(L)' = Logged(L) + 1
        /\ b \notin L => Logged(L)' = Logged(L)
    BY <1>1, <2>1, Logs
  <2>3. b \in L => at[w] = c
    BY <2>1, GoesFacts
  <2>4. /\ Standing({c})' \in Nat /\ Standing({c})' <= Standing({c})
        /\ at[w] = c => Standing({c})' = Standing({c}) - 1
    <3>1. at' = [at EXCEPT ![w] = b] /\ b \notin {c}
      BY <2>1, GoesFacts
    <3>2. /\ Standing({c})' \in Nat /\ Standing({c})' <= Standing({c})
          /\ at[w] \in {c} => Standing({c})' = Standing({c}) - 1
      BY <1>1, <3>1, Moves
    <3> QED BY <3>2
  <2> QED BY <1>1, <1>2, <2>1, <2>2, <2>3, <2>4
<1>5. ASSUME finish(w)
      PROVE  Logged(L)' + Standing({c})' <= counts'[c]
  <2>1. Goes(w, "idle") /\ counts' = counts /\ UNCHANGED <<logged, actions>>
    BY <1>5 DEF finish, vars
  <2>2. Logged(L)' = Logged(L)
    BY <2>1 DEF Logged
  <2>3. c # "idle"
    BY DEF Counters, Metrics, CacheStats
  <2>4. Standing({c})' \in Nat /\ Standing({c})' <= Standing({c})
    BY <1>1, <2>1, <2>3, GoesFacts, Moves
  <2> QED BY <1>1, <1>2, <2>1, <2>2, <2>4
<1> QED BY <1>3, <1>4, <1>5 DEF Worker

LEMMA WorkKeepsLog ==
  ASSUME WorkTypeOK, LogInv, NEW w \in Workers, Worker(w)
  PROVE  LogInv'
<1>1. /\ {"rate_limited", "blocked", "allowed", "hits", "misses", "errors"} \subseteq Counters
      /\ \A b \in {"RATE_LIMITED", "BLOCKED", "CONNECT", "FORWARD", "CACHE_HIT",
                   "CACHE_MISS", "ERROR"} : b \notin Counters /\ b # "idle"
  BY DEF Counters, Metrics, CacheStats
<1>2. \A a \in Steps :
        /\ \A b \in {"RATE_LIMITED"} : b \in Then[a] => a = "rate_limited"
        /\ \A b \in {"BLOCKED"} : b \in Then[a] => a = "blocked"
        /\ \A b \in {"CONNECT", "FORWARD"} : b \in Then[a] => a = "allowed"
        /\ \A b \in {"CACHE_HIT"} : b \in Then[a] => a = "hits"
        /\ \A b \in {"CACHE_MISS"} : b \in Then[a] => a = "misses"
        /\ \A b \in {"ERROR"} : b \in Then[a] => a = "errors"
  BY StepFacts
<1>3. Logged({"RATE_LIMITED"})' + Standing({"rate_limited"})' <= counts'["rate_limited"]
  BY <1>1, <1>2, OneLog DEF LogInv
<1>4. Logged({"BLOCKED"})' + Standing({"blocked"})' <= counts'["blocked"]
  BY <1>1, <1>2, OneLog DEF LogInv
<1>5. Logged({"CONNECT", "FORWARD"})' + Standing({"allowed"})' <= counts'["allowed"]
  BY <1>1, <1>2, OneLog DEF LogInv
<1>6. Logged({"CACHE_HIT"})' + Standing({"hits"})' <= counts'["hits"]
  BY <1>1, <1>2, OneLog DEF LogInv
<1>7. Logged({"CACHE_MISS"})' + Standing({"misses"})' <= counts'["misses"]
  BY <1>1, <1>2, OneLog DEF LogInv
<1>8. Logged({"ERROR"})' + Standing({"errors"})' <= counts'["errors"]
  BY <1>1, <1>2, OneLog DEF LogInv
<1> QED BY <1>3, <1>4, <1>5, <1>6, <1>7, <1>8 DEF LogInv

LEMMA WorkKeepsCounts ==
  ASSUME WorkTypeOK, CountInv, NEW w \in Workers, Worker(w)
  PROVE  CountInv'
<1>1. ASSUME NEW b \in DOMAIN Then \ (Counters \union {"idle"}), log(w, b) PROVE CountInv'
  BY <1>1, RestKeepsCounts DEF log
<1>2. ASSUME finish(w) PROVE CountInv'
  <2>1. "idle" \notin Counters
    BY DEF Counters, Metrics, CacheStats
  <2> QED BY <1>2, <2>1, RestKeepsCounts DEF finish
<1> QED BY <1>1, <1>2, CountKeepsCounts DEF Worker

\* What the streams do counts and logs nothing.
LEMMA StreamsKeepWork ==
  ASSUME UNCHANGED <<work, logged, actions>>
  PROVE  /\ CountInv => CountInv'
         /\ LogInv => LogInv'
<1>1. \A P : Standing(P)' = Standing(P) /\ Logged(P)' = Logged(P)
  BY DEF Standing, Logged, work
<1> QED BY <1>1 DEF CountInv, LogInv, work

-----------------------------------------------------------------------------
(* The types *)

LEMMA GroupsAre ==
  /\ Len(Groups) = 2
  /\ Groups[1] = {"total", "allowed", "blocked", "cached", "rate_limited", "errors"}
  /\ Groups[2] = {"hits", "misses"}
BY DEF Groups, Metrics, CacheStats

LEMMA WorkKeepsTypes ==
  ASSUME WorkTypeOK, NEW w \in Workers, Worker(w)
  PROVE  WorkTypeOK'
<1>1. ASSUME NEW c \in Counters, count(w, c) PROVE WorkTypeOK'
  <2>1. /\ Goes(w, c) /\ counts' = [counts EXCEPT ![c] = @ + 1]
        /\ UNCHANGED <<pc, logged, actions>>
    BY <1>1 DEF count, vars, stream
  <2>2. at' \in [Workers -> DOMAIN Then] /\ UNCHANGED <<taken, snapshot>>
    BY <2>1, GoesFacts, ThenSteps
  <2> QED BY <2>1, <2>2 DEF WorkTypeOK
<1>2. ASSUME NEW b \in DOMAIN Then \ (Counters \union {"idle"}), log(w, b) PROVE WorkTypeOK'
  <2>1. /\ Goes(w, b) /\ logged' = logged + 1 /\ actions' = Append(actions, b)
        /\ UNCHANGED <<pc, counts>>
    BY <1>2 DEF log, log_event, stream
  <2>2. at' \in [Workers -> DOMAIN Then] /\ UNCHANGED <<taken, snapshot>>
    BY <2>1, GoesFacts, ThenSteps
  <2>3. actions' \in Seq(DOMAIN Then) /\ Len(actions') = logged'
    BY <2>1, AppendFacts DEF WorkTypeOK
  <2> QED BY <2>1, <2>2, <2>3 DEF WorkTypeOK
<1>3. ASSUME finish(w) PROVE WorkTypeOK'
  <2>1. Goes(w, "idle") /\ UNCHANGED <<pc, counts, logged, actions>>
    BY <1>3 DEF finish, vars, stream
  <2>2. at' \in [Workers -> DOMAIN Then] /\ UNCHANGED <<taken, snapshot>>
    BY <2>1, GoesFacts, ThenSteps
  <2> QED BY <2>1, <2>2 DEF WorkTypeOK
<1> QED BY <1>1, <1>2, <1>3 DEF Worker

LEMMA StreamKeepsTypes ==
  ASSUME TypeOK, WorkTypeOK, NEW v \in Viewers, Stream(v) \/ Browser(v)
  PROVE  WorkTypeOK' /\ UNCHANGED <<work, logged, actions>>
<1> DEFINE Off == \A u \in Viewers : pc'[u] # "poll" => taken'[u] = 0
<1>1. CASE read(v)
  <2>1. /\ pc[v] = "poll" /\ taken[v] < 2 /\ taken' = [taken EXCEPT ![v] = taken[v] + 1]
        /\ snapshot' = [snapshot EXCEPT ![v] =
             [c \in Counters |->
               IF c \in Groups[taken[v] + 1] THEN counts[c] ELSE snapshot[v][c]]]
        /\ UNCHANGED <<work, logged, actions, pc>>
    BY <1>1, GroupsAre DEF read, vars, stream
  <2>2. taken' \in [Viewers -> 0..2]
    <3>1. taken \in [Viewers -> 0..2]
      BY GroupsAre DEF WorkTypeOK
    <3>2. taken[v] + 1 \in 0..2
      BY <2>1, <3>1
    <3> QED BY <2>1, <3>1, <3>2
  <2>3. snapshot' \in [Viewers -> [Counters -> Nat]]
    <3>1. [c \in Counters |->
            IF c \in Groups[taken[v] + 1] THEN counts[c] ELSE snapshot[v][c]]
            \in [Counters -> Nat]
      BY DEF WorkTypeOK
    <3> QED BY <2>1, <3>1 DEF WorkTypeOK
  <2>4. Off
    BY <2>1 DEF WorkTypeOK
  <2> QED BY <2>1, <2>2, <2>3, <2>4, GroupsAre DEF WorkTypeOK, work
<1>2. ASSUME discard(v), \A u \in Viewers \ {v} : pc'[u] = pc[u],
             UNCHANGED <<work, logged, actions>>
      PROVE  WorkTypeOK'
  <2>1. /\ taken' = [taken EXCEPT ![v] = 0] /\ snapshot' = [snapshot EXCEPT ![v] = None]
        /\ None \in [Counters -> Nat]
    BY <1>2 DEF discard, None
  <2>2. taken' \in [Viewers -> 0..2]
    BY <2>1, GroupsAre DEF WorkTypeOK
  <2>3. Off
    BY <1>2, <2>1 DEF WorkTypeOK
  <2> QED BY <1>2, <2>1, <2>2, <2>3, GroupsAre DEF WorkTypeOK, work
<1>3. CASE publish(v)
  <2>1. /\ discard(v) /\ UNCHANGED <<work, logged, actions>>
        /\ \A u \in Viewers \ {v} : pc'[u] = pc[u]
    BY <1>3 DEF publish, poll, vars, stream, TypeOK
  <2> QED BY <1>2, <2>1
<1>4. CASE send(v) /\ UNCHANGED <<work, actions, taken, snapshot>>
  <2>1. /\ pc[v] = "send" /\ UNCHANGED logged
        /\ \A u \in Viewers \ {v} : pc'[u] = pc[u]
    BY <1>4 DEF send, TypeOK
  <2>2. Off
    BY <1>4, <2>1 DEF WorkTypeOK
  <2> QED BY <1>4, <2>1, <2>2 DEF WorkTypeOK, work
<1>5. CASE Browser(v)
  <2>1. /\ discard(v) /\ UNCHANGED <<work, logged, actions>>
        /\ \A u \in Viewers \ {v} : pc'[u] = pc[u]
    BY <1>5 DEF Browser, open, leave, TypeOK
  <2> QED BY <1>2, <2>1
<1> QED BY <1>1, <1>3, <1>4, <1>5 DEF Stream

\* Every step of the dashboard is one of the feed, or leaves it alone.
LEMMA FeedGoesOn ==
  ASSUME FeedInv, [DashboardNext]_dashboard_vars
  PROVE  FeedInv'
<1>1. [Next]_vars
  BY DEF DashboardNext, dashboard_vars, Worker, count, log, finish, Stream, Browser, read,
         publish, Next, Serve
<1> QED BY <1>1, FeedInductive

-----------------------------------------------------------------------------
(* The snapshots *)

\* SnapshotInv of one stream.
Sound(v) ==
  LET s == snapshot[v]
      hits == IF taken[v] = 1 THEN counts["hits"] ELSE s["hits"]
  IN  /\ taken[v] >= 1 =>
           /\ s["allowed"] + s["blocked"] + s["rate_limited"] <= s["total"]
           /\ s["cached"] <= s["allowed"] /\ s["cached"] <= hits
           /\ SentOf(v, {"RATE_LIMITED"}) <= s["rate_limited"]
           /\ SentOf(v, {"BLOCKED"}) <= s["blocked"]
           /\ SentOf(v, {"CONNECT", "FORWARD"}) <= s["allowed"]
           /\ SentOf(v, {"ERROR"}) <= s["errors"]
      /\ taken[v] >= 2 =>
           /\ SentOf(v, {"CACHE_HIT"}) <= s["hits"]
           /\ SentOf(v, {"CACHE_MISS"}) <= s["misses"]

LEMMA SoundIs == SnapshotInv <=> \A v \in Viewers : Sound(v)
BY DEF SnapshotInv, Sound

LEMMA NotStarted == ASSUME NEW v \in Viewers, taken[v] = 0 PROVE Sound(v)
BY DEF Sound
LEMMA NotStartedAfter == ASSUME NEW v \in Viewers, taken'[v] = 0 PROVE Sound(v)'
BY DEF Sound

\* While a snapshot waits, the counters only grow.
LEMMA SoundStays ==
  ASSUME NEW v \in Viewers, Sound(v), WorkTypeOK, WorkTypeOK',
         taken'[v] = taken[v], snapshot'[v] = snapshot[v],
         \A P : SentOf(v, P)' = SentOf(v, P),
         counts["hits"] <= counts'["hits"]
  PROVE  Sound(v)'
<1>1. counts["hits"] \in Nat /\ counts'["hits"] \in Nat
  BY DEF WorkTypeOK, Counters, Metrics, CacheStats
<1>2. snapshot[v]["cached"] \in Nat /\ taken[v] \in {0, 1, 2}
  <2>1. taken[v] \in 0..2 /\ "cached" \in Counters
    BY GroupsAre DEF WorkTypeOK, Counters, Metrics
  <2> QED BY <2>1 DEF WorkTypeOK
<1> DEFINE s == snapshot[v]
<1>3. CASE taken[v] = 0
  BY <1>3, NotStartedAfter
<1>4. CASE taken[v] = 1
  <2>1. s["cached"] <= counts["hits"]
    BY <1>4 DEF Sound
  <2>2. s["cached"] <= counts'["hits"]
    BY <1>1, <1>2, <2>1
  <2> QED BY <1>4, <2>2 DEF Sound
<1>5. CASE taken[v] = 2
  BY <1>5 DEF Sound
<1> QED BY <1>2, <1>3, <1>4, <1>5

LEMMA SentStays ==
  ASSUME TypeOK, NEW v \in Viewers, sent'[v] = sent[v],
         \A e \in 1..logged : actions'[e] = actions[e], NEW P
  PROVE  SentOf(v, P)' = SentOf(v, P)
<1>1. \A i \in DOMAIN sent[v] : sent[v][i] \in 1..logged
  BY ElementOfSeq, LenProperties DEF TypeOK
<1>2. {i \in DOMAIN sent'[v] : actions'[sent'[v][i]] \in P}
        = {i \in DOMAIN sent[v] : actions[sent[v][i]] \in P}
  BY <1>1
<1> QED BY <1>2 DEF SentOf

\* A worker adds to the counters and to the log.
LEMMA WorkGrows ==
  ASSUME WorkTypeOK, NEW w \in Workers, Worker(w)
  PROVE  /\ UNCHANGED <<taken, snapshot, sent>>
         /\ \A e \in 1..logged : actions'[e] = actions[e]
         /\ \A c \in Counters : counts[c] <= counts'[c]
<1>1. \A c \in Counters : counts[c] \in Nat
  BY DEF WorkTypeOK
<1>2. UNCHANGED <<taken, snapshot>>
  BY DEF Worker, count, log, finish, Goes
<1>3. UNCHANGED sent
  BY DEF Worker, count, log, finish, log_event, vars, stream
<1>4. ASSUME NEW e \in 1..logged PROVE actions'[e] = actions[e]
  <2>1. ASSUME NEW b \in DOMAIN Then, log(w, b) PROVE actions'[e] = actions[e]
    <3>1. actions' = Append(actions, b) /\ e \in 1..Len(actions)
      BY <2>1 DEF log, WorkTypeOK
    <3> QED BY <3>1, AppendFacts DEF WorkTypeOK
  <2> QED BY <2>1 DEF Worker, count, finish
<1>5. \A c \in Counters : counts[c] <= counts'[c]
  <2>1. ASSUME NEW d \in Counters, count(w, d) PROVE \A c \in Counters : counts[c] <= counts'[c]
    BY <1>1, <2>1 DEF count, WorkTypeOK
  <2>2. CASE counts' = counts
    BY <1>1, <2>2
  <2> QED BY <2>1, <2>2 DEF Worker, log, finish
<1> QED BY <1>2, <1>3, <1>4, <1>5

LEMMA WorkKeepsSnapshots ==
  ASSUME TypeOK, WorkTypeOK, SnapshotInv, NEW w \in Workers, Worker(w)
  PROVE  SnapshotInv'
<1>1. WorkTypeOK' /\ "hits" \in Counters
  BY WorkKeepsTypes DEF Counters, Metrics, CacheStats
<1>2. counts["hits"] <= counts'["hits"]
  BY <1>1, WorkGrows
<1>3. ASSUME NEW v \in Viewers PROVE Sound(v)'
  <2>1. /\ taken'[v] = taken[v] /\ snapshot'[v] = snapshot[v] /\ sent'[v] = sent[v]
        /\ Sound(v)
    BY WorkGrows, SoundIs
  <2>2. \A P : SentOf(v, P)' = SentOf(v, P)
    BY <2>1, WorkGrows, SentStays
  <2> QED BY <1>1, <1>2, <2>1, <2>2, SoundStays
<1> QED BY <1>3 DEF SnapshotInv, Sound

\* The step that matters: a stream reads one more group of counters.
LEMMA ReadKeepsSound ==
  ASSUME FeedInv, WorkTypeOK, CountInv, LogInv, NEW v \in Viewers, Sound(v), read(v)
  PROVE  Sound(v)'
<1> DEFINE s == snapshot[v]
           r == snapshot'[v]
           n == Cardinality(Workers)
<1>1. /\ taken[v] \in {0, 1} /\ taken'[v] = taken[v] + 1 /\ counts' = counts
      /\ r = [c \in Counters |-> IF c \in Groups[taken[v] + 1] THEN counts[c] ELSE s[c]]
      /\ UNCHANGED <<sent, actions>>
  <2>1. /\ taken[v] \in 0..2 /\ taken[v] < 2 /\ taken' = [taken EXCEPT ![v] = taken[v] + 1]
        /\ taken \in [Viewers -> 0..2] /\ snapshot \in [Viewers -> [Counters -> Nat]]
    BY GroupsAre DEF read, WorkTypeOK
  <2> QED BY <2>1 DEF read, work, vars, stream
<1>2. /\ \A c \in Counters : s[c] \in Nat /\ counts[c] \in Nat
      /\ {"total", "allowed", "blocked", "cached", "rate_limited", "errors",
          "hits", "misses"} = Counters
  BY WorkTypes DEF WorkTypeOK
<1>3. \A P : SentOf(v, P)' = SentOf(v, P)
  BY <1>1 DEF SentOf
<1>4. \A P : SentOf(v, P) \in Nat /\ SentOf(v, P) <= Logged(P) /\ Logged(P) \in Nat
  BY FeedInvIs, SentIsLogged, LoggedIsNat, WorkTypes
<1>5. \A P : Standing(P) \in Nat /\ Standing(P) <= n /\ n \in Nat
  BY StandingIsNat
<1>6. CASE taken[v] = 0
  <2>1. /\ \A c \in {"total", "allowed", "blocked", "cached", "rate_limited", "errors"} :
             r[c] = counts[c]
        /\ taken'[v] = 1
    BY <1>1, <1>2, <1>6, GroupsAre
  <2>2. /\ counts["allowed"] + counts["blocked"] + counts["rate_limited"] <= counts["total"]
        /\ counts["cached"] <= counts["allowed"] /\ counts["cached"] <= counts["hits"]
    BY <1>2, <1>5 DEF CountInv
  <2>3. /\ SentOf(v, {"RATE_LIMITED"}) <= counts["rate_limited"]
        /\ SentOf(v, {"BLOCKED"}) <= counts["blocked"]
        /\ SentOf(v, {"CONNECT", "FORWARD"}) <= counts["allowed"]
        /\ SentOf(v, {"ERROR"}) <= counts["errors"]
    BY <1>2, <1>4, <1>5 DEF LogInv
  <2> HIDE DEF r, n
  <2> QED BY <1>1, <1>3, <2>1, <2>2, <2>3 DEF Sound, r, n
<1>7. CASE taken[v] = 1
  <2>1. /\ \A c \in Counters \ {"hits", "misses"} : r[c] = s[c]
        /\ r["hits"] = counts["hits"] /\ r["misses"] = counts["misses"] /\ taken'[v] = 2
    BY <1>1, <1>2, <1>7, GroupsAre
  <2>2. /\ SentOf(v, {"CACHE_HIT"}) <= counts["hits"]
        /\ SentOf(v, {"CACHE_MISS"}) <= counts["misses"]
    BY <1>2, <1>4, <1>5 DEF LogInv
  <2> QED BY <1>1, <1>2, <1>3, <1>7, <2>1, <2>2 DEF Sound
<1> QED BY <1>1, <1>6, <1>7

LEMMA StreamKeepsSnapshots ==
  ASSUME IInv, NEW v \in Viewers, Stream(v) \/ Browser(v)
  PROVE  SnapshotInv'
<1>1. /\ FeedInv /\ TypeOK /\ WorkTypeOK /\ CountInv /\ LogInv
      /\ \A u \in Viewers : Sound(u)
  BY SoundIs, FeedInvIs DEF IInv
<1>2. WorkTypeOK' /\ UNCHANGED <<counts, logged, actions>>
  BY <1>1, StreamKeepsTypes DEF work
<1>3. counts["hits"] <= counts'["hits"]
  BY <1>1, <1>2, WorkTypes
<1>4. ASSUME NEW u \in Viewers, u # v PROVE Sound(u)'
  <2>1. taken'[u] = taken[u] /\ snapshot'[u] = snapshot[u]
    BY <1>1, <1>4 DEF Stream, Browser, read, publish, discard, WorkTypeOK
  <2>2. sent'[u] = sent[u]
    BY <1>1, <1>4
    DEF Stream, Browser, read, publish, poll, send, open, leave, vars, stream, TypeOK
  <2>3. \A P : SentOf(u, P)' = SentOf(u, P)
    BY <1>1, <1>2, <2>2, SentStays
  <2> QED BY <1>1, <1>2, <1>3, <2>1, <2>3, SoundStays
<1>5. Sound(v)'
  <2>1. CASE read(v)
    BY <1>1, <2>1, ReadKeepsSound
  <2>2. CASE publish(v) \/ Browser(v)
    <3>1. taken'[v] = 0
      BY <1>1, <2>2 DEF publish, Browser, discard, WorkTypeOK
    <3> QED BY <3>1, NotStartedAfter
  <2>3. CASE send(v) /\ UNCHANGED <<work, actions, taken, snapshot>>
    <3>1. taken'[v] = 0
      BY <1>1, <2>3 DEF send, WorkTypeOK
    <3> QED BY <3>1, NotStartedAfter
  <2> QED BY <2>1, <2>2, <2>3 DEF Stream
<1> QED BY <1>4, <1>5 DEF SnapshotInv, Sound

-----------------------------------------------------------------------------
(* The invariant *)

LEMMA IInvInit == DashboardInit => IInv
<1> SUFFICES ASSUME DashboardInit PROVE IInv
  OBVIOUS
<1>1. FeedInv
  BY FeedInit DEF DashboardInit
<1>2. /\ counts = None /\ \A c \in Counters : counts[c] = 0
      /\ {"total", "allowed", "blocked", "cached", "rate_limited", "errors",
          "hits", "misses"} = Counters
  BY DEF DashboardInit, None, Counters, Metrics, CacheStats
<1>3. None \in [Counters -> Nat] /\ actions = <<>> /\ logged = 0
  BY DEF None, DashboardInit, Init
<1>4. "idle" \in Steps
  BY DEF Steps
<1>5. WorkTypeOK
  <2>1. actions \in Seq(DOMAIN Then) /\ Len(actions) = logged
    BY <1>3, EmptySeq
  <2> QED BY <1>3, <1>4, <2>1, GroupsAre, ThenSteps DEF DashboardInit, WorkTypeOK
<1>6. \A P : "idle" \notin P => Standing(P) = 0
  <2> SUFFICES ASSUME NEW P, "idle" \notin P PROVE Standing(P) = 0
    OBVIOUS
  <2>1. {w \in Workers : at[w] \in P} = {}
    BY DEF DashboardInit
  <2> QED BY <2>1, FS_EmptySet DEF Standing
<1>7. \A P : Logged(P) = 0
  <2> SUFFICES ASSUME NEW P PROVE Logged(P) = 0
    OBVIOUS
  <2>1. {e \in 1..logged : actions[e] \in P} = {}
    BY <1>3
  <2> QED BY <2>1, FS_EmptySet DEF Logged
<1>8. CountInv
  <2>1. /\ Standing({"total"}) = 0 /\ Standing({"hits", "CACHE_HIT"}) = 0
        /\ Standing({"allowed", "FORWARD", "hits", "CACHE_HIT"}) = 0
    BY <1>6
  <2> QED BY <1>2, <2>1 DEF CountInv
<1>9. LogInv
  <2>1. /\ Standing({"rate_limited"}) = 0 /\ Standing({"blocked"}) = 0
        /\ Standing({"allowed"}) = 0 /\ Standing({"hits"}) = 0
        /\ Standing({"misses"}) = 0 /\ Standing({"errors"}) = 0
    BY <1>6
  <2> QED BY <1>2, <1>7, <2>1 DEF LogInv
<1>10. SnapshotInv
  BY NotStarted, SoundIs DEF DashboardInit
<1> QED BY <1>1, <1>5, <1>8, <1>9, <1>10 DEF IInv

LEMMA IInvInductive == IInv /\ [DashboardNext]_dashboard_vars => IInv'
<1> SUFFICES ASSUME IInv, [DashboardNext]_dashboard_vars PROVE IInv'
  OBVIOUS
<1>1. /\ FeedInv /\ TypeOK /\ WorkTypeOK /\ CountInv /\ LogInv /\ SnapshotInv /\ FeedInv'
  BY FeedGoesOn, FeedInvIs DEF IInv
<1>2. ASSUME NEW w \in Workers, Worker(w) PROVE IInv'
  BY <1>1, <1>2, WorkKeepsTypes, WorkKeepsCounts, WorkKeepsLog, WorkKeepsSnapshots DEF IInv
<1>3. ASSUME NEW v \in Viewers, Stream(v) \/ Browser(v) PROVE IInv'
  BY <1>1, <1>3, StreamKeepsTypes, StreamsKeepWork, StreamKeepsSnapshots DEF IInv
<1>4. CASE UNCHANGED dashboard_vars
  <2>1. \A P : Standing(P)' = Standing(P) /\ Logged(P)' = Logged(P)
    BY <1>4 DEF Standing, Logged, dashboard_vars, work, vars
  <2>2. \A v, P : SentOf(v, P)' = SentOf(v, P)
    BY <1>4 DEF SentOf, dashboard_vars, vars, stream
  <2>3. WorkTypeOK' /\ CountInv' /\ LogInv'
    BY <1>1, <1>4, <2>1
    DEF dashboard_vars, work, vars, stream, WorkTypeOK, CountInv, LogInv
  <2>4. SnapshotInv'
    BY <1>1, <1>4, <2>2 DEF dashboard_vars, work, SnapshotInv
  <2> QED BY <1>1, <2>3, <2>4 DEF IInv
<1> QED BY <1>2, <1>3, <1>4 DEF DashboardNext

\* Counters, log and snapshots agree up to what the workers are about to do.
THEOREM DashboardInvariant == DashboardSpec => []IInv
BY IInvInit, IInvInductive, PTL DEF DashboardSpec

\* dashboard.py: the streams keep their order beside any number of workers.
THEOREM EveryFeedIsInOrder == DashboardSpec => []FeedInOrder
<1>1. IInv => FeedInOrder
  BY DEF IInv, FeedInv
<1> QED BY <1>1, DashboardInvariant, PTL

LEMMA CompleteIsSound ==
  ASSUME IInv, NEW v \in Viewers, Complete(v)
  PROVE  Sound(v) /\ taken[v] = 2
BY SoundIs, GroupsAre DEF IInv, Complete

\* _build_snapshot: a snapshot taken under three locks, with any number of
\* workers going on in between, does not contradict itself.
THEOREM SnapshotsAreCoherent == DashboardSpec => []SnapshotCoherent
<1>1. IInv => SnapshotCoherent
  BY CompleteIsSound DEF SnapshotCoherent, Sound
<1> QED BY <1>1, DashboardInvariant, PTL

\* _build_snapshot, log_event: what a stream was told in the log is in every
\* snapshot after it.
THEOREM LogEntriesAreCounted == DashboardSpec => []LogsAreCounted
<1>1. IInv => LogsAreCounted
  BY CompleteIsSound DEF LogsAreCounted, Sound
<1> QED BY <1>1, DashboardInvariant, PTL
=============================================================================
