-------------------------- MODULE RateLimiterProofs --------------------------
(***************************************************************************)
(* Proofs about RateLimiter, for every number of workers and addresses and *)
(* every capacity, refill rate and prune period.                           *)
(*                                                                         *)
(* The burst bounds are not inductive.  The strengthening is a budget: the *)
(* tokens granted in the window plus those that could be granted at once   *)
(* never exceed the capacity plus the refill of the window.                *)
(***************************************************************************)
EXTENDS RateLimiter, SequenceTheorems, TLAPS

-----------------------------------------------------------------------------
(* Arithmetic *)

\* Multiplication by a natural number is monotonic.
LEMMA MulMono ==
  ASSUME NEW a \in Nat, NEW b \in Int, NEW c \in Int, b <= c
  PROVE  a * b <= a * c /\ b * a <= c * a
BY SMT

\* The rounding of retry_after: the ceiling of x / d, times d, covers x.
LEMMA CeilCovers ==
  ASSUME NEW x \in Nat, NEW d \in Nat \ {0}
  PROVE  /\ (x + d - 1) \div d \in Nat
         /\ d * ((x + d - 1) \div d) >= x
BY SMT

LEMMA FullIsNat == Full \in Nat /\ UNIT <= Full
<1>1. UNIT * 1 <= UNIT * CAPACITY
  BY MulMono, LimiterAssumption
<1> QED
  BY <1>1, LimiterAssumption DEF Full

-----------------------------------------------------------------------------
(* Refilled *)

LEMMA RefilledRange ==
  ASSUME NEW b \in Bucket, NEW t \in Nat, b.last_refill <= t
  PROVE  Refilled(b, t) \in 0..Full
<1>1. 0 * RATE <= (t - b.last_refill) * RATE
  BY MulMono, LimiterAssumption DEF Bucket
<1> QED
  BY <1>1, FullIsNat, LimiterAssumption DEF Refilled, Bucket

\* One tick refills at most RATE units.
LEMMA RefilledTick ==
  ASSUME NEW b \in Bucket, NEW t \in Nat
  PROVE  Refilled(b, t + 1) <= Refilled(b, t) + RATE
<1>1. (t + 1 - b.last_refill) * RATE = (t - b.last_refill) * RATE + RATE
  BY LimiterAssumption DEF Bucket
<1>2. (t - b.last_refill) * RATE \in Int
  BY LimiterAssumption DEF Bucket
<1> QED
  BY <1>1, <1>2, FullIsNat, LimiterAssumption DEF Refilled, Bucket

\* A bucket just refilled has the tokens it says.
LEMMA RefilledNow ==
  ASSUME NEW x \in 0..Full, NEW t \in Nat
  PROVE  Refilled([tokens |-> x, last_refill |-> t], t) = x
<1>1. (t - t) * RATE = 0
  BY LimiterAssumption
<1> QED
  BY <1>1, FullIsNat DEF Refilled

\* A bucket that _maybe_prune may drop is full.
LEMMA RefilledStale ==
  ASSUME NEW b \in Bucket, NEW t \in Nat, t - b.last_refill > STALE_THRESHOLD
  PROVE  Refilled(b, t) = Full
<1>1. RATE * STALE_THRESHOLD <= RATE * (t - b.last_refill)
  BY MulMono, LimiterAssumption DEF Bucket
<1>2. RATE * (t - b.last_refill) = (t - b.last_refill) * RATE
  BY LimiterAssumption DEF Bucket
<1> QED
  BY <1>1, <1>2, FullIsNat, StaleIsFull, LimiterAssumption
  DEF Refilled, Bucket, Full

-----------------------------------------------------------------------------
(* The inductive invariant.  Its parts are defined in RateLimiter. *)

LEMMA SeqExcept ==
  ASSUME NEW S, NEW s \in Seq(S), NEW i \in 1..Len(s), NEW e \in S
  PROVE  /\ [s EXCEPT ![i] = e] \in Seq(S)
         /\ Len([s EXCEPT ![i] = e]) = Len(s)
         /\ \A j \in 1..Len(s) :
              [s EXCEPT ![i] = e][j] = IF j = i THEN e ELSE s[j]
BY ExceptSeq

LEMMA SeqAppend ==
  ASSUME NEW S, NEW s \in Seq(S), NEW e \in S
  PROVE  /\ Append(s, e) \in Seq(S)
         /\ Len(Append(s, e)) = Len(s) + 1
         /\ \A j \in 1..Len(s) : Append(s, e)[j] = s[j]
         /\ Append(s, e)[Len(s) + 1] = e
BY AppendProperties

\* Initially nothing has been granted and no bucket exists.
LEMMA InitInv == ASSUME Init PROVE IInv
<1>1. TypeOK
  BY LimiterAssumption, EmptySeq DEF Init, TypeOK, PCs, NoBucket
<1>2. (now - mark) * RATE = 0 /\ UNIT * 0 = 0
  BY LimiterAssumption DEF Init
<1>3. Len(heap) = 0
  BY EmptySeq DEF Init
<1> QED
  BY <1>1, <1>2, <1>3, FullIsNat
  DEF Init, IInv, ClockInv, RefInv, BucketBudget, RegistryBudget, Standing,
      WindowAllowance, NoBucket

LEMMA WindowGrows ==
  ASSUME TypeOK, mark <= now
  PROVE  /\ WindowAllowance \in Nat
         /\ Full <= WindowAllowance
         /\ Full + (now + 1 - mark) * RATE = WindowAllowance + RATE
<1>1. now \in Nat /\ mark \in Nat /\ RATE \in Nat
  BY LimiterAssumption DEF TypeOK
<1>2. 0 * RATE <= (now - mark) * RATE
  BY <1>1, MulMono
<1>3. (now + 1 - mark) * RATE = (now - mark) * RATE + RATE
  BY <1>1
<1>4. (now - mark) * RATE \in Int /\ 0 * RATE = 0
  BY <1>1
<1> QED
  BY <1>1, <1>2, <1>3, <1>4, FullIsNat DEF WindowAllowance

LEMMA GetOrCreateInv ==
  ASSUME IInv, NEW w \in Workers, NEW i \in IPs, get_or_create_bucket(w, i)
  PROVE  IInv'
<1> USE DEF IInv
<1>1. CASE buckets[i] # NoBucket
  <2>1. TypeOK'
    BY <1>1 DEF get_or_create_bucket, Goto, TypeOK, PCs
  <2>2. RefInv'
    BY <1>1 DEF get_or_create_bucket, Goto, TypeOK, RefInv, NoBucket
  <2> QED
    BY <1>1, <2>1, <2>2
    DEF get_or_create_bucket, ClockInv, BucketBudget, RegistryBudget, Standing,
        WindowAllowance
<1>2. CASE buckets[i] = NoBucket
  <2>1. /\ NewBucket \in Bucket
        /\ Refilled(NewBucket, now) = Full
        /\ NewBucket.last_refill <= now
    BY FullIsNat, RefilledNow DEF NewBucket, Bucket, TypeOK
  <2>2. /\ heap \in Seq(Bucket) /\ taken \in Seq(Nat)
        /\ Len(heap) \in Nat /\ Len(taken) = Len(heap)
        /\ heap' = Append(heap, NewBucket)
        /\ taken' = Append(taken, 0)
    BY <1>2, LenProperties DEF get_or_create_bucket, TypeOK
  <2>3. /\ heap' \in Seq(Bucket)
        /\ Len(heap') = Len(heap) + 1
        /\ \A j \in 1..Len(heap) : heap'[j] = heap[j]
        /\ heap'[Len(heap) + 1] = NewBucket
    BY <2>1, <2>2, SeqAppend
  <2>4. /\ taken' \in Seq(Nat)
        /\ Len(taken') = Len(heap) + 1
        /\ \A j \in 1..Len(heap) : taken'[j] = taken[j]
        /\ taken'[Len(heap) + 1] = 0
    BY <2>2, SeqAppend
  <2>5. \A j \in 1..Len(heap') : j \in 1..Len(heap) \/ j = Len(heap) + 1
    BY <2>2, <2>3
  <2>6. /\ buckets \in [IPs -> 0..Len(heap)]
        /\ buckets' = [buckets EXCEPT ![i] = Len(heap) + 1]
        /\ ref \in [Workers -> 0..Len(heap)]
        /\ ref' = [ref EXCEPT ![w] = Len(heap) + 1]
    BY <1>2 DEF get_or_create_bucket, TypeOK
  <2>7. /\ buckets' \in [IPs -> 0..Len(heap')]
        /\ ref' \in [Workers -> 0..Len(heap')]
    BY <2>2, <2>3, <2>6
  <2>8. TypeOK'
    BY <1>2, <2>3, <2>4, <2>7 DEF get_or_create_bucket, Goto, TypeOK, PCs
  <2>9. now' = now /\ mark' = mark /\ seen' = seen /\ admitted' = admitted
    BY DEF get_or_create_bucket
  <2>10. ClockInv'
    BY <2>1, <2>3, <2>5, <2>9 DEF ClockInv
  <2>11. RefInv'
    BY <2>2, <2>6 DEF get_or_create_bucket, Goto, RefInv, TypeOK, NoBucket
  <2>12. WindowAllowance' = WindowAllowance /\ UNIT * 0 = 0
    BY <2>9, LimiterAssumption DEF WindowAllowance
  <2>13. BucketBudget'
    <3>1. Full \in Nat /\ Full <= WindowAllowance
      BY FullIsNat, WindowGrows DEF ClockInv
    <3>2. ASSUME NEW j \in 1..Len(heap')
          PROVE  UNIT * taken'[j] + Refilled(heap'[j], now) <= WindowAllowance
      <4>1. CASE j \in 1..Len(heap)
        BY <2>3, <2>4, <4>1 DEF BucketBudget
      <4>2. CASE j = Len(heap) + 1
        BY <2>1, <2>3, <2>4, <2>12, <3>1, <4>2
      <4> QED
        BY <2>5, <4>1, <4>2
    <3> QED
      BY <2>9, <2>12, <3>2 DEF BucketBudget
  <2>14. \A j \in IPs : Standing(j)' = Standing(j)
    BY <1>2, <2>1, <2>2, <2>3, <2>6, <2>9 DEF Standing, NoBucket
  <2>15. RegistryBudget'
    BY <2>9, <2>12, <2>14 DEF RegistryBudget
  <2> QED
    BY <2>8, <2>10, <2>11, <2>13, <2>15
<1> QED
  BY <1>1, <1>2

\* A grant takes UNIT from the bucket and adds one to its count; a rejection
\* leaves the sum as it was.
LEMMA ConsumeInv ==
  ASSUME IInv, NEW w \in Workers, consume(w)
  PROVE  IInv'
<1> USE DEF IInv
<1> DEFINE b == ref[w]
           available == Refilled(heap[b], now)
           left == IF available >= UNIT THEN available - UNIT ELSE available
           cell == [tokens |-> left, last_refill |-> now]
           grant == available >= UNIT
<1>1. /\ heap \in Seq(Bucket) /\ Len(heap) \in Nat
      /\ taken \in Seq(Nat) /\ Len(taken) = Len(heap)
      /\ b \in 1..Len(heap)
      /\ now \in Nat
  BY LenProperties DEF TypeOK, RefInv, consume, NoBucket
<1>2. heap[b] \in Bucket /\ heap[b].last_refill <= now /\ taken[b] \in Nat
  BY <1>1, ElementOfSeq DEF ClockInv
<1>3. available \in 0..Full
  BY <1>1, <1>2, RefilledRange
<1>4. UNIT \in Nat \ {0}
  BY LimiterAssumption
<1>5. left \in 0..Full /\ cell \in Bucket /\ cell.last_refill <= now
  BY <1>1, <1>3, <1>4, FullIsNat DEF Bucket
<1>6. Refilled(cell, now) = left
  BY <1>1, <1>5, RefilledNow
<1>7. heap' = [heap EXCEPT ![b] = cell]
  BY <1>3, <1>4 DEF consume
<1>8. /\ heap' \in Seq(Bucket)
      /\ Len(heap') = Len(heap)
      /\ \A j \in 1..Len(heap) : heap'[j] = IF j = b THEN cell ELSE heap[j]
  BY <1>1, <1>5, <1>7, SeqExcept
<1>9. /\ taken' \in Seq(Nat)
      /\ Len(taken') = Len(heap)
      /\ \A j \in 1..Len(heap) :
           taken'[j] = IF j = b /\ grant THEN taken[j] + 1 ELSE taken[j]
  <2>1. CASE grant
    <3>1. taken' = [taken EXCEPT ![b] = taken[b] + 1]
      BY <2>1 DEF consume, Count
    <3>2. taken[b] + 1 \in Nat
      BY <1>2
    <3> QED
      BY <1>1, <2>1, <3>1, <3>2, SeqExcept
  <2>2. CASE ~grant
    BY <1>1, <2>2 DEF consume
  <2> QED
    BY <2>1, <2>2
<1>10. /\ admitted' \in [IPs -> Nat] /\ stray' \in [IPs -> Nat]
       /\ \A i \in IPs :
            admitted'[i] = IF grant /\ i = ip[w] /\ buckets[i] = b
                           THEN admitted[i] + 1 ELSE admitted[i]
  <2>1. CASE grant
    BY <2>1 DEF consume, Count, TypeOK
  <2>2. CASE ~grant
    BY <2>2 DEF consume, TypeOK
  <2> QED
    BY <2>1, <2>2
<1>11. /\ now' = now /\ mark' = mark /\ seen' = seen /\ buckets' = buckets
       /\ ref' = ref /\ ip' = ip /\ retry' = retry /\ last_prune' = last_prune
       /\ pc' = [pc EXCEPT ![w] = "check"]
  BY DEF consume, Goto
<1>12. allowed' \in [Workers -> BOOLEAN]
  BY DEF consume, TypeOK
<1>13. TypeOK'
  BY <1>8, <1>9, <1>10, <1>11, <1>12 DEF TypeOK, PCs
<1>14. ClockInv'
  BY <1>5, <1>8, <1>11 DEF ClockInv
<1>15. RefInv'
  BY <1>11 DEF RefInv, TypeOK
<1>16. WindowAllowance' = WindowAllowance
  BY <1>11 DEF WindowAllowance
<1>17. BucketBudget'
  <2> SUFFICES ASSUME NEW j \in 1..Len(heap)
               PROVE  UNIT * taken'[j] + Refilled(heap'[j], now) <= WindowAllowance
    BY <1>8, <1>11, <1>16 DEF BucketBudget
  <2>1. UNIT * taken[j] + Refilled(heap[j], now) <= WindowAllowance
    BY DEF BucketBudget
  <2>2. CASE j # b
    BY <1>8, <1>9, <2>1, <2>2
  <2>3. CASE j = b
    <3>1. UNIT * (taken[b] + 1) = UNIT * taken[b] + UNIT /\ UNIT * taken[b] \in Nat
      BY <1>2, <1>4
    <3>2. heap'[j] = cell
      BY <1>8, <2>3
    <3> QED
      BY <1>3, <1>4, <1>6, <1>9, <2>1, <2>3, <3>1, <3>2
  <2> QED
    BY <2>2, <2>3
<1>18. RegistryBudget'
  <2> SUFFICES ASSUME NEW i \in IPs
               PROVE  UNIT * admitted'[i] + Standing(i)' <= WindowAllowance
    BY <1>16 DEF RegistryBudget
  <2>1. /\ UNIT * admitted[i] + Standing(i) <= WindowAllowance
        /\ admitted[i] \in Nat
        /\ WindowAllowance \in Nat
    BY WindowGrows DEF RegistryBudget, TypeOK, ClockInv
  <2>2. UNIT * (admitted[i] + 1) = UNIT * admitted[i] + UNIT /\ UNIT * admitted[i] \in Nat
    BY <1>4, <2>1
  <2>3. CASE buckets[i] = b
    <3>1. Standing(i) = available /\ Standing(i)' = left
      BY <1>1, <1>6, <1>8, <1>11, <2>3 DEF Standing, NoBucket
    <3> QED
      BY <1>3, <1>4, <1>10, <2>1, <2>2, <2>3, <3>1
  <2>4. CASE buckets[i] # b
    <3>1. buckets[i] \in 0..Len(heap)
      BY DEF TypeOK
    <3>2. Standing(i)' = Standing(i)
      BY <1>1, <1>8, <1>11, <2>4, <3>1 DEF Standing, NoBucket
    <3> QED
      BY <1>10, <2>1, <2>4, <3>2
  <2> QED
    BY <2>3, <2>4
<1> QED
  BY <1>13, <1>14, <1>15, <1>17, <1>18

\* Steps that touch no bucket, no count and no clock.
LEMMA ReturnType ==
  ASSUME TypeOK, NEW w \in Workers, Return(w)
  PROVE  /\ pc' \in [Workers -> PCs]
         /\ ref' \in [Workers -> 0..Len(heap)]
         /\ allowed' \in [Workers -> BOOLEAN]
         /\ seen' \in [Workers -> Nat]
<1>1. pc' \in [Workers -> PCs]
  BY DEF Return, Goto, TypeOK, PCs
<1>2. allowed' \in [Workers -> BOOLEAN]
  BY DEF Return, TypeOK
<1>3. Len(heap) \in Nat
  BY LenProperties DEF TypeOK
<1>4. ref' \in [Workers -> 0..Len(heap)]
  BY <1>3 DEF Return, TypeOK, NoBucket
<1>5. seen' \in [Workers -> Nat]
  BY DEF Return, TypeOK
<1> QED
  BY <1>1, <1>2, <1>4, <1>5

LEMMA ReturnClockRef ==
  ASSUME TypeOK, ClockInv, RefInv, NEW w \in Workers, Return(w),
         now' = now, mark' = mark, heap' = heap
  PROVE  ClockInv' /\ RefInv'
<1>1. \A v \in Workers : seen'[v] <= now
  BY DEF Return, TypeOK, ClockInv
<1>2. ClockInv'
  BY <1>1 DEF ClockInv
<1>3. \A v \in Workers : pc'[v] = "consume" => pc[v] = "consume" /\ v # w
  BY DEF Return, Goto, TypeOK
<1>4. RefInv'
  BY <1>3 DEF Return, RefInv, TypeOK
<1> QED
  BY <1>2, <1>4

LEMMA MaybePruneInv ==
  ASSUME IInv, NEW w \in Workers, maybe_prune(w)
  PROVE  IInv'
<1> USE DEF IInv
<1>1. /\ now' = now /\ heap' = heap /\ buckets' = buckets /\ mark' = mark
      /\ taken' = taken /\ admitted' = admitted /\ stray' = stray
      /\ last_prune' = last_prune /\ ip' = ip /\ retry' = retry
  BY DEF maybe_prune, limiter, observer
<1>2. BucketBudget' /\ RegistryBudget'
  BY <1>1 DEF BucketBudget, RegistryBudget, Standing, WindowAllowance
<1>3. CASE now - last_prune < PRUNE_PERIOD
  <2>1. Return(w)
    BY <1>3 DEF maybe_prune
  <2>2. TypeOK'
    BY <1>1, <2>1, ReturnType DEF TypeOK
  <2> QED
    BY <1>1, <1>2, <2>1, <2>2, ReturnClockRef
<1>4. CASE ~(now - last_prune < PRUNE_PERIOD)
  <2>1. /\ pc' = [pc EXCEPT ![w] = "prune"]
        /\ seen' = [seen EXCEPT ![w] = now]
        /\ ref' = ref /\ allowed' = allowed
    BY <1>4 DEF maybe_prune, Goto
  <2>2. TypeOK'
    BY <1>1, <2>1 DEF TypeOK, PCs
  <2>3. ClockInv'
    BY <1>1, <2>1 DEF ClockInv, TypeOK
  <2>4. RefInv'
    BY <2>1 DEF RefInv, TypeOK
  <2> QED
    BY <1>2, <2>2, <2>3, <2>4
<1> QED
  BY <1>3, <1>4

\* A dropped bucket was full, so the address keeps its standing.
LEMMA PruneInv ==
  ASSUME IInv, NEW w \in Workers, prune(w)
  PROVE  IInv'
<1> USE DEF IInv
<1>1. /\ now' = now /\ heap' = heap /\ mark' = mark /\ taken' = taken
      /\ admitted' = admitted /\ stray' = stray /\ ip' = ip /\ retry' = retry
      /\ Return(w)
  BY DEF prune, observer
<1>2. \A i \in IPs :
        \/ buckets'[i] = buckets[i]
        \/ /\ buckets'[i] = NoBucket
           /\ buckets[i] # NoBucket
           /\ seen[w] - heap[buckets[i]].last_refill > STALE_THRESHOLD
  BY DEF prune
<1>3. buckets' \in [IPs -> 0..Len(heap)]
  <2>1. Len(heap) \in Nat
    BY LenProperties DEF TypeOK
  <2> QED
    BY <2>1 DEF prune, TypeOK, NoBucket
<1>4. last_prune' \in Nat
  BY DEF prune, TypeOK
<1>5. TypeOK'
  BY <1>1, <1>3, <1>4, ReturnType DEF TypeOK
<1>6. ClockInv' /\ RefInv'
  BY <1>1, ReturnClockRef
<1>7. BucketBudget'
  BY <1>1 DEF BucketBudget, WindowAllowance
<1>8. ASSUME NEW i \in IPs
      PROVE  Standing(i)' = Standing(i)
  <2>1. CASE buckets'[i] = buckets[i]
    BY <1>1, <2>1 DEF Standing
  <2>2. CASE /\ buckets'[i] = NoBucket
             /\ buckets[i] # NoBucket
             /\ seen[w] - heap[buckets[i]].last_refill > STALE_THRESHOLD
    <3>1. buckets[i] \in 1..Len(heap) /\ heap \in Seq(Bucket)
      BY <2>2, LenProperties DEF TypeOK, NoBucket
    <3>2. heap[buckets[i]] \in Bucket
      BY <3>1, ElementOfSeq
    <3>3. now \in Nat /\ seen[w] \in Nat /\ seen[w] <= now
      BY DEF TypeOK, ClockInv
    <3>4. now - heap[buckets[i]].last_refill > STALE_THRESHOLD
      BY <2>2, <3>2, <3>3, LimiterAssumption DEF Bucket
    <3>5. Refilled(heap[buckets[i]], now) = Full
      BY <3>2, <3>3, <3>4, RefilledStale
    <3> QED
      BY <2>2, <3>5 DEF Standing
  <2> QED
    BY <1>2, <2>1, <2>2
<1>9. RegistryBudget'
  BY <1>1, <1>8 DEF RegistryBudget, WindowAllowance
<1> QED
  BY <1>5, <1>6, <1>7, <1>9

\* The answer of get_retry_after is a natural number of seconds.
LEMMA RetryAfterNat ==
  ASSUME NEW c \in Bucket
  PROVE  retry_after(c) \in Nat
<1>1. RATE * TICKS \in Nat \ {0}
  BY LimiterAssumption
<1>2. CASE c.tokens >= UNIT
  BY <1>2 DEF retry_after
<1>3. CASE ~(c.tokens >= UNIT)
  <2>1. UNIT - c.tokens \in Nat
    BY <1>3, FullIsNat, LimiterAssumption DEF Bucket
  <2> QED
    BY <1>1, <1>3, <2>1, CeilCovers DEF retry_after
<1> QED
  BY <1>2, <1>3

LEMMA GetRetryAfterInv ==
  ASSUME IInv, NEW w \in Workers, get_retry_after(w)
  PROVE  IInv'
<1> USE DEF IInv
<1>1. /\ now' = now /\ heap' = heap /\ buckets' = buckets /\ mark' = mark
      /\ taken' = taken /\ admitted' = admitted /\ stray' = stray
      /\ last_prune' = last_prune /\ ip' = ip /\ ref' = ref /\ seen' = seen
      /\ allowed' = allowed /\ pc' = [pc EXCEPT ![w] = "idle"]
  BY DEF get_retry_after, Goto, limiter, observer
<1>2. retry' \in Nat
  <2>1. CASE buckets[ip[w]] = NoBucket
    BY <2>1 DEF get_retry_after
  <2>2. CASE buckets[ip[w]] # NoBucket
    <3>1. buckets[ip[w]] \in 1..Len(heap) /\ heap \in Seq(Bucket)
      BY <2>2, LenProperties DEF TypeOK, NoBucket
    <3> QED
      BY <2>2, <3>1, ElementOfSeq, RetryAfterNat DEF get_retry_after
  <2> QED
    BY <2>1, <2>2
<1>3. TypeOK'
  BY <1>1, <1>2 DEF TypeOK, PCs
<1>4. RefInv'
  BY <1>1 DEF RefInv, TypeOK
<1> QED
  BY <1>1, <1>3, <1>4
  DEF ClockInv, BucketBudget, RegistryBudget, Standing, WindowAllowance

\* A tick adds RATE to the allowance and at most RATE to every bucket.
LEMMA TickInv ==
  ASSUME IInv, Tick
  PROVE  IInv'
<1> USE DEF IInv
<1>1. /\ now \in Nat /\ now' = now + 1 /\ mark' = mark /\ heap' = heap
      /\ buckets' = buckets /\ taken' = taken /\ admitted' = admitted
      /\ pc' = pc /\ ref' = ref /\ seen' = seen
  BY DEF Tick, TypeOK, limiter, locals, observer
<1>2. TypeOK'
  BY DEF Tick, TypeOK, limiter, locals, observer
<1>3. heap \in Seq(Bucket) /\ Len(heap) \in Nat /\ \A j \in 1..Len(heap) : heap[j] \in Bucket
  BY LenProperties, ElementOfSeq DEF TypeOK
<1>4. ClockInv'
  <2>1. \A j \in 1..Len(heap) : heap[j].last_refill \in Nat
    BY <1>3 DEF Bucket
  <2> QED
    BY <1>1, <2>1 DEF ClockInv, TypeOK
<1>5. RefInv'
  BY <1>1 DEF RefInv
<1>6. WindowAllowance' = WindowAllowance + RATE /\ WindowAllowance \in Nat
  <2>1. /\ WindowAllowance \in Nat
        /\ Full + (now + 1 - mark) * RATE = WindowAllowance + RATE
    BY WindowGrows DEF ClockInv
  <2>2. WindowAllowance' = Full + (now + 1 - mark) * RATE
    BY <1>1, FullIsNat, LimiterAssumption DEF WindowAllowance, TypeOK
  <2> QED
    BY <2>1, <2>2
<1>7. RATE \in Nat /\ UNIT \in Nat /\ Full \in Nat
  BY LimiterAssumption, FullIsNat
<1>8. ASSUME NEW j \in 1..Len(heap)
      PROVE  /\ Refilled(heap[j], now) \in Nat
             /\ Refilled(heap[j], now + 1) \in Nat
             /\ Refilled(heap[j], now + 1) <= Refilled(heap[j], now) + RATE
  <2>1. /\ heap[j] \in Bucket /\ heap[j].last_refill \in Nat
        /\ heap[j].last_refill <= now /\ heap[j].last_refill <= now + 1
    BY <1>1, <1>3 DEF ClockInv, Bucket
  <2>2. Refilled(heap[j], now) \in 0..Full
    BY <1>1, <2>1, RefilledRange
  <2>3. now + 1 \in Nat
    BY <1>1
  <2>4. Refilled(heap[j], now + 1) \in 0..Full
    BY <2>1, <2>3, RefilledRange
  <2>5. Refilled(heap[j], now + 1) <= Refilled(heap[j], now) + RATE
    BY <1>1, <2>1, RefilledTick
  <2> QED
    BY <1>7, <2>2, <2>4, <2>5
<1>9. BucketBudget'
  <2> SUFFICES ASSUME NEW j \in 1..Len(heap)
               PROVE  UNIT * taken[j] + Refilled(heap[j], now + 1)
                        <= WindowAllowance + RATE
    BY <1>1, <1>6 DEF BucketBudget
  <2>1. UNIT * taken[j] + Refilled(heap[j], now) <= WindowAllowance
    BY DEF BucketBudget
  <2>2. taken[j] \in Nat
    BY ElementOfSeq DEF TypeOK
  <2>3. UNIT * taken[j] \in Nat
    BY <1>7, <2>2
  <2> QED
    BY <1>6, <1>7, <1>8, <2>1, <2>3
<1>10. RegistryBudget'
  <2> SUFFICES ASSUME NEW i \in IPs
               PROVE  UNIT * admitted[i] + Standing(i)' <= WindowAllowance + RATE
    BY <1>1, <1>6 DEF RegistryBudget
  <2>1. UNIT * admitted[i] + Standing(i) <= WindowAllowance
    BY DEF RegistryBudget
  <2>2. admitted[i] \in Nat /\ buckets[i] \in 0..Len(heap)
    BY DEF TypeOK
  <2>3. UNIT * admitted[i] \in Nat
    BY <1>7, <2>2
  <2>4. /\ Standing(i) \in Nat /\ Standing(i)' \in Nat
        /\ Standing(i)' <= Standing(i) + RATE
    BY <1>1, <1>3, <1>7, <1>8, <2>2 DEF Standing, NoBucket
  <2> QED
    BY <1>6, <1>7, <2>1, <2>3, <2>4
<1> QED
  BY <1>2, <1>4, <1>5, <1>9, <1>10

\* A new window starts with nothing granted, and no standing exceeds Full.
LEMMA MarkInv ==
  ASSUME IInv, Mark
  PROVE  IInv'
<1> USE DEF IInv
<1>1. /\ now' = now /\ heap' = heap /\ buckets' = buckets /\ mark' = now
      /\ pc' = pc /\ ref' = ref /\ seen' = seen
      /\ taken' = [b \in 1..Len(heap) |-> 0]
      /\ admitted' = [i \in IPs |-> 0]
  BY DEF Mark, limiter, locals
<1>2. heap \in Seq(Bucket) /\ Len(heap) \in Nat /\ now \in Nat
  BY LenProperties DEF TypeOK
<1>3. taken' \in Seq(Nat) /\ Len(taken') = Len(heap)
  BY <1>1, <1>2
<1>4. TypeOK'
  BY <1>1, <1>3 DEF Mark, TypeOK, limiter, locals
<1>5. ClockInv' /\ RefInv'
  BY <1>1, <1>2 DEF ClockInv, RefInv
<1>6. WindowAllowance' = Full /\ UNIT * 0 = 0 /\ Full \in Nat
  BY <1>1, <1>2, LimiterAssumption, FullIsNat DEF WindowAllowance
<1>7. \A j \in 1..Len(heap) : Refilled(heap[j], now) \in 0..Full
  BY <1>2, ElementOfSeq, RefilledRange DEF ClockInv
<1>8. BucketBudget'
  BY <1>1, <1>6, <1>7 DEF BucketBudget
<1>9. \A i \in IPs : Standing(i)' \in 0..Full
  BY <1>1, <1>2, <1>6, <1>7 DEF Standing, NoBucket, TypeOK
<1>10. RegistryBudget'
  BY <1>1, <1>6, <1>9 DEF RegistryBudget
<1> QED
  BY <1>4, <1>5, <1>8, <1>10

-----------------------------------------------------------------------------
(* The theorems *)

LEMMA Inductive == IInv /\ [Next]_vars => IInv'
<1> SUFFICES ASSUME IInv, [Next]_vars PROVE IInv'
  OBVIOUS
<1>1. CASE Tick
  BY <1>1, TickInv
<1>2. CASE Mark
  BY <1>2, MarkInv
<1>3. ASSUME NEW w \in Workers, Worker(w) PROVE IInv'
  BY <1>3, GetOrCreateInv, ConsumeInv, MaybePruneInv, PruneInv,
     GetRetryAfterInv DEF Worker
<1>4. CASE UNCHANGED vars
  BY <1>4
  DEF vars, limiter, locals, observer, IInv, TypeOK, ClockInv, RefInv,
      BucketBudget, RegistryBudget, Standing, WindowAllowance
<1> QED
  BY <1>1, <1>2, <1>3, <1>4 DEF Next

\* Every reachable state of the limiter keeps the budgets of its buckets and
\* of its addresses.
THEOREM LimiterInvariant == Spec => []IInv
BY InitInv, Inductive, PTL DEF Spec

\* Every variable keeps its type; in particular the token count of a bucket
\* never leaves 0..CAPACITY (TokenBucket.consume).
THEOREM LimiterTypeCorrect == Spec => []TypeOK
<1>1. IInv => TypeOK
  BY DEF IInv
<1> QED
  BY <1>1, LimiterInvariant, PTL

\* No bucket grants more than capacity plus refill in any window.
THEOREM BucketsAreBounded == Spec => []BucketBurstBound
<1>1. ASSUME IInv PROVE BucketBurstBound
  <2> SUFFICES ASSUME NEW b \in 1..Len(heap)
               PROVE  UNIT * taken[b] <= WindowAllowance
    BY DEF BucketBurstBound
  <2>1. /\ heap[b] \in Bucket /\ heap[b].last_refill <= now /\ now \in Nat
        /\ taken[b] \in Nat /\ WindowAllowance \in Nat
        /\ UNIT * taken[b] + Refilled(heap[b], now) <= WindowAllowance
    BY <1>1, ElementOfSeq, WindowGrows DEF IInv, TypeOK, ClockInv, BucketBudget
  <2>2. Refilled(heap[b], now) \in 0..Full /\ UNIT * taken[b] \in Nat
    BY <2>1, RefilledRange, LimiterAssumption
  <2> QED
    BY <2>1, <2>2, FullIsNat
<1> QED
  BY <1>1, LimiterInvariant, PTL

\* No address is granted more than capacity plus refill in any window, by the
\* buckets the registry successively held for it.
THEOREM AddressesAreBounded == Spec => []RegistryBurstBound
<1>1. ASSUME IInv PROVE RegistryBurstBound
  <2> SUFFICES ASSUME NEW i \in IPs
               PROVE  UNIT * admitted[i] <= WindowAllowance
    BY DEF RegistryBurstBound
  <2>1. /\ heap \in Seq(Bucket) /\ Len(heap) \in Nat /\ now \in Nat
        /\ buckets[i] \in 0..Len(heap)
        /\ admitted[i] \in Nat /\ WindowAllowance \in Nat
        /\ UNIT * admitted[i] + Standing(i) <= WindowAllowance
    BY <1>1, LenProperties, WindowGrows DEF IInv, TypeOK, ClockInv, RegistryBudget
  <2>2. \A j \in 1..Len(heap) : Refilled(heap[j], now) \in 0..Full
    BY <1>1, <2>1, ElementOfSeq, RefilledRange DEF IInv, ClockInv
  <2>3. Standing(i) \in Nat /\ UNIT * admitted[i] \in Nat
    BY <2>1, <2>2, FullIsNat, LimiterAssumption DEF Standing, NoBucket
  <2> QED
    BY <2>1, <2>3
<1> QED
  BY <1>1, LimiterInvariant, PTL

\* The rounding up of retry_after waits long enough for one whole token.
LEMMA WaitRefills ==
  ASSUME NEW c \in Bucket, NEW t \in Nat, c.last_refill <= t
  PROVE  Refilled(c, t + TICKS * retry_after(c)) >= UNIT
<1>1. /\ UNIT \in Nat /\ RATE \in Nat /\ TICKS \in Nat
      /\ RATE * TICKS \in Nat \ {0}
      /\ c.tokens \in Nat /\ c.last_refill \in Nat
      /\ Full \in Nat /\ UNIT <= Full
  BY FullIsNat, LimiterAssumption DEF Bucket
<1> DEFINE r == retry_after(c)
           wait == t + TICKS * r - c.last_refill
<1>2. r \in Nat
  BY RetryAfterNat
<1>3. TICKS * r \in Nat
  BY <1>1, <1>2
<1>4. wait \in Nat /\ TICKS * r <= wait
  BY <1>1, <1>3
<1>5. (TICKS * r) * RATE <= wait * RATE
  BY <1>1, <1>3, <1>4, MulMono
<1>6. wait * RATE \in Nat /\ (TICKS * r) * RATE \in Nat
  BY <1>1, <1>3, <1>4
<1>7. c.tokens + wait * RATE >= UNIT
  <2>1. CASE c.tokens >= UNIT
    BY <1>1, <1>6, <2>1
  <2>2. CASE ~(c.tokens >= UNIT)
    <3>1. UNIT - c.tokens \in Nat
      BY <1>1, <2>2
    <3>2. r = (UNIT - c.tokens + RATE * TICKS - 1) \div (RATE * TICKS)
      BY <2>2 DEF retry_after
    <3>3. (RATE * TICKS) * r >= UNIT - c.tokens
      BY <1>1, <3>1, <3>2, CeilCovers
    <3>4. (RATE * TICKS) * r = (TICKS * r) * RATE
      BY <1>1, <1>2
    <3> QED
      BY <1>1, <1>5, <1>6, <3>3, <3>4
  <2> QED
    BY <2>1, <2>2
<1> QED
  BY <1>1, <1>2, <1>3, <1>4, <1>6, <1>7 DEF Refilled

\* A client that waits the Retry-After seconds it was told finds a token,
\* unless others took it meanwhile (TokenBucket.retry_after).
THEOREM RetryAfterIsHonest == Spec => RetryAfterHonest
<1>1. ASSUME IInv, NEW w \in Workers, get_retry_after(w)
      PROVE  AdmittedAt(ip[w], now + TICKS * retry')
  <2> DEFINE i == ip[w]
  <2> SUFFICES ASSUME buckets[i] # NoBucket
               PROVE  Refilled(heap[buckets[i]], now + TICKS * retry') >= UNIT
    BY DEF AdmittedAt
  <2>1. buckets[i] \in 1..Len(heap) /\ heap \in Seq(Bucket) /\ now \in Nat
    BY <1>1, LenProperties DEF IInv, TypeOK, NoBucket
  <2>2. heap[buckets[i]] \in Bucket /\ heap[buckets[i]].last_refill <= now
    BY <1>1, <2>1, ElementOfSeq DEF IInv, ClockInv
  <2>3. retry' = retry_after(heap[buckets[i]])
    BY <1>1 DEF get_retry_after
  <2> QED
    BY <2>1, <2>2, <2>3, WaitRefills
<1>2. IInv => \A w \in Workers :
                get_retry_after(w) => AdmittedAt(ip[w], now + TICKS * retry')
  BY <1>1
<1> QED
  BY <1>2, LimiterInvariant, PTL DEF RetryAfterHonest
=============================================================================
