----------------------------- MODULE RateLimiter -----------------------------
(***************************************************************************)
(* src/rate_limiter.py: the per-IP token-bucket rate limiter, used by the  *)
(* worker threads of the proxy.                                            *)
(*                                                                         *)
(* A worker calls is_allowed(ip), which is three critical sections with    *)
(* other threads' steps in between: _get_or_create_bucket (registry lock), *)
(* TokenBucket.consume (the bucket's lock) and _maybe_prune (an unlocked   *)
(* test of _last_prune, then the registry lock).  A rejected worker calls  *)
(* get_retry_after (registry lock, then bucket lock).                      *)
(*                                                                         *)
(* Buckets are heap objects: a worker keeps a reference to its bucket      *)
(* after the registry has dropped it.  Tokens are counted in units of      *)
(* 1/UNIT token and time in ticks of 1/TICKS second, so the floating-point *)
(* arithmetic of the code is exact here.                                   *)
(***************************************************************************)
EXTENDS Integers, Sequences

CONSTANTS
  Workers,          \* threads of the pool that call the limiter
  IPs,              \* client addresses
  RATE_LIMIT_ENABLED, \* [rate_limit] enabled
  CAPACITY,         \* [rate_limit] capacity: burst size in tokens
  UNIT,             \* units per token
  RATE,             \* refill_rate in units per tick
  TICKS,            \* ticks per second
  STALE_THRESHOLD,  \* _STALE_THRESHOLD (600 s) in ticks
  PRUNE_PERIOD,     \* the 60 s between prunes, in ticks
  MaxTime           \* bound: the clock stops here

ASSUME LimiterAssumption ==
  /\ RATE_LIMIT_ENABLED \in BOOLEAN
  /\ CAPACITY \in Nat \ {0}
  /\ UNIT \in Nat \ {0}
  /\ RATE \in Nat \ {0}
  /\ TICKS \in Nat \ {0}
  /\ STALE_THRESHOLD \in Nat
  /\ PRUNE_PERIOD \in Nat
  /\ MaxTime \in Nat

\* A bucket idle for STALE_THRESHOLD has refilled completely (20 tokens at
\* 2 tokens/s against 600 s in config/proxy.conf).
ASSUME StaleIsFull == UNIT * CAPACITY <= RATE * STALE_THRESHOLD

VARIABLES
  now,         \* time.monotonic()
  heap,        \* every TokenBucket ever created
  buckets,     \* RateLimiter._buckets: heap index per IP, 0 when absent
  last_prune,  \* RateLimiter._last_prune
  pc,          \* where each worker stands in is_allowed / get_retry_after
  ip,          \* its argument
  ref,         \* its local `bucket`, a heap index
  allowed,     \* its local `allowed`
  seen,        \* its local `now` of _maybe_prune
  retry        \* the Retry-After answered last, by any worker

\* Observer variables: a window opened at an arbitrary time `mark`, and the
\* tokens granted since then, per bucket and per IP.
VARIABLES
  mark,
  taken,       \* per heap index
  admitted,    \* per IP, on the bucket the registry held for it
  stray        \* per IP, on a bucket the registry had dropped

limiter == <<heap, buckets, last_prune>>
locals == <<pc, ip, ref, allowed, seen, retry>>
observer == <<mark, taken, admitted, stray>>
vars == <<now, limiter, locals, observer>>

Full == UNIT * CAPACITY
Bucket == [tokens : 0..Full, last_refill : Nat]
NoBucket == 0
PCs == {"idle", "consume", "check", "prune", "rejected"}

Init ==
  /\ now = 0
  /\ heap = <<>>
  /\ buckets = [i \in IPs |-> NoBucket]
  /\ last_prune = 0
  /\ pc = [w \in Workers |-> "idle"]
  /\ ip \in [Workers -> IPs]
  /\ ref = [w \in Workers |-> NoBucket]
  /\ allowed = [w \in Workers |-> FALSE]
  /\ seen = [w \in Workers |-> 0]
  /\ retry = 0
  /\ mark = 0
  /\ taken = <<>>
  /\ admitted = [i \in IPs |-> 0]
  /\ stray = [i \in IPs |-> 0]

-----------------------------------------------------------------------------
(* TokenBucket *)

\* The tokens of bucket b after the refill of consume at time t.
\* Uncapped_Refilled: the min() with the capacity is forgotten.
Uncapped_Refilled(b, t) == b.tokens + (t - b.last_refill) * RATE

Refilled(b, t) ==
  LET sum == b.tokens + (t - b.last_refill) * RATE
  IN  IF sum < Full THEN sum ELSE Full

\* Floor_retry_after: int() truncation instead of math.ceil.
Floor_retry_after(b) ==
  IF b.tokens >= UNIT THEN 0 ELSE (UNIT - b.tokens) \div (RATE * TICKS)

\* TokenBucket.retry_after: whole seconds until the next token, counted
\* from the last refill.
retry_after(b) ==
  IF b.tokens >= UNIT
  THEN 0
  ELSE (UNIT - b.tokens + RATE * TICKS - 1) \div (RATE * TICKS)

NewBucket == [tokens |-> Full, last_refill |-> now]

-----------------------------------------------------------------------------
(* RateLimiter *)

Goto(w, label) == pc' = [pc EXCEPT ![w] = label]

\* The end of is_allowed: its locals are gone, and a rejected worker goes on
\* to get_retry_after.
Return(w) ==
  /\ Goto(w, IF allowed[w] THEN "idle" ELSE "rejected")
  /\ ref' = [ref EXCEPT ![w] = NoBucket]
  /\ allowed' = [allowed EXCEPT ![w] = FALSE]
  /\ seen' = [seen EXCEPT ![w] = 0]

\* _get_or_create_bucket, under the registry lock.  is_allowed calls it only
\* when limiting is enabled, and otherwise lets every request through.
get_or_create_bucket(w, i) ==
  /\ RATE_LIMIT_ENABLED
  /\ pc[w] = "idle"
  /\ ip' = [ip EXCEPT ![w] = i]
  /\ IF buckets[i] = NoBucket
     THEN /\ heap' = Append(heap, NewBucket)
          /\ taken' = Append(taken, 0)
          /\ buckets' = [buckets EXCEPT ![i] = Len(heap) + 1]
          /\ ref' = [ref EXCEPT ![w] = Len(heap) + 1]
     ELSE /\ ref' = [ref EXCEPT ![w] = buckets[i]]
          /\ UNCHANGED <<heap, taken, buckets>>
  /\ Goto(w, "consume")
  /\ UNCHANGED <<now, last_prune, allowed, seen, retry, mark, admitted, stray>>

\* What a grant adds to the observer's counts.
Count(w) ==
  /\ taken' = [taken EXCEPT ![ref[w]] = @ + 1]
  /\ IF buckets[ip[w]] = ref[w]
     THEN /\ admitted' = [admitted EXCEPT ![ip[w]] = @ + 1]
          /\ UNCHANGED stray
     ELSE /\ stray' = [stray EXCEPT ![ip[w]] = @ + 1]
          /\ UNCHANGED admitted

\* TokenBucket.consume, under the lock of the bucket the worker refers to.
consume(w) ==
  LET b == ref[w]
      available == Refilled(heap[b], now)
  IN  /\ pc[w] = "consume"
      /\ IF available >= UNIT
         THEN /\ heap' = [heap EXCEPT ![b] = [tokens |-> available - UNIT,
                                              last_refill |-> now]]
              /\ allowed' = [allowed EXCEPT ![w] = TRUE]
              /\ Count(w)
         ELSE /\ heap' = [heap EXCEPT ![b] = [tokens |-> available,
                                              last_refill |-> now]]
              /\ allowed' = [allowed EXCEPT ![w] = FALSE]
              /\ UNCHANGED <<taken, admitted, stray>>
      /\ Goto(w, "check")
      /\ UNCHANGED <<now, buckets, last_prune, ip, ref, seen, retry, mark>>

\* _maybe_prune up to its early return: the clock and _last_prune are read
\* without the lock.
maybe_prune(w) ==
  /\ pc[w] = "check"
  /\ IF now - last_prune < PRUNE_PERIOD
     THEN Return(w)
     ELSE /\ Goto(w, "prune")
          /\ seen' = [seen EXCEPT ![w] = now]
          /\ UNCHANGED <<ref, allowed>>
  /\ UNCHANGED <<now, limiter, ip, retry, observer>>

\* Hasty_prune: drops the buckets idle for one prune period.
Hasty_prune(w) ==
  /\ pc[w] = "prune"
  /\ last_prune' = seen[w]
  /\ buckets' = [i \in IPs |->
                   IF /\ buckets[i] # NoBucket
                      /\ seen[w] - heap[buckets[i]].last_refill >= PRUNE_PERIOD
                   THEN NoBucket ELSE buckets[i]]
  /\ Return(w)
  /\ UNCHANGED <<now, heap, ip, retry, observer>>

\* The rest of _maybe_prune, under the registry lock, with the clock value
\* read before the lock was taken.
prune(w) ==
  /\ pc[w] = "prune"
  /\ last_prune' = seen[w]
  /\ buckets' = [i \in IPs |->
                   IF /\ buckets[i] # NoBucket
                      /\ seen[w] - heap[buckets[i]].last_refill > STALE_THRESHOLD
                   THEN NoBucket ELSE buckets[i]]
  /\ Return(w)
  /\ UNCHANGED <<now, heap, ip, retry, observer>>

\* get_retry_after: 1 when the registry no longer has a bucket for the IP.
get_retry_after(w) ==
  /\ pc[w] = "rejected"
  /\ retry' = IF buckets[ip[w]] = NoBucket
               THEN 1 ELSE retry_after(heap[buckets[ip[w]]])
  /\ Goto(w, "idle")
  /\ UNCHANGED <<now, limiter, ip, ref, allowed, seen, observer>>

-----------------------------------------------------------------------------
(* Environment *)

Tick ==
  /\ now < MaxTime
  /\ now' = now + 1
  /\ UNCHANGED <<limiter, locals, observer>>

\* The observer closes its window and opens a new one.
Mark ==
  /\ mark' = now
  /\ taken' = [b \in 1..Len(heap) |-> 0]
  /\ admitted' = [i \in IPs |-> 0]
  /\ stray' = [i \in IPs |-> 0]
  /\ UNCHANGED <<now, limiter, locals>>

Worker(w) ==
  \/ \E i \in IPs : get_or_create_bucket(w, i)
  \/ consume(w)
  \/ maybe_prune(w)
  \/ prune(w)
  \/ get_retry_after(w)

Next == Tick \/ Mark \/ \E w \in Workers : Worker(w)

Spec == Init /\ [][Next]_vars

-----------------------------------------------------------------------------
(* Properties *)

TypeOK ==
  /\ now \in Nat
  /\ heap \in Seq(Bucket)
  /\ buckets \in [IPs -> 0..Len(heap)]
  /\ last_prune \in Nat
  /\ pc \in [Workers -> PCs]
  /\ ip \in [Workers -> IPs]
  /\ ref \in [Workers -> 0..Len(heap)]
  /\ allowed \in [Workers -> BOOLEAN]
  /\ seen \in [Workers -> Nat]
  /\ retry \in Nat
  /\ mark \in Nat
  /\ taken \in Seq(Nat) /\ Len(taken) = Len(heap)
  /\ admitted \in [IPs -> Nat]
  /\ stray \in [IPs -> Nat]

\* What a bucket, or an IP, may be granted in the open window.
WindowAllowance == Full + (now - mark) * RATE

\* No bucket grants more than its capacity plus what it refilled, in any
\* window of time, whatever the interleaving of the threads that share it
\* (TokenBucket.consume).
BucketBurstBound ==
  \A b \in 1..Len(heap) : UNIT * taken[b] <= WindowAllowance

\* The same for an IP over all the buckets the registry successively held for
\* it: dropping a stale bucket and creating a full one forgives nothing
\* (_maybe_prune with _get_or_create_bucket).
RegistryBurstBound ==
  \A i \in IPs : UNIT * admitted[i] <= WindowAllowance

\* The strengthening that makes the two bounds inductive: what was granted in
\* the window and what could be granted at this moment share one budget.
ClockInv ==
  /\ \A b \in 1..Len(heap) : heap[b].last_refill <= now
  /\ \A w \in Workers : seen[w] <= now
  /\ mark <= now

RefInv == \A w \in Workers : pc[w] = "consume" => ref[w] # NoBucket

BucketBudget ==
  \A b \in 1..Len(heap) :
     UNIT * taken[b] + Refilled(heap[b], now) <= WindowAllowance

\* What IP i could be granted at this moment; a client without a bucket gets
\* a full one.
Standing(i) ==
  IF buckets[i] = NoBucket THEN Full ELSE Refilled(heap[buckets[i]], now)

RegistryBudget ==
  \A i \in IPs : UNIT * admitted[i] + Standing(i) <= WindowAllowance

\* No interleaving of consume, _maybe_prune, _get_or_create_bucket and the
\* clock overspends the budget of a bucket or of an address.
IInv == TypeOK /\ ClockInv /\ RefInv /\ BucketBudget /\ RegistryBudget

\* README.md: "a strict per-IP token bucket algorithm", "bursts up to a
\* defined Capacity": the bound for an IP over all its buckets, those that
\* were pruned between _get_or_create_bucket and consume included.
IpBurstBound ==
  \A i \in IPs : UNIT * (admitted[i] + stray[i]) <= WindowAllowance

\* Whether a request of IP i alone at time t would be let through.
AdmittedAt(i, t) ==
  buckets[i] # NoBucket => Refilled(heap[buckets[i]], t) >= UNIT

\* A rejected client that waits the Retry-After seconds it was told is let
\* through, unless others used up its tokens meanwhile (get_retry_after is
\* called after the buckets changed under other threads' requests).
RetryAfterHonest ==
  [][\A w \in Workers :
       get_retry_after(w) => AdmittedAt(ip[w], now + TICKS * retry')]_vars
=============================================================================
