--------------------------- MODULE ForwarderProofs ---------------------------
(***************************************************************************)
(* Proofs about Forwarder, for every set of workers, keys, methods and     *)
(* responses, every buffer size and every size limit.                      *)
(***************************************************************************)
EXTENDS Forwarder, TLAPS

\* What IInv says of one worker.
Fetching(w) ==
  /\ pc[w] \in {"stream", "finish"} /\ cacheable[w] =>
        chunks[w] = relayed[w] /\ total_size[w] = relayed[w]
  /\ response[w].length # Endless => relayed[w] <= response[w].length
  /\ pc[w] # "idle" => key[w] \in Keys
  /\ pc[w] \in {"idle", "connect", "send"} =>
        /\ relayed[w] = 0 /\ chunks[w] = 0 /\ total_size[w] = 0
        /\ status_code[w] = NoStatus /\ ~split[w]
  /\ pc[w] \in {"stream", "finish"} =>
        /\ response[w] \in Responses /\ response[w].key = key[w]
        /\ relayed[w] = 0 => status_code[w] = NoStatus
        /\ relayed[w] > 0 /\ ~split[w] => status_code[w] = response[w].status
        /\ cacheable[w] =>
             /\ total_size[w] <= MAX_OBJECT_SIZE
             /\ relayed[w] = 0 \/ response[w].status = OK \/ split[w]
        /\ (method[w] = "GET" /\ response[w].status = OK /\ ~split[w]
              /\ relayed[w] <= MAX_OBJECT_SIZE) => cacheable[w]

LEMMA InvariantByWorker ==
  /\ IInv <=> TypeOK /\ CacheHonest /\ \A w \in Workers : Fetching(w)
  /\ IInv' <=> TypeOK' /\ CacheHonest' /\ \A w \in Workers : Fetching(w)'
BY Zenon DEF IInv, ChunksAreRelayed, FreshInv, StreamInv, Fetching

LEMMA ResponseFacts ==
  ASSUME NEW r \in Responses
  PROVE  /\ r.key \in Keys
         /\ r.status \in Statuses /\ r.status \in Nat /\ r.status # NoStatus
         /\ r.length \in Lengths \cup {Endless} /\ r.length \in Int
         /\ r.length # Endless => r.length \in Nat /\ r.length >= 2
<1>1. r.key \in Keys /\ r.status \in Statuses /\ r.length \in Lengths \cup {Endless}
  BY DEF Responses
<1>2. r.status \in Nat \ {NoStatus} /\ (r.length # Endless => r.length \in Nat \ {0, 1})
  BY <1>1, ForwarderAssumption
<1>3. Endless \in Int
  BY DEF Endless
<1> QED
  BY <1>1, <1>2, <1>3

\* The count that relay keeps is exact up to MaxUnits, and beyond it from then.
LEMMA CountedFacts ==
  ASSUME NEW k \in Nat
  PROVE  /\ Counted(k) \in Nat /\ Counted(k) <= k
         /\ k <= MaxUnits => Counted(k) = k
         /\ k > MaxUnits => Counted(k) >= MaxUnits
         /\ k > 0 => Counted(k) > 0
<1>1. MaxUnits \in Nat /\ MaxUnits > 0
  BY ForwarderAssumption
<1>2. CASE k <= MaxUnits
  BY <1>1, <1>2 DEF Counted
<1>3. CASE k > MaxUnits
  <2>1. (k - MaxUnits) % 2 \in 0..1 /\ k - MaxUnits \in Nat /\ k - MaxUnits >= 1
    BY <1>1, <1>3
  <2>2. Counted(k) = MaxUnits + ((k - MaxUnits) % 2)
    BY <1>1, <1>3 DEF Counted
  <2> QED BY <1>1, <1>3, <2>1, <2>2
<1> QED BY <1>1, <1>2, <1>3

\* A worker stands where it stood when its locals do not change.
LEMMA OthersKeep ==
  ASSUME NEW w \in Workers, Fetching(w),
         pc'[w] = pc[w], method'[w] = method[w], key'[w] = key[w],
         response'[w] = response[w], relayed'[w] = relayed[w],
         chunks'[w] = chunks[w], total_size'[w] = total_size[w],
         cacheable'[w] = cacheable[w], status_code'[w] = status_code[w],
         split'[w] = split[w]
  PROVE  Fetching(w)'
BY DEF Fetching

\* A worker that returns has nothing left to say.
LEMMA ReturnKeeps ==
  ASSUME IInv, NEW w \in Workers, Return(w)
  PROVE  /\ TypeOK' <=> (cache \in [Keys -> Stored \cup {NotStored}])'
         /\ \A v \in Workers : Fetching(v)'
<1> USE DEF Return, Assign
<1>1. TypeOK /\ \A v \in Workers : Fetching(v)
  BY InvariantByWorker
<1>2. /\ pc' \in [Workers -> PCs]
      /\ method' \in [Workers -> Methods \cup {"none"}]
      /\ key' \in [Workers -> Keys \cup {"none"}]
      /\ response' \in [Workers -> Responses \cup {NoResponse}]
  BY <1>1 DEF TypeOK, PCs
<1>3. /\ relayed' \in [Workers -> Nat]
      /\ chunks' \in [Workers -> Nat]
      /\ total_size' \in [Workers -> Nat]
      /\ cacheable' \in [Workers -> BOOLEAN]
      /\ status_code' \in [Workers -> Statuses \cup {NoStatus}]
      /\ split' \in [Workers -> BOOLEAN]
  BY <1>1 DEF TypeOK
<1>4. TypeOK' <=> (cache \in [Keys -> Stored \cup {NotStored}])'
  BY <1>2, <1>3 DEF TypeOK
<1>5. ASSUME NEW v \in Workers PROVE Fetching(v)'
  <2>1. CASE v = w
    BY <1>1, <2>1 DEF Fetching, TypeOK, NoResponse
  <2>2. CASE v # w
    BY <1>1, <2>2, OthersKeep DEF TypeOK
  <2> QED BY <2>1, <2>2
<1> QED BY <1>4, <1>5

-----------------------------------------------------------------------------
(* One lemma per action *)

LEMMA ForwarderInit == ASSUME Init PROVE IInv
<1>1. TypeOK
  BY DEF Init, NoFetch, TypeOK, PCs
<1>2. CacheHonest
  BY DEF Init, CacheHonest
<1>3. ASSUME NEW w \in Workers PROVE Fetching(w)
  <2>1. /\ pc[w] = "idle" /\ relayed[w] = 0 /\ chunks[w] = 0 /\ total_size[w] = 0
        /\ status_code[w] = NoStatus /\ ~split[w] /\ ~cacheable[w]
        /\ response[w] = NoResponse
    BY DEF Init, NoFetch
  <2>2. response[w].length = 0
    BY <2>1 DEF NoResponse
  <2> QED BY <2>1, <2>2 DEF Fetching
<1> QED BY <1>1, <1>2, <1>3, InvariantByWorker

LEMMA LookupKeeps ==
  ASSUME IInv, NEW w \in Workers, NEW m \in Methods, NEW k \in Keys, lookup(w, m, k)
  PROVE  IInv'
<1> USE DEF lookup, Assign, fetch
<1>1. TypeOK /\ CacheHonest /\ \A v \in Workers : Fetching(v)
  BY InvariantByWorker
<1>2. TypeOK'
  BY <1>1 DEF TypeOK, PCs
<1>3. CacheHonest'
  BY <1>1 DEF CacheHonest
<1>4. ASSUME NEW v \in Workers PROVE Fetching(v)'
  <2>1. CASE v = w
    BY <1>1, <2>1 DEF Fetching, TypeOK
  <2>2. CASE v # w
    BY <1>1, <2>2, OthersKeep DEF TypeOK
  <2> QED BY <2>1, <2>2
<1> QED BY <1>2, <1>3, <1>4, InvariantByWorker

LEMMA ServeKeeps ==
  ASSUME IInv, NEW w \in Workers, serve(w)
  PROVE  IInv'
<1>1. CacheHonest'
  BY InvariantByWorker DEF serve, CacheHonest
<1>2. (cache \in [Keys -> Stored \cup {NotStored}])'
  BY InvariantByWorker DEF serve, TypeOK
<1>3. Return(w)
  BY DEF serve
<1> QED BY <1>1, <1>2, <1>3, ReturnKeeps, InvariantByWorker

LEMMA FailKeeps ==
  ASSUME IInv, NEW w \in Workers, fail(w)
  PROVE  IInv'
<1>1. CacheHonest'
  BY InvariantByWorker DEF fail, CacheHonest
<1>2. (cache \in [Keys -> Stored \cup {NotStored}])'
  BY InvariantByWorker DEF fail, TypeOK
<1>3. Return(w)
  BY DEF fail
<1> QED BY <1>1, <1>2, <1>3, ReturnKeeps, InvariantByWorker

LEMMA ConnectKeeps ==
  ASSUME IInv, NEW w \in Workers, connect(w)
  PROVE  IInv'
<1> USE DEF connect, Assign, fetch, request
<1>1. TypeOK /\ CacheHonest /\ \A v \in Workers : Fetching(v)
  BY InvariantByWorker
<1>2. TypeOK'
  BY <1>1 DEF TypeOK, PCs
<1>3. CacheHonest'
  BY <1>1 DEF CacheHonest
<1>4. ASSUME NEW v \in Workers PROVE Fetching(v)'
  <2>1. CASE v = w
    BY <1>1, <2>1 DEF Fetching, TypeOK
  <2>2. CASE v # w
    BY <1>1, <2>2, OthersKeep DEF TypeOK
  <2> QED BY <2>1, <2>2
<1> QED BY <1>2, <1>3, <1>4, InvariantByWorker

\* The response is the origin's answer to this worker's key.
LEMMA SendKeeps ==
  ASSUME IInv, NEW w \in Workers, send(w)
  PROVE  IInv'
<1> USE DEF Assign, fetch, request
<1>1. TypeOK /\ CacheHonest /\ \A v \in Workers : Fetching(v)
  BY InvariantByWorker
<1>2. CASE UNCHANGED fetch /\ pc' = Assign(pc, w, "failed")
  <2>1. TypeOK'
    BY <1>1, <1>2 DEF TypeOK, PCs, send
  <2>2. CacheHonest'
    BY <1>1 DEF CacheHonest, send
  <2>3. ASSUME NEW v \in Workers PROVE Fetching(v)'
    <3>1. CASE v = w
      BY <1>1, <1>2, <3>1 DEF Fetching, TypeOK, send
    <3>2. CASE v # w
      BY <1>1, <1>2, <3>2, OthersKeep DEF TypeOK, send
    <3> QED BY <3>1, <3>2
  <2> QED BY <2>1, <2>2, <2>3, InvariantByWorker
<1>3. ASSUME NEW st \in Statuses, NEW n \in Lengths \cup {Endless},
             response' = Assign(response, w, [key |-> key[w], status |-> st, length |-> n]),
             cacheable' = Assign(cacheable, w, method[w] = "GET"),
             pc' = Assign(pc, w, "stream"),
             UNCHANGED <<relayed, chunks, total_size, status_code, split>>
      PROVE  IInv'
  <2> DEFINE r == [key |-> key[w], status |-> st, length |-> n]
  <2>1. pc[w] = "send" /\ UNCHANGED <<cache, method, key>>
    BY DEF send
  <2>2. r \in Responses /\ r.key = key[w]
    BY <1>1, <2>1 DEF Responses, Fetching
  <2>3. r.length # Endless => r.length \in Nat
    BY <2>2, ResponseFacts
  <2> HIDE DEF r
  <2>4. TypeOK'
    BY <1>1, <1>3, <2>1, <2>2 DEF TypeOK, PCs, r
  <2>5. CacheHonest'
    BY <1>1, <2>1 DEF CacheHonest
  <2>6. ASSUME NEW v \in Workers PROVE Fetching(v)'
    <3>1. CASE v = w
      <4>1. response'[v] = r /\ pc'[v] = "stream" /\ key'[v] = key[v]
        BY <1>1, <1>3, <2>1, <3>1 DEF TypeOK, r
      <4>2. /\ relayed'[v] = 0 /\ chunks'[v] = 0 /\ total_size'[v] = 0
            /\ key[v] \in Keys /\ status_code'[v] = NoStatus
        BY <1>1, <1>3, <2>1, <3>1 DEF Fetching
      <4>3. /\ response'[v].length # Endless => relayed'[v] <= response'[v].length
            /\ total_size'[v] <= MAX_OBJECT_SIZE
        BY <2>3, <4>1, <4>2, ForwarderAssumption
      <4>4. method'[v] = "GET" => cacheable'[v]
        BY <1>1, <1>3, <2>1, <3>1 DEF TypeOK
      <4>5. response'[v] \in Responses /\ response'[v].key = key'[v] /\ key'[v] \in Keys
        <5>1. r.key = key[v]
          BY <2>2, <3>1
        <5> QED BY <2>2, <4>1, <4>2, <5>1
      <4>6. ~(relayed'[v] > 0) /\ pc'[v] \notin {"idle", "connect", "send"}
        BY <4>1, <4>2
      <4> QED
        BY <4>2, <4>3, <4>4, <4>5, <4>6 DEF Fetching
    <3>2. CASE v # w
      BY <1>1, <1>3, <2>1, <3>2, OthersKeep DEF TypeOK
    <3> QED BY <3>1, <3>2
  <2> QED BY <2>4, <2>5, <2>6, InvariantByWorker
<1> QED
  BY <1>2, <1>3 DEF send

LEMMA RelayErrorKeeps ==
  ASSUME IInv, NEW w \in Workers, NEW n \in 1..BUFFER_SIZE, relay_error(w, n)
  PROVE  IInv'
<1> USE DEF relay_error, Assign, fetch, request
<1>1. TypeOK /\ CacheHonest /\ \A v \in Workers : Fetching(v)
  BY InvariantByWorker
<1>2. TypeOK'
  BY <1>1 DEF TypeOK, PCs
<1>3. CacheHonest'
  BY <1>1 DEF CacheHonest
<1>4. ASSUME NEW v \in Workers PROVE Fetching(v)'
  <2>1. CASE v = w
    BY <1>1, <2>1 DEF Fetching, TypeOK
  <2>2. CASE v # w
    BY <1>1, <2>2, OthersKeep DEF TypeOK
  <2> QED BY <2>1, <2>2
<1> QED BY <1>2, <1>3, <1>4, InvariantByWorker

LEMMA EndOfStreamKeeps ==
  ASSUME IInv, NEW w \in Workers, end_of_stream(w)
  PROVE  IInv'
<1> USE DEF end_of_stream, Assign, fetch, request
<1>1. TypeOK /\ CacheHonest /\ \A v \in Workers : Fetching(v)
  BY InvariantByWorker
<1>2. TypeOK'
  BY <1>1 DEF TypeOK, PCs
<1>3. CacheHonest'
  BY <1>1 DEF CacheHonest
<1>4. ASSUME NEW v \in Workers PROVE Fetching(v)'
  <2>1. CASE v = w
    BY <1>1, <2>1 DEF Fetching, TypeOK
  <2>2. CASE v # w
    BY <1>1, <2>2, OthersKeep DEF TypeOK
  <2> QED BY <2>1, <2>2
<1> QED BY <1>2, <1>3, <1>4, InvariantByWorker

LEMMA RecvErrorKeeps ==
  ASSUME IInv, NEW w \in Workers, recv_error(w)
  PROVE  IInv'
<1> USE DEF recv_error, Assign, fetch, request
<1>1. TypeOK /\ CacheHonest /\ \A v \in Workers : Fetching(v)
  BY InvariantByWorker
<1>2. TypeOK'
  BY <1>1 DEF TypeOK, PCs
<1>3. CacheHonest'
  BY <1>1 DEF CacheHonest
<1>4. ASSUME NEW v \in Workers PROVE Fetching(v)'
  <2>1. CASE v = w
    BY <1>1, <2>1 DEF Fetching, TypeOK
  <2>2. CASE v # w
    BY <1>1, <2>2, OthersKeep DEF TypeOK
  <2> QED BY <2>1, <2>2
<1> QED BY <1>2, <1>3, <1>4, InvariantByWorker

\* What the status may become with a chunk of n units after the first `from`.
LEMMA ParsedFacts ==
  ASSUME NEW r \in Responses, NEW from \in Nat, NEW n \in Nat \ {0},
         NEW st \in Parsed(r, from, n)
  PROVE  /\ st \in Statuses \cup {NoStatus}
         /\ from = 0 /\ ~(n < 2) => st = r.status
<1>1. CASE from = 0 /\ n >= 2
  BY <1>1, ResponseFacts DEF Parsed
<1>2. CASE from = 0 /\ ~(n >= 2)
  BY <1>2 DEF Parsed
<1>3. CASE from # 0
  BY <1>3 DEF Parsed
<1> QED BY <1>1, <1>2, <1>3

\* A chunk is collected after it was relayed: the two stay equal, and a first
\* chunk with the status line decides about cacheable.
LEMMA RelayKeeps ==
  ASSUME IInv, NEW w \in Workers, NEW n \in 1..BUFFER_SIZE, relay(w, n)
  PROVE  IInv'
<1>1. TypeOK /\ CacheHonest /\ \A v \in Workers : Fetching(v)
  BY InvariantByWorker
<1>2. PICK st \in IF status_code[w] = NoStatus
                   THEN Parsed(response[w], relayed[w], n) ELSE {status_code[w]} :
        /\ status_code' = Assign(status_code, w, st)
        /\ collect(w, n, still_cacheable(cacheable[w], status_code[w] = NoStatus, st))
  BY DEF relay
<1> DEFINE r == response[w]
           size == total_size[w] + n
           c == still_cacheable(cacheable[w], status_code[w] = NoStatus, st)
<1>3. /\ pc[w] = "stream"
      /\ Within(r, relayed[w] + n)
      /\ relayed' = Assign(relayed, w, Counted(relayed[w] + n))
      /\ split' = Assign(split, w, split[w] \/ (relayed[w] = 0 /\ n < 2))
      /\ UNCHANGED <<cache, pc, method, key, response>>
  BY DEF relay, request
<1>4. /\ relayed[w] \in Nat /\ total_size[w] \in Nat /\ chunks[w] \in Nat
      /\ n \in Nat \ {0} /\ size \in Nat /\ MAX_OBJECT_SIZE \in Nat
      /\ MaxUnits \in Nat /\ MaxUnits > MAX_OBJECT_SIZE
  BY <1>1, ForwarderAssumption DEF TypeOK
<1>20. /\ Counted(relayed[w] + n) \in Nat \ {0}
       /\ Counted(relayed[w] + n) <= relayed[w] + n
       /\ relayed[w] + n <= MAX_OBJECT_SIZE => Counted(relayed[w] + n) = relayed[w] + n
       /\ Counted(relayed[w] + n) <= MAX_OBJECT_SIZE => relayed[w] + n <= MAX_OBJECT_SIZE
  <2>1. relayed[w] + n \in Nat /\ relayed[w] + n > 0
    BY <1>4
  <2> QED BY <1>4, <2>1, CountedFacts
<1>5. r \in Responses /\ r.key = key[w] /\ key[w] \in Keys
  BY <1>1, <1>3 DEF Fetching
<1>6. /\ r.length \in Int /\ r.status \in Nat /\ r.status # NoStatus
  BY <1>5, ResponseFacts
<1>7. /\ st \in Statuses \cup {NoStatus}
      /\ status_code[w] # NoStatus => st = status_code[w]
      /\ status_code[w] = NoStatus /\ relayed[w] = 0 /\ ~(n < 2) => st = r.status
  <2>1. CASE status_code[w] = NoStatus
    BY <1>2, <1>4, <1>5, <2>1, ParsedFacts
  <2>2. CASE status_code[w] # NoStatus
    BY <1>1, <1>2, <2>2 DEF TypeOK
  <2> QED BY <2>1, <2>2
<1> HIDE DEF r
<1>8. c \in BOOLEAN /\ (c => cacheable[w])
  BY <1>1 DEF still_cacheable, TypeOK
<1>9. /\ c => (status_code[w] # NoStatus \/ st = NoStatus \/ st = OK)
      /\ cacheable[w] /\ (status_code[w] # NoStatus \/ st = NoStatus \/ st = OK) => c
  BY DEF still_cacheable
<1> HIDE DEF c
<1>10. cacheable[w] => total_size[w] = relayed[w] /\ chunks[w] = relayed[w]
  BY <1>1, <1>3 DEF Fetching
\* What collect does ...
<1>11. /\ total_size' = Assign(total_size, w, IF c THEN size ELSE total_size[w])
       /\ cacheable' = Assign(cacheable, w, c /\ size <= MAX_OBJECT_SIZE)
       /\ chunks' = Assign(chunks, w, IF ~c THEN chunks[w]
                                    ELSE IF size <= MAX_OBJECT_SIZE THEN chunks[w] + n ELSE 0)
  <2>1. CASE c
    BY <1>2, <2>1 DEF collect, c
  <2>2. CASE ~c
    BY <1>1, <1>2, <2>2 DEF collect, c, Assign, TypeOK
  <2> QED BY <2>1, <2>2
<1>12. TypeOK'
  <2>1. /\ relayed' \in [Workers -> Nat] /\ split' \in [Workers -> BOOLEAN]
        /\ status_code' \in [Workers -> Statuses \cup {NoStatus}]
    BY <1>1, <1>2, <1>3, <1>4, <1>7, <1>20 DEF TypeOK, Assign
  <2>2. /\ total_size' \in [Workers -> Nat] /\ cacheable' \in [Workers -> BOOLEAN]
        /\ chunks' \in [Workers -> Nat]
    BY <1>1, <1>4, <1>11 DEF TypeOK, Assign
  <2> QED BY <1>1, <1>3, <2>1, <2>2 DEF TypeOK
<1>13. CacheHonest'
  BY <1>1, <1>3 DEF CacheHonest
\* ... and what the worker's locals are then.
<1>14. /\ relayed'[w] \in Nat \ {0}
       /\ relayed[w] + n <= MAX_OBJECT_SIZE => relayed'[w] = relayed[w] + n
       /\ relayed'[w] <= MAX_OBJECT_SIZE => relayed[w] + n <= MAX_OBJECT_SIZE
       /\ r.length # Endless => relayed'[w] <= r.length
       /\ status_code'[w] = st
       /\ ~split'[w] => ~split[w] /\ ~(relayed[w] = 0 /\ n < 2)
       /\ split[w] => split'[w]
       /\ total_size'[w] = IF c THEN size ELSE total_size[w]
       /\ cacheable'[w] <=> c /\ size <= MAX_OBJECT_SIZE
       /\ chunks'[w] = IF ~c THEN chunks[w]
                       ELSE IF size <= MAX_OBJECT_SIZE THEN chunks[w] + n ELSE 0
  <2>1. relayed'[w] = Counted(relayed[w] + n) /\ status_code'[w] = st
    BY <1>1, <1>2, <1>3 DEF TypeOK, Assign
  <2>2. split'[w] <=> split[w] \/ (relayed[w] = 0 /\ n < 2)
    BY <1>1, <1>3 DEF TypeOK, Assign
  <2>3. /\ total_size'[w] = IF c THEN size ELSE total_size[w]
        /\ cacheable'[w] <=> c /\ size <= MAX_OBJECT_SIZE
        /\ chunks'[w] = IF ~c THEN chunks[w]
                        ELSE IF size <= MAX_OBJECT_SIZE THEN chunks[w] + n ELSE 0
    BY <1>1, <1>11 DEF TypeOK, Assign
  <2>4. r.length # Endless => relayed'[w] <= r.length
    BY <1>3, <1>4, <1>6, <1>20, <2>1 DEF Within
  <2> QED BY <1>20, <2>1, <2>2, <2>3, <2>4
<1>15. cacheable'[w] =>
         /\ chunks'[w] = relayed'[w] /\ total_size'[w] = relayed'[w]
         /\ total_size'[w] <= MAX_OBJECT_SIZE
  BY <1>4, <1>8, <1>10, <1>14
<1>16. ~split'[w] => st = r.status
  <2>1. /\ relayed[w] = 0 => status_code[w] = NoStatus
        /\ relayed[w] > 0 /\ ~split[w] => status_code[w] = r.status
    BY <1>1, <1>3 DEF Fetching, r
  <2>2. CASE relayed[w] = 0
    BY <1>7, <1>14, <2>1, <2>2
  <2>3. CASE relayed[w] > 0
    BY <1>6, <1>7, <1>14, <2>1, <2>3
  <2> QED BY <1>4, <2>2, <2>3
<1>17. cacheable'[w] => r.status = OK \/ split'[w]
  <2> SUFFICES ASSUME c, ~split'[w] PROVE r.status = OK
    BY <1>14
  <2>1. st = r.status /\ cacheable[w] /\ ~split[w]
    BY <1>8, <1>14, <1>16
  <2>2. CASE status_code[w] = NoStatus
    BY <1>6, <1>9, <2>1, <2>2
  <2>3. CASE status_code[w] # NoStatus
    BY <1>1, <1>3, <2>1, <2>3 DEF Fetching, r
  <2> QED BY <2>2, <2>3
<1>18. (method[w] = "GET" /\ r.status = OK /\ ~split'[w] /\ relayed'[w] <= MAX_OBJECT_SIZE)
         => cacheable'[w]
  <2> SUFFICES ASSUME method[w] = "GET", r.status = OK, ~split'[w],
                      relayed'[w] <= MAX_OBJECT_SIZE
               PROVE  cacheable'[w]
    OBVIOUS
  <2>1. relayed[w] <= MAX_OBJECT_SIZE /\ ~split[w]
    BY <1>4, <1>14
  <2>2. cacheable[w]
    BY <1>1, <1>3, <2>1 DEF Fetching, r
  <2>3. c
    BY <1>9, <1>16, <2>2
  <2> QED BY <1>4, <1>10, <1>14, <2>2, <2>3
<1>19. ASSUME NEW v \in Workers PROVE Fetching(v)'
  <2>1. CASE v = w
    <3>1. /\ pc'[w] = "stream" /\ response'[w] = r /\ method'[w] = method[w]
          /\ key'[w] = key[w]
      BY <1>3 DEF r
    <3>2. relayed'[w] # 0 /\ (response'[w].length # Endless => relayed'[w] <= response'[w].length)
      BY <1>14, <3>1
    <3> QED BY <1>5, <1>14, <1>15, <1>16, <1>17, <1>18, <2>1, <3>1, <3>2 DEF Fetching
  <2>2. CASE v # w
    BY <1>1, <1>2, <1>3, <1>11, <2>2, OthersKeep DEF TypeOK, Assign
  <2> QED BY <2>1, <2>2
<1> QED BY <1>12, <1>13, <1>19, InvariantByWorker

\* What is stored is what was relayed, and cacheable vouches for it.
LEMMA FinishKeeps ==
  ASSUME IInv, NEW w \in Workers, finish(w)
  PROVE  IInv'
<1>1. TypeOK /\ CacheHonest /\ \A v \in Workers : Fetching(v)
  BY InvariantByWorker
<1>2. Return(w) /\ pc[w] = "finish"
  BY DEF finish
<1>3. CASE UNCHANGED cache
  <2>1. CacheHonest' /\ (cache \in [Keys -> Stored \cup {NotStored}])'
    BY <1>1, <1>3 DEF CacheHonest, TypeOK
  <2> QED BY <1>2, <2>1, ReturnKeeps, InvariantByWorker
<1>4. CASE ~UNCHANGED cache
  <2> DEFINE new == [response |-> response[w], bytes |-> chunks[w],
                     size |-> total_size[w], split |-> split[w]]
  <2>1. /\ cacheable[w] /\ chunks[w] > 0 /\ total_size[w] <= MAX_OBJECT_SIZE
        /\ cache' = [cache EXCEPT ![key[w]] = new]
    BY <1>4 DEF finish, Stores
  <2>2. /\ response[w] \in Responses /\ response[w].key = key[w] /\ key[w] \in Keys
        /\ chunks[w] = relayed[w] /\ total_size[w] = relayed[w]
        /\ response[w].length # Endless => relayed[w] <= response[w].length
        /\ relayed[w] # 0 => response[w].status = OK \/ split[w]
    BY <1>1, <1>2, <2>1 DEF Fetching
  <2>3. /\ chunks[w] \in Nat /\ total_size[w] \in Nat /\ split[w] \in BOOLEAN
        /\ response[w].length \in Int
    BY <1>1, <2>2, ResponseFacts DEF TypeOK
  <2>4. new \in Stored
    BY <2>2, <2>3 DEF Stored
  <2>5. (cache \in [Keys -> Stored \cup {NotStored}])'
    BY <1>1, <2>1, <2>2, <2>4 DEF TypeOK
  <2>6. CacheHonest'
    <3> SUFFICES ASSUME NEW k \in Keys, cache'[k] # NotStored
                 PROVE  /\ cache'[k].response.key = k
                        /\ cache'[k].bytes >= 1
                        /\ Within(cache'[k].response, cache'[k].bytes)
                        /\ cache'[k].size = cache'[k].bytes
                        /\ cache'[k].size <= MAX_OBJECT_SIZE
                        /\ cache'[k].response.status = OK \/ cache'[k].split
      BY DEF CacheHonest
    <3>1. CASE k = key[w]
      <4>1. /\ cache'[k].response = response[w] /\ cache'[k].bytes = chunks[w]
            /\ cache'[k].size = total_size[w] /\ cache'[k].split = split[w]
        BY <1>1, <2>1, <3>1 DEF TypeOK
      <4>2. Within(response[w], chunks[w])
        BY <2>2 DEF Within
      <4> QED BY <2>1, <2>2, <2>3, <3>1, <4>1, <4>2
    <3>2. CASE k # key[w]
      <4>1. cache'[k] = cache[k]
        BY <1>1, <2>1, <3>2 DEF TypeOK
      <4> QED BY <1>1, <4>1 DEF CacheHonest
    <3> QED BY <3>1, <3>2
  <2> QED BY <1>2, <2>5, <2>6, ReturnKeeps, InvariantByWorker
<1> QED BY <1>3, <1>4

LEMMA ForgetKeeps ==
  ASSUME IInv, NEW k \in Keys, forget(k)
  PROVE  IInv'
<1> USE DEF forget, request, fetch
<1>1. TypeOK /\ CacheHonest /\ \A v \in Workers : Fetching(v)
  BY InvariantByWorker
<1>2. TypeOK'
  BY <1>1 DEF TypeOK
<1>3. CacheHonest'
  BY <1>1 DEF CacheHonest, TypeOK
<1>4. \A v \in Workers : Fetching(v)'
  BY <1>1, OthersKeep
<1> QED BY <1>2, <1>3, <1>4, InvariantByWorker

-----------------------------------------------------------------------------
(* The theorems *)

LEMMA ForwarderInductive == IInv /\ [Next]_vars => IInv'
<1> SUFFICES ASSUME IInv, [Next]_vars PROVE IInv'
  OBVIOUS
<1>1. ASSUME NEW w \in Workers, Worker(w) PROVE IInv'
  BY <1>1, LookupKeeps, ServeKeeps, ConnectKeeps, SendKeeps, FailKeeps, RelayKeeps,
     RelayErrorKeeps, EndOfStreamKeeps, RecvErrorKeeps, FinishKeeps DEF Worker
<1>2. ASSUME NEW k \in Keys, forget(k) PROVE IInv'
  BY <1>2, ForgetKeeps
<1>3. CASE UNCHANGED vars
  <2> USE <1>3 DEF vars, request, fetch
  <2>1. TypeOK /\ CacheHonest /\ \A v \in Workers : Fetching(v)
    BY InvariantByWorker
  <2>2. TypeOK' /\ CacheHonest'
    BY <2>1 DEF TypeOK, CacheHonest
  <2>3. \A v \in Workers : Fetching(v)'
    BY <2>1, OthersKeep
  <2> QED BY <2>2, <2>3, InvariantByWorker
<1> QED BY <1>1, <1>2, <1>3 DEF Next

\* In every state of forward_http, whatever the workers do: IInv.
THEOREM ForwarderInvariant == Spec => []IInv
<1>1. Init => IInv
  BY ForwarderInit
<1> QED BY <1>1, ForwarderInductive, PTL DEF Spec

\* What cache.put is given is the origin's answer to that request, within the
\* limit, of the size it says, and an error only if its status line was cut.
THEOREM CacheIsHonest == Spec => []CacheHonest
<1>1. IInv => CacheHonest
  BY DEF IInv
<1> QED BY <1>1, ForwarderInvariant, PTL

\* response_chunks never runs ahead of or behind what the client was sent.
THEOREM ChunksAreWhatWasRelayed == Spec => []ChunksAreRelayed
<1>1. IInv => ChunksAreRelayed
  BY DEF IInv
<1> QED BY <1>1, ForwarderInvariant, PTL

\* Whatever the other workers do, forward_http stores a whole 200 response to
\* a GET that is within the limit.
THEOREM WholeResponsesAreStored == Spec => WholeResponsesStored
<1> DEFINE Kept(w) ==
      /\ finish(w) /\ CACHE_ENABLED
      /\ method[w] = "GET" /\ response[w].status = OK /\ ~split[w]
      /\ relayed[w] = response[w].length /\ relayed[w] <= MAX_OBJECT_SIZE
      => /\ cache'[key[w]].response = response[w]
         /\ cache'[key[w]].bytes = response[w].length
<1>1. ASSUME IInv, NEW w \in Workers PROVE Kept(w)
  <2> SUFFICES ASSUME finish(w), CACHE_ENABLED, method[w] = "GET",
                      response[w].status = OK, ~split[w],
                      relayed[w] = response[w].length, relayed[w] <= MAX_OBJECT_SIZE
               PROVE  /\ cache'[key[w]].response = response[w]
                      /\ cache'[key[w]].bytes = response[w].length
    OBVIOUS
  <2>1. TypeOK /\ Fetching(w) /\ pc[w] = "finish"
    BY <1>1, InvariantByWorker DEF finish
  <2>2. /\ cacheable[w] /\ response[w] \in Responses /\ key[w] \in Keys
        /\ chunks[w] = relayed[w] /\ total_size[w] = relayed[w]
    BY <2>1 DEF Fetching
  <2>3. chunks[w] > 0 /\ total_size[w] <= MAX_OBJECT_SIZE
    <3>1. relayed[w] \in Nat /\ relayed[w] # Endless
      BY <2>1 DEF TypeOK, Endless
    <3> QED BY <2>2, <3>1, ResponseFacts
  <2>4. cache' = [cache EXCEPT ![key[w]] =
                    [response |-> response[w], bytes |-> chunks[w],
                     size |-> total_size[w], split |-> split[w]]]
    BY <2>2, <2>3 DEF finish, Stores
  <2> QED BY <2>1, <2>2, <2>4 DEF TypeOK
<1>2. IInv => [\A w \in Workers : Kept(w)]_vars
  BY <1>1
<1> QED BY <1>2, ForwarderInvariant, PTL DEF WholeResponsesStored
=============================================================================
