------------------------------ MODULE Forwarder ------------------------------
(***************************************************************************)
(* src/forwarder.py, forward_http: one plain-HTTP request is answered from *)
(* the cache or relayed from the origin, chunk by chunk, and perhaps       *)
(* stored.  The workers share only the cache, taken here as the atomic     *)
(* store that LRUCache is shown to implement.                              *)
(*                                                                         *)
(* A response is a status, a key and a length in units: the first unit is  *)
(* the protocol version, the second the status code and its reason, the    *)
(* others headers and body; or it never ends, its origin sending on within *)
(* each recv's time-out.  TCP may cut it anywhere, and any recv or sendall *)
(* may raise OSError (a timeout or a reset).                               *)
(***************************************************************************)
EXTENDS Integers

CONSTANTS
  Workers,
  Keys,             \* (host, port, path)
  Methods,          \* of the requests offered; only "GET" is cached
  Statuses,         \* of the origin's responses
  Lengths,          \* of the origin's responses that end, in units
  BUFFER_SIZE,      \* units per recv
  MAX_OBJECT_SIZE,  \* in units
  MaxUnits,         \* bound: units relayed beyond it are counted modulo 2
  CACHE_ENABLED

OK == 200
NoStatus == 0       \* status_code is None
Endless == -1       \* the length of a response that never ends

ASSUME ForwarderAssumption ==
  /\ Statuses \subseteq Nat \ {NoStatus}
  /\ Lengths \subseteq Nat \ {0, 1}
  /\ BUFFER_SIZE \in Nat \ {0}
  /\ MAX_OBJECT_SIZE \in Nat
  /\ MaxUnits \in Nat /\ MaxUnits > MAX_OBJECT_SIZE
  /\ CACHE_ENABLED \in BOOLEAN

VARIABLES
  cache,        \* the response stored under each key
  pc,           \* where each worker stands in forward_http
  method, key,  \* its request
  response,     \* what the origin answers it
  relayed,      \* units of it that client_sock.sendall has delivered
  chunks,       \* units of it in response_chunks
  total_size,
  cacheable,
  status_code,
  split         \* observer: the first chunk did not hold the status line

request == <<method, key>>
fetch == <<response, relayed, chunks, total_size, cacheable,
           status_code, split>>
vars == <<cache, pc, request, fetch>>

Responses == [key : Keys, status : Statuses, length : Lengths \cup {Endless}]
NoResponse == [key |-> "none", status |-> NoStatus, length |-> 0]

\* The response r has at least n units.
Within(r, n) == r.length = Endless \/ n <= r.length

\* A cache entry: the joined chunks of a response, and "size".
Stored == [response : Responses, bytes : Nat, size : Nat, split : BOOLEAN]
NotStored == [response |-> NoResponse, bytes |-> 0, size |-> 0, split |-> FALSE]
PCs == {"idle", "serve", "connect", "send", "stream", "finish", "failed"}

Assign(f, w, x) == [f EXCEPT ![w] = x]

\* The locals of forward_http when it is not running.
NoFetch ==
  /\ response = [w \in Workers |-> NoResponse]
  /\ relayed = [w \in Workers |-> 0]
  /\ chunks = [w \in Workers |-> 0]
  /\ total_size = [w \in Workers |-> 0]
  /\ cacheable = [w \in Workers |-> FALSE]
  /\ status_code = [w \in Workers |-> NoStatus]
  /\ split = [w \in Workers |-> FALSE]

Init ==
  /\ cache = [k \in Keys |-> NotStored]
  /\ pc = [w \in Workers |-> "idle"]
  /\ method = [w \in Workers |-> "none"]
  /\ key = [w \in Workers |-> "none"]
  /\ NoFetch

\* forward_http returns, or raises to handle_client.
Return(w) ==
  /\ pc' = Assign(pc, w, "idle")
  /\ method' = Assign(method, w, "none")
  /\ key' = Assign(key, w, "none")
  /\ response' = Assign(response, w, NoResponse)
  /\ relayed' = Assign(relayed, w, 0)
  /\ chunks' = Assign(chunks, w, 0)
  /\ total_size' = Assign(total_size, w, 0)
  /\ cacheable' = Assign(cacheable, w, FALSE)
  /\ status_code' = Assign(status_code, w, NoStatus)
  /\ split' = Assign(split, w, FALSE)

-----------------------------------------------------------------------------
(* Before the response *)

\* The request arrives and, for a GET, the cache is looked up.
lookup(w, m, k) ==
  /\ pc[w] = "idle"
  /\ method' = Assign(method, w, m)
  /\ key' = Assign(key, w, k)
  /\ IF m = "GET" /\ CACHE_ENABLED /\ cache[k] # NotStored
     THEN pc' = Assign(pc, w, "serve")
     ELSE pc' = Assign(pc, w, "connect")
  /\ UNCHANGED <<cache, fetch>>

\* A hit: the stored bytes are sent, and an OSError is swallowed.
serve(w) ==
  /\ pc[w] = "serve"
  /\ Return(w)
  /\ UNCHANGED cache

connect(w) ==
  /\ pc[w] = "connect"
  /\ \E next \in {"send", "failed"} : pc' = Assign(pc, w, next)
  /\ UNCHANGED <<cache, request, fetch>>

\* The request is sent; the origin will answer with some response.
send(w) ==
  /\ pc[w] = "send"
  /\ \/ /\ \E s \in Statuses, n \in Lengths \cup {Endless} :
             response' = Assign(response, w,
                             [key |-> key[w], status |-> s, length |-> n])
        /\ cacheable' = Assign(cacheable, w, method[w] = "GET")
        /\ pc' = Assign(pc, w, "stream")
        /\ UNCHANGED <<relayed, chunks, total_size, status_code, split>>
     \/ /\ pc' = Assign(pc, w, "failed")
        /\ UNCHANGED fetch
  /\ UNCHANGED <<cache, request>>

\* Retrying_fail: the origin is tried again, without a limit.
Retrying_fail(w) ==
  /\ pc[w] = "failed"
  /\ pc' = Assign(pc, w, "connect")
  /\ UNCHANGED <<cache, request, fetch>>

\* 502 to the client, or an OSError that leaves forward_http.
fail(w) ==
  /\ pc[w] = "failed"
  /\ Return(w)
  /\ UNCHANGED cache

-----------------------------------------------------------------------------
(* The response *)

\* _parse_response_status of a chunk of n units after the first `from`.  Only
\* a chunk that starts the response and holds the status code says for sure;
\* "HTTP/1.1" alone has no second word, and the first line of any other chunk
\* is arbitrary text.
Parsed(r, from, n) ==
  IF from = 0
  THEN IF n >= 2 THEN {r.status} ELSE {NoStatus}
  ELSE {NoStatus} \cup Statuses

\* Sticky_cacheable: a status other than 200 does not clear cacheable.
Sticky_cacheable(c, first, s) == c

\* Cacheable after a chunk: `first` says that status_code was still None
\* before it and s is what was parsed.
still_cacheable(c, first, s) == c /\ ~(first /\ s # NoStatus /\ s # OK)

\* Strict_collect: an object of exactly MAX_OBJECT_SIZE is refused.
Strict_collect(w, n, c) ==
  LET size == total_size[w] + n
  IN  IF c
      THEN /\ total_size' = Assign(total_size, w, size)
           /\ cacheable' = Assign(cacheable, w, size < MAX_OBJECT_SIZE)
           /\ chunks' = Assign(chunks, w, IF size < MAX_OBJECT_SIZE
                                          THEN chunks[w] + n ELSE 0)
      ELSE /\ cacheable' = Assign(cacheable, w, FALSE)
           /\ UNCHANGED <<total_size, chunks>>

\* The accumulation of response_chunks: over the limit it is emptied, for good.
collect(w, n, c) ==
  LET size == total_size[w] + n
  IN  IF c
      THEN /\ total_size' = Assign(total_size, w, size)
           /\ cacheable' = Assign(cacheable, w, size <= MAX_OBJECT_SIZE)
           /\ chunks' = Assign(chunks, w, IF size <= MAX_OBJECT_SIZE
                                       THEN chunks[w] + n ELSE 0)
      ELSE /\ cacheable' = Assign(cacheable, w, FALSE)
           /\ UNCHANGED <<total_size, chunks>>

\* k units, counted exactly up to MaxUnits, where the loop no longer collects:
\* only whether it goes on matters from there.
Counted(k) ==
  IF k <= MaxUnits THEN k ELSE MaxUnits + ((k - MaxUnits) % 2)

\* recv returned n units and client_sock.sendall delivered them.
relay(w, n) ==
  /\ pc[w] = "stream"
  /\ Within(response[w], relayed[w] + n)
  /\ relayed' = Assign(relayed, w, Counted(relayed[w] + n))
  /\ \E s \in IF status_code[w] = NoStatus
              THEN Parsed(response[w], relayed[w], n) ELSE {status_code[w]} :
       /\ status_code' = Assign(status_code, w, s)
       /\ collect(w, n, still_cacheable(cacheable[w],
                                        status_code[w] = NoStatus, s))
  /\ split' = Assign(split, w, split[w] \/ (relayed[w] = 0 /\ n < 2))
  /\ UNCHANGED <<cache, pc, request, response>>

\* Eager_relay_error: the chunk is collected before it is sent.
Eager_relay_error(w, n) ==
  /\ pc[w] = "stream"
  /\ Within(response[w], relayed[w] + n)
  /\ pc' = Assign(pc, w, "finish")
  /\ collect(w, n, cacheable[w])
  /\ UNCHANGED <<cache, request, response, relayed, status_code, split>>

\* recv returned n units and client_sock.sendall raised OSError.
relay_error(w, n) ==
  /\ pc[w] = "stream"
  /\ Within(response[w], relayed[w] + n)
  /\ pc' = Assign(pc, w, "finish")
  /\ UNCHANGED <<cache, request, fetch>>

\* recv returned b"": the response is complete, or its origin has closed early.
end_of_stream(w) ==
  /\ pc[w] = "stream"
  /\ pc' = Assign(pc, w, "finish")
  /\ UNCHANGED <<cache, request, fetch>>

\* server_sock.recv raised OSError: a timeout or a reset.
recv_error(w) ==
  /\ pc[w] = "stream"
  /\ pc' = Assign(pc, w, "finish")
  /\ UNCHANGED <<cache, request, fetch>>

Stores(w) == cacheable[w] /\ chunks[w] > 0

\* After the loop: cache.put when anything cacheable was collected, and the
\* log entry with total_size.  put itself refuses objects over the limit.
finish(w) ==
  /\ pc[w] = "finish"
  /\ IF Stores(w) /\ CACHE_ENABLED /\ total_size[w] <= MAX_OBJECT_SIZE
     THEN cache' = [cache EXCEPT ![key[w]] =
                      [response |-> response[w], bytes |-> chunks[w],
                       size |-> total_size[w], split |-> split[w]]]
     ELSE UNCHANGED cache
  /\ Return(w)

\* The cache forgets: expiry, eviction, clear.
forget(k) ==
  /\ cache[k] # NotStored
  /\ cache' = [cache EXCEPT ![k] = NotStored]
  /\ UNCHANGED <<pc, request, fetch>>

Worker(w) ==
  \/ \E m \in Methods, k \in Keys : lookup(w, m, k)
  \/ serve(w)
  \/ connect(w)
  \/ send(w)
  \/ fail(w)
  \/ \E n \in 1..BUFFER_SIZE : relay(w, n) \/ relay_error(w, n)
  \/ end_of_stream(w)
  \/ recv_error(w)
  \/ finish(w)

Next == (\E w \in Workers : Worker(w)) \/ (\E k \in Keys : forget(k))

Spec == Init /\ [][Next]_vars

\* A worker's thread keeps running, and no single call blocks it for good: the
\* origin socket has a timeout of 10 s, the client socket one of 30 s.  Only
\* the arrival of a request is left to the environment.  Nothing bounds the
\* loop itself, in time or in size: that a response ends is not assumed.
Running(w) == Worker(w) /\ pc[w] # "idle"

FairSpec == Spec /\ \A w \in Workers : WF_vars(Running(w))

-----------------------------------------------------------------------------
(* Properties *)

TypeOK ==
  /\ cache \in [Keys -> Stored \cup {NotStored}]
  /\ pc \in [Workers -> PCs]
  /\ method \in [Workers -> Methods \cup {"none"}]
  /\ key \in [Workers -> Keys \cup {"none"}]
  /\ response \in [Workers -> Responses \cup {NoResponse}]
  /\ relayed \in [Workers -> Nat]
  /\ chunks \in [Workers -> Nat]
  /\ total_size \in [Workers -> Nat]
  /\ cacheable \in [Workers -> BOOLEAN]
  /\ status_code \in [Workers -> Statuses \cup {NoStatus}]
  /\ split \in [Workers -> BOOLEAN]

\* What is stored is what the origin answered to that request, is within the
\* size limit, has the size it says, and is an error only if its status line
\* arrived in pieces: no other way round the test of forward_http exists, in
\* whatever order chunks and exceptions come.  (That it is never an error is
\* OnlyOKCached, below, which the code does not keep.)
CacheHonest ==
  \A k \in Keys : cache[k] # NotStored =>
    LET c == cache[k]
    IN  /\ c.response.key = k /\ c.bytes >= 1 /\ Within(c.response, c.bytes)
        /\ c.size = c.bytes /\ c.size <= MAX_OBJECT_SIZE
        /\ c.response.status = OK \/ c.split

\* Until the loop ends, response_chunks holds exactly what the client has been
\* sent, or nothing: no chunk is stored that was not delivered, none is
\* skipped.
ChunksAreRelayed ==
  /\ TypeOK
  /\ \A w \in Workers :
       /\ pc[w] \in {"stream", "finish"} /\ cacheable[w] =>
             chunks[w] = relayed[w] /\ total_size[w] = relayed[w]
       /\ response[w].length # Endless => relayed[w] <= response[w].length

\* The strengthening that makes the two inductive and WholeResponsesStored
\* follow: the locals of forward_http before its loop ...
FreshInv ==
  \A w \in Workers :
    /\ pc[w] # "idle" => key[w] \in Keys
    /\ pc[w] \in {"idle", "connect", "send"} =>
         relayed[w] = 0 /\ chunks[w] = 0 /\ total_size[w] = 0
         /\ status_code[w] = NoStatus /\ ~split[w]

\* ... and in it: what the parsed status and cacheable say of the response.
StreamInv ==
  \A w \in Workers : pc[w] \in {"stream", "finish"} =>
    LET r == response[w]
    IN  /\ r \in Responses /\ r.key = key[w]
        /\ relayed[w] = 0 => status_code[w] = NoStatus
        /\ relayed[w] > 0 /\ ~split[w] => status_code[w] = r.status
        /\ cacheable[w] =>
             /\ total_size[w] <= MAX_OBJECT_SIZE
             /\ relayed[w] = 0 \/ r.status = OK \/ split[w]
        /\ (method[w] = "GET" /\ r.status = OK /\ ~split[w]
              /\ relayed[w] <= MAX_OBJECT_SIZE) => cacheable[w]

IInv == ChunksAreRelayed /\ CacheHonest /\ FreshInv /\ StreamInv

\* Only 200 responses are cached, as the README, the design document and the
\* loop's own comment say.  A status line cut by TCP escapes the test.
OnlyOKCached ==
  \A k \in Keys : cache[k] # NotStored => cache[k].response.status = OK

\* A 200 response to a GET that was relayed to its end and with its status line
\* in one piece is in the cache afterwards, whatever the other workers do, if it
\* is within the limit: one of exactly MAX_OBJECT_SIZE is stored, as proxy.conf
\* and the code have it and not as the design document's "size < max" does.
WholeResponsesStored ==
  [][\A w \in Workers :
       /\ finish(w) /\ CACHE_ENABLED
       /\ method[w] = "GET" /\ response[w].status = OK /\ ~split[w]
       /\ relayed[w] = response[w].length /\ relayed[w] <= MAX_OBJECT_SIZE
       => /\ cache'[key[w]].response = response[w]
          /\ cache'[key[w]].bytes = response[w].length]_vars

\* A request that a worker has begun to forward ends, whatever the client and
\* the other workers do and however connect, recv and sendall fail, unless the
\* origin's answer never ends: that one, streamed or trickled within the
\* time-out of each recv, may keep its worker for ever.
FetchEnds ==
  \A w \in Workers :
    pc[w] # "idle" ~> pc[w] = "idle" \/ response[w].length = Endless
=============================================================================
