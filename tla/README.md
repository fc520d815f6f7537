# A TLA+ model of the network proxy server

This directory holds TLA+ modules for the forward proxy in `src/`, TLC
configurations that check them on small instances, and TLAPS proofs about all of
them. Line numbers of the form `cache.py:170` are those of `src/src/`.
`PROJECT.json` says for every definition which lines it models, for every
property which mutation of the code breaks it, and lists the hazards each
property is for.

## 1. The system

A thread-per-connection HTTP/HTTPS proxy in Python. One process has

- the **main thread**: `start_proxy` accepts connections and submits each to a
  `ThreadPoolExecutor`; SIGINT and SIGTERM handlers run on this thread;
- the **workers** (`thread_pool_size`, 20): each runs `handle_client` for one
  connection at a time;
- two **relay threads** for each CONNECT tunnel;
- the **dashboard**: an HTTP server with a thread per request, `/events` among
  them, which stays open.

They share the limiter's registry and buckets, the response cache, the counters
and the ring buffer of the logger, each behind a lock of its own.

| Component | State | Operations | Interacts through |
|---|---|---|---|
| Server (`server.py`) | listening socket, executor and its queue | accept loop, `_graceful_shutdown` | `submit`; signals |
| Handler (`handler.py`) | `client_sock`, `server_sock`, `USERS` | `handle_client`: parse, rate limit, authenticate, filter, dispatch, clean up | every other component |
| Parser (`parser.py`) | bytes read | `recv_http_request`, `parse_http_request` | client socket |
| Rate limiter (`rate_limiter.py`) | `_buckets`, `TokenBucket`s, `_last_prune` | `is_allowed`, `get_retry_after`, pruning | registry lock, bucket locks |
| Forwarding (`forwarder.py`) | per request: chunks, size, `cacheable`, status | `forward_http`, `_build_outbound_request` | cache, both sockets |
| Tunnel (`forwarder.py`) | two threads, one chunk each | `tunnel` | both sockets |
| Cache (`cache.py`) | `OrderedDict`, `CacheStats` | `get`, `put`, `clear` | two locks |
| Logger (`logger.py`) | `metrics`, `log_ring_buffer`, log file | `log_event`, counter updates | three locks |
| Dashboard (`dashboard.py`) | per stream: `last_log_count` | `/events`: a snapshot, then new log entries | ring buffer, counters of four modules |
| Filter (`filter.py`) | two tables | `is_blocked`, `load_blocklist` | one lock, `blocked_domains.txt` |
| Authentication (`auth.py`) | the handler's `USERS` | `load_users`, `verify_password` | `users.txt` |
| User management (`tools/manage_users.py`) | `users.txt` | add, remove, migrate, each a process of its own | the file |
| Configuration, log schema, dashboard page | constants | - | - |

What is hard in it:

- **Interleaving.** `is_allowed` is three critical sections; the cache's two
  locks are nested and the statistics can be read in the middle of a `put`;
  counters are updated under a lock of their own between steps of the pipeline.
- **Failure half-way.** Every `recv` and `sendall` may raise. `handle_client`
  has one `except` for all stages, `forward_http` one for its relay loop.
- **Ordering.** TCP cuts messages anywhere: a header's last chunk has part of
  the body, a status line comes in two chunks. End of file of one direction of a
  tunnel races the data of the other.
- **Limits.** The executor's queue has no bound, descriptors do; the ring buffer
  stops growing; the cache evicts.
- **Shutdown.** The handler of a signal runs in the middle of the accept loop.
- **Files that change.** A command truncates `users.txt` before it writes it, in
  parts if it is long, and commands may overlap; the blocklist may be edited or
  removed while it is loaded; the proxy reads the users only when it starts.
- **Readers of everything.** A snapshot is put together out of counters under
  different locks, beside log entries under another.

What makes the components correct: an address is granted a burst and its refill
and no more, and a Retry-After is long enough (limiter); the store is bounded,
evicts in LRU order and its statistics are true (cache); what is cached was
answered by the origin and delivered (forwarding); each connection is closed
once and answered once, counted once, and reaches an origin only with all
verdicts passed (server, handler); a request is its header and body however it
is cut, and the origin can read what it is sent (parser, builder); end of file
follows all the data (tunnel); a stream has every entry once, in order, and its
snapshots do not contradict each other or the log (logger, dashboard); whom the
proxy lets in is whom the commands have left in the registry, and commands
change the users they are about and no others (authentication, user management);
a verdict is that of one version of the list (filter).

## 2. The modules

| Module | Models | Proofs |
|---|---|---|
| `RateLimiter` | `rate_limiter.py` | `RateLimiterProofs` |
| `LRUCache`, `AtomicCache` | `cache.py` and its abstract specification | `LRUCacheProofs` |
| `Forwarder` | `forward_http`, several workers and the store they share | `ForwarderProofs` |
| `ProxyServer` | `server.py` and `handler.py`, with the executor, the kernel and signals | `ProxyServerProofs` |
| `Tunnel` | `tunnel` and the cleanup after it | `TunnelProofs` |
| `Receiver` | `recv_http_request` | `IngressProofs` |
| `Request` | `parse_http_request`, `_build_outbound_request` | `IngressProofs` |
| `Ingress` | a request from the client's socket to the origin's: `Receiver` and `Request` | `IngressProofs` |
| `LogFeed` | `log_event`'s ring buffer and the log events of `/events` | `DashboardProofs` |
| `Dashboard` | `LogFeed` beside the workers that count and log, with the snapshots | `DashboardProofs` |
| `UserRegistry` | `manage_users.py`, `auth.py` and `_check_auth` | `AccessProofs` |
| `Filter` | `filter.py` | `AccessProofs` |
| `Access` | both files, the commands and the proxy that is restarted: `UserRegistry` and `Filter` | `AccessProofs` |

The `MC*` modules add the symmetry sets, the requests of `Ingress`, and the users
and lists of `Access`; the other modules are checked as they are.
Operators called `Unlimited_too_long`, `Hasty_prune` and the like stand before
the definition they would replace: each is a plausible bug, and the comment
above it says which.

How they fit together: `ProxyServer` is the composition. It takes the limiter,
the parser, the cache and the forwarding by the outcomes their own modules show
them to have (a request that is let through or not, a parse that answers, gives
`None` or raises, a response relayed whole, in part or not at all). `Ingress`
joins the reader to the parser, `Dashboard` the log to the counters, `Access`
the two files to the two checks that rest on them. `Forwarder` has a store from
which an entry may vanish at any time (`forget`), which is all that `LRUCache`
promises it.

### RateLimiter

Buckets are heap objects with indices, so that a worker keeps its bucket after
the registry has dropped it. A worker's steps are the code's critical sections:
`get_or_create_bucket`, `consume`, `maybe_prune` (the test without the lock),
`prune`, `get_retry_after`. Tokens are counted in units of `1/UNIT` and time in
ticks, so the arithmetic is exact where the code's is floating-point. Time moves
only by `Tick`. The burst properties are about *windows*: an observer opens a
window at any time (`mark`) and counts what is granted in it, `stray` counting
what came out of a bucket that the registry no longer had.

### LRUCache and AtomicCache

`order` and `cache` are the `OrderedDict`; `lock` is the cache's lock, and a
`put` or an expired `get` is several steps under it, between which the
statistics, which have their own lock, can be read. A value is stamped *before*
the lock is taken, as `put`'s caller does. Whoever holds the lock is a worker in
the middle of an operation; the other locks are held within one step.
`AtomicCache` is the store with `Put`, `Hit`, `Miss`, `Expire` and `Clear` as
single steps. The refinement mapping shows it, while a `put` holds
the lock, the store that the `put` is about to leave: `Put` takes effect when the
lock is taken, and the steps up to its release are stutters.

### Forwarder

One request per worker at a time. A response has a length in units, or none when
its origin sends on for ever, a status and a key; the first chunk may end inside
the status line, and a worker that has parsed nothing yet may parse the next one.
`relay` is recv, the tests of the status and the size, and `sendall`; `relay_error`
and `recv_error` leave the loop with what was collected, and `finish` stores it, as
`forwarder.py:290` does. An origin that closes early looks to the loop as one that
is done (`end_of_stream`). Units are counted exactly up to `MaxUnits`, where the
loop no longer collects, and modulo 2 from there, so that an endless response
moves on without end in finitely many states.

### ProxyServer

The main thread is `accept`, `submit_lock` and `submit` (the executor's lock and
its release are two steps, since a signal may come between them).
`graceful_shutdown` interrupts it at any point: it closes the listening socket
and then wants that lock, which is not reentrant. `cancel` empties the queue,
`exit` waits for the workers. A worker is `take`, then one action for each stage
of `handle_client` with its early returns, `except` for the `except` clause, and
`close` for `finally`. Each connection's contribution to the counters is kept
apart, so that the ledger can be checked per connection. The executor and the
kernel's accept queue and descriptor table are external. There is one SIGTERM,
and it comes before the loop has ended; connections still in the backlog when
the socket is closed are reset by the kernel; `accept` may fail at any
time, and must without a descriptor.

### Tunnel

For each direction a thread reads a chunk, writes it, and on end of file or
error shuts down the other side's writing half. The worker joins both with a
timeout and then `handle_client` closes the sockets. The peers write, finish or
reset whenever they like. The buffer's content is a count.

### Receiver, Request and Ingress

`Receiver` counts bytes: a client's header length (0 when it never ends it), its
Content-Length and the bytes it sends in all; TCP may cut them anywhere.
`Request` has a header block as a sequence of values for each name, because the
code disagrees on repeated lines: the reader takes the first Content-Length, the
parser's dict keeps the last value and the builder sends that one on. Hosts are
classes (an ordinary name, an IPv6 literal with or without brackets, none, a
name split in the wrong place): that is what `rsplit(":", 1)`, `int` and
`urlparse` tell apart. Paths and request lines are passed through and left out;
three of the nine hop-by-hop names stand for all. `Ingress` runs the one and
then the other: the client's length is that of the message's first
`Content-Length` line, and `received` hands over whatever came after the header.
`Request` has no specification of its own.

### LogFeed

Entries are numbers, in the order of `log_event`. A stream takes the ring's
length when it opens, without the lock, and each `poll` takes the last entries
by the growth of the length. The case `count < last_log_count` is in `fresh`,
as in the code, and never happens: the ring does not shrink.

### Dashboard

`Then` is `handle_client` and `forward_http` seen from outside: what a worker
counts (in small letters, as the counters are called) and logs (in capitals, the
action of the entry) and what it may count or log next. A stream's turn is
`read`, a group of counters under one lock at a time in the order of
`_build_snapshot`, then `publish` (the snapshot is sent and the ring polled) and
`send`. The cache is enabled: without it a lookup logs `CACHE_MISS` and counts
nothing (`cache.py:116`), so `LogsAreCounted` would not hold of misses.
The ten top hosts of a snapshot and the limiter's part of it are left out: with
more than ten hosts their requests do not add up to any counter.

### UserRegistry

`users.txt` is one flat sequence of units: characters, colons, line ends and the
pieces of a hash. So a line may be cut anywhere, and what two commands leave that
write over each other is read back as `load_users` reads it, by its line ends and
first colons (`Entries`), the end of a longer line included. A command is `load`
(which also makes the change in memory), `save` (`open` with `"w"`, which
truncates), `flush` (what is more than the buffer holds reaches the file in
parts), `write` (the rest, on closing), each write at the command's own offset
(`Overwrite`), and may be killed anywhere. `start` is the import of `handler.py`.
The observer `registry` says what the registry ought to be: it follows the
commands as if each were done at once, and after one that was killed at its file
it is what that file says.

Left out are the two comment lines at the head of the file, which a command
repeats in place; names with blanks, colons or `#`; a file that is read or cut in
the middle of a UTF-8 character; and a command that is begun on a file in which
overlapping ones have left a name that nobody was given (a bound in `load`). A hash
is three units; what is left of one that is cut in its last, the digest, still
knows its password (PBKDF2 with a shorter key, `auth.py:90`), and is taken for
the whole; without the digest it lets nobody in, and `pbkdf2` alone, or less, is
taken for a plaintext password.

### Filter

Names are sequences of labels, so a suffix of labels is `endswith("." + blocked)`;
networks and addresses are their leading bits, and which text is which is data.
A reload is the steps that its lock does not hide from the file's editor or, if
the lock were not there, from a worker: `exists`, `read` (or `read_error`), the
two assignments. `contents` has every version of the file, so that properties can
say which one a verdict is about.

### Access

A worker asks only when its credentials are among `Logins(USERS)`. `restart`
imports the modules again: both files are read, and what ran is gone.

## 3. Runs

Twelve runs; bounds are in the `.cfg` files. Those marked * state what a document
or a comment says and the code does not do (section 6).

| Run | Properties | Instance, and why it is enough |
|---|---|---|
| RateLimiter | TypeOK, BucketBurstBound, RegistryBurstBound, RetryAfterHonest | Two threads, two addresses, burst of 2, refill of 1.5 tokens a tick (a fraction, so rounding shows), clock to 3 with buckets stale after 2: creation, exhaustion, refill, prune and recreation all occur, and the races need two threads. 2.7M states. |
| RateLimiterIpBurst* | IpBurstBound | the same |
| LRUCache | TypeOK, CountersAgree, BytesAgree, CapacityHeld, EvictsLeastRecent, ImplementsAtomicCache | Two threads, three keys for two places, sizes up to one beyond the limit, entries that expire, 4 operations: overwrite, expiry, eviction and clear meet each other. 420k states. |
| Forwarder | CacheHonest, ChunksAreRelayed, WholeResponsesStored, FetchEnds | Two workers on one key (so that they race for the same entry), GET and POST, 200 and 404, responses of two units, which fit exactly, and endless ones, which are too large; the status line comes whole or in pieces. 330k states. |
| ForwarderStatus* | OnlyOKCached | as Forwarder, with responses of three units, too. |
| ProxyServer | OneOwner, Ledger, OneAnswer, OnlyAdmitted, ServiceEnds, DrainEnds | Two connections for one worker, so that one queues while the other is served or is in a tunnel; three descriptors, which two connections and an origin exhaust; a SIGTERM at any time. The proofs cover any number of each. 39k states. |
| ProxyServerShutdown* | ShutdownEnds | One connection, one worker. |
| Tunnel | CleanEnd, HalfClose, TunnelEnds | A buffer of two units; the proofs cover every size. 21k states. |
| Ingress | TypeOK, HeaderBound, BodyExact, ReceiveEnds, HostNamesDestination, HeadersPass, BodyFramed | A buffer of 2, a limit of 2, headers up to 6 (the longest that is accepted is 4), bodies up to 4, so that header and body take several recvs and the last of the header brings none, part or all of the body. Every kind of target with every kind of Host header, and every combination of repeated, missing and invalid Content-Length with other headers, X-Forwarded-For and Via among them. 820k states. |
| Dashboard | FeedInOrder, SnapshotCoherent, LogsAreCounted, FreshEntriesArrive | One stream (streams share nothing they write), two workers, so that one is between two counters while the other goes on, two requests, a ring of two and three entries, which overflow it. 340k states. |
| Access | TypeOK, Serial, OnlyGranted, VerdictOfOneVersion, ReloadTakesEffect | Two users with plaintext passwords, one of them not ASCII; two commands, one after the other, each cut after any unit, killed anywhere, and the proxy started at any time: a cut needs one command, what it does to the next a second. With a buffer of four units every line may reach the file in parts. Two lists that judge a host differently, and no list, two edits, two reloads; all changes together are bounded, a command counting twice, by four (a stale reload takes two reloads and an edit). 320k states. |
| LogFeedFull* | EntriesArrive | The same questions once the ring is full. |

What the properties say, in a sentence each, is in the comment above them.
Symmetry is used for workers, keys, addresses and reloads, in runs without
liveness only.

Deadlock is not checked where the system really stops: a server that was shut
down, a tunnel that was closed, a request that was read, a log to which
`MaxEvents` were written, commands and edits that are used up.

`TypeOK` is the first conjunct of `OneOwner`, `ChunksAreRelayed` and `FeedInOrder`.
That of `Filter` also says who holds the lock.

### Fairness

Fairness is assumed of the threads only, never of clients, origins, peers,
signals or viewers.

- `Forwarder`: a worker in the middle of a request goes on. `connect`, `recv` and
  `sendall` have a timeout (10 s on the origin's side, `forwarder.py:227`, 30 s on
  the client's, `parser.py:39`), so each returns or raises. Nothing bounds the loop
  itself, in time or in size, so `FetchEnds` has a way out for a response that does
  not end: its origin may keep the worker for ever.
- `ProxyServer`: the main thread, unless it waits for a connection or a lock, and
  each worker go on. `recv` has a timeout of 30 s (`parser.py:39`), a tunnel ends as
  `TunnelEnds` says, and an exchange with an origin as `FetchEnds` does: here it is
  assumed that responses end.
- `Tunnel`: the worker goes on, so its joins end, after 120 s at the latest; a
  thread that can move moves.
- `Receiver`, `Ingress`: the reader goes on; each `recv` ends within 30 s.
- `LogFeed`, `Dashboard`: a stream's loop goes on, between its sleeps. The run's
  liveness property has a way out once the ring is full, which `EntriesArrive`
  has not.

## 4. Proofs

`tlapm` checks every step of the eight `*Proofs` modules. They prove every
invariant and every action property of section 3 that the code meets, for all
values of the constants (those of the users' registry for one command at a time),
and four refinements. Each has an inductive invariant, three facts (`Init =>
IInv`, `IInv /\ [Next]_vars => IInv'`, `IInv =>` property), with a lemma for each
action, and the temporal conclusion. The invariants are defined beside the
properties they serve (those of `Access` in `AccessProofs`); TLC finds no
counterexample to any of them on the instance of its run, except that it cannot
enumerate the credentials of `RegistryInv`.

| Theorem | Says |
|---|---|
| `LimiterTypeCorrect`, `BucketsAreBounded`, `AddressesAreBounded`, `RetryAfterIsHonest` | `Spec => []TypeOK`, `[]BucketBurstBound`, `[]RegistryBurstBound`, `RetryAfterHonest`, for any threads, addresses, capacity and rate |
| `CacheTypeCorrect`, `CountersAlwaysAgree`, `BytesAlwaysAgree`, `CapacityAlwaysHeld`, `LeastRecentIsEvicted` | `[]TypeOK`, `[]CountersAgree`, `[]BytesAgree`, `[]CapacityHeld`, `EvictsLeastRecent`, for any threads, keys, sizes and capacity |
| `CacheIsAtomic` | `Spec => Atomic!Spec`: the cache implements `AtomicCache` |
| `CacheIsHonest`, `ChunksAreWhatWasRelayed`, `WholeResponsesAreStored` | `[]CacheHonest`, `[]ChunksAreRelayed`, `WholeResponsesStored`, for any workers, keys, responses, endless ones included, buffer and limit |
| `OneOwnerEach`, `CountersAgree`, `AnsweredOnce`, `OnlyAdmittedAreServed` | `[]OneOwner`, `[]Ledger`, `[]OneAnswer`, `[]OnlyAdmitted`, for any finite sets of connections and workers, backlog and descriptors |
| `EndsAreClean`, `HalfCloseIsRespected` | `[]CleanEnd`, `[]HalfClose`, for any buffer |
| `ReceiverTypeCorrect`, `HeaderIsBounded`, `BodyIsExact` | `[]TypeOK`, `[]HeaderBound`, `[]BodyExact`, for any buffer and limit |
| `IngressReads`, `HostIsDestination`, `HeadersArePassed`, `BodyIsFramed` | `IngressSpec` implements that of `Receiver`; `[]HostNamesDestination`, `[]HeadersPass`, `[]BodyFramed`, for any set of requests |
| `EveryFeedIsInOrder`, `SnapshotsAreCoherent`, `LogEntriesAreCounted` | `[]FeedInOrder`, `[]SnapshotCoherent`, `[]LogsAreCounted`, for any streams, finite set of workers, and ring |
| `AccessImplementsFilter`, `AccessImplementsRegistry` | `Spec => FilterSpec` and `Spec => RegistrySpec`: what runs together does to the blocklist and to the users what each module allows, and nothing else |
| `VerdictsAreOfOneVersion`, `ReloadsTakeEffect`, `LockIsHeldByOne` | `[]VerdictOfOneVersion`, `[]ReloadTakesEffect`, `[]FilterTypeOK` of `Access`, for any lists, hosts, workers and reloads |
| `CommandsAreSerial`, `NobodyElseIsLetIn`, `TypesAreCorrect` | `[]Serial`, `[]OnlyGranted` and `[]TypeOK` of `Access`, for any users, passwords, buffer and number of commands, if no two run at a time (`OneAtATime`) |

**Assumptions.** They are the named `ASSUME`s of the modules, and TLC evaluates
each on its run: constants are natural numbers, sizes are positive, and

- `StaleIsFull` (limiter), below;
- connections and workers are finitely many (`ServerAssumption`,
  `DashboardAssumption`): what holds a connection, and how many workers are
  between two counts, are cardinalities;
- lowering a label twice is lowering it once, no entry of a list is empty, and
  no thread both judges and reloads at a time (`FilterAssumption`);
- a command runs alone (`OneAtATime`, in the three theorems' statements): two that
  overlap break `Serial` and `OnlyGranted` (section 6); names and passwords are
  texts (`RegistryAssumption`);
- requests are those the abstraction tells apart (`MessagesAssumption`: targets
  and header blocks of the forms in `Request`); the bytes behind them are data.

**Arguments.**

- **Limiter.** The burst bounds are not inductive: a grant may use tokens that
  the bound says nothing about. `BucketBudget` and `RegistryBudget` add what
  *could* be granted at this moment to what *was*: a grant moves tokens from one
  to the other, `Tick` adds the refill to both sides, and a prune replaces a
  bucket by a fresh one. That last step needs `StaleIsFull`: a bucket that has
  been idle for `_STALE_THRESHOLD` would be full anyway. With the configured
  values, 20 tokens at 2 a second and 600 s, it holds; a rate below 1/30 would
  break it. Pruning races (section 6) are why `stray` grants are not included.
- **Cache.** `IInv` adds who may be where under the lock (`LockInv`), that whoever
  is about to store has a key (`KeyInv`), how full the store is at each stage of a
  `put` (`StageInv`) and that no key is twice in `order` (`NoKeyTwice`), from
  lemmas on removing and appending in sequences. `BytesInv` extends `BytesAgree`
  to the middle of a `put`: the entry being overwritten has already been
  subtracted. It rests on lemmas about sums over finite sets (the sum exists, is
  a number, does not depend on the order in which elements are taken, and loses
  a summand with its element). `RecentInv` says that `order` is the order of the
  last uses, but for a `put` that has moved its key and not assigned yet, which is
  then the last one; the first key is therefore the one `EvictsLeastRecent` asks
  for.
- **Refinement of `AtomicCache`.** `Settled` is the store that the `put` holding
  the lock will leave. Each step is shown to be one of `AtomicCache` or to leave
  `Settled`, the clock and the answer alone: a lookup is `Hit`, `Miss` or
  `Expire`; `put_remove` is `Put`, evictions included, with the value that
  `CallInv` says the caller stamped and no larger than the limit; `put_store`
  and `put_evict` are stutters.
- **Forwarding.** What a worker has not begun is empty (`FreshInv`), and the status
  it parsed and its `cacheable` agree with the response it is reading (`StreamInv`);
  so what `finish` stores is what the origin sent.
- **Server.** `OneOwner` counts places; `OwnerInv` says the same without
  counting, place by place, and the count follows from it. `BacklogInv` keeps the
  kernel's connections apart from the open ones, `MainInv` ties the main thread's
  place to what it holds, also while a signal handler runs, `FreshInv` says that
  nothing is counted before a worker takes a connection, and `Standing` what
  each stage of `handle_client` has counted, checked and answered so far. From
  these `Ledger`, `OneAnswer` and `OnlyAdmitted` are read off at every stage,
  also when it raises.
- **Tunnel.** `ThreadInv` and `WorkerInv` relate a thread's place to what it holds
  and the worker's place to the threads it has joined.
- **Reader and request.** `ReadInv` says that what was read and what remains add up
  to header and body. `MessageInv` ties the message to the bytes its client sends:
  the length the reader takes is that of the first `Content-Length` line. `Handled`
  says what the parser and the builder make of a request: which line of each name
  is copied, what is added to it, and, from the loop of the builder, where every
  one of them comes out, for header blocks of any such form. `BodyFramed` then
  compares the three readings of `Content-Length`, also where they disagree.
- **Log and dashboard.** The ring holds the newest entries without a gap
  (`RingInv`), and as long as a stream can find the ring grown, its count covers
  every entry it has had (`SeenInv`). The counters agree with one another up to
  the workers between two counts, and with the log up to those that have counted
  and not logged yet (`CountInv`, `LogInv`); each is a sum with a `Cardinality`,
  which a step changes by the one worker it moves. `SnapshotInv` carries this
  over to a snapshot that is read in two parts while the counters grow.
- **Blocklist.** Who is between taking and releasing the lock is alone (`LockInv`);
  so both tables are of the version in force but in the middle of a reload
  (`TablesInv`), what a reload has parsed is no older than what is in force
  (`Parsed`), and the first check still stands when the second is made
  (`BetweenChecks`). `NamesMatch` and `AddressesMatch` show that the code's loops
  over suffixes and networks find what the definition of `Blocked` asks for, on
  sequences of any length.
- **Registry.** `SaidJoined` says that a file of whole lines and what follows it
  have the entries of both, `LineSays` what a line says, cut after any unit.
  `ContentIsLines` puts the lines together (`Lines`), whatever the order of the
  names: a file cut anywhere says some users with their credentials and of one
  more the start of a credential (`ReadBack`). `NextPart` shows that a write at
  the command's offset continues the file, so while a command writes, the file
  is the start of its lines (`RegistryInv`). `Verdict` says that a credential
  lets in the password it stands for, and no other.

**Induction over data.** The library's induction theorems take an operator as a
parameter, which the provers cannot instantiate. Where an induction was needed
(sums over finite sets, the lines of a file) it is done over a set: the set of counterexamples, if it
is not empty, has a smallest element (`WFMin`, in `LRUCacheProofs` and `AccessProofs`). The recursive function inside
the library's `FlattenSeq` is shown to exist the same way (`FlattenDefined`).

**Only model-checked:** liveness under fairness (`FetchEnds`, `ServiceEnds`,
`DrainEnds`, `TunnelEnds`, `ReceiveEnds`, `FreshEntriesArrive`), for which
`tlapm` has no `ENABLED`. What the runs of section 6 refute is false of the code, so
there is nothing to prove.

## 5. What is not modelled

- `config_loader.py` reads its file once; its values are the `CONSTANT`s.
- `log_schema.py` and `dashboard_ui.py` format and contain no state.
- The log file, its rotation and formatters. File and ring have different locks,
  so two entries may be in a different order in each (`logger.py:204`); nothing
  promises one order.
- `/`, `/api/metrics`, `/api/logs` and `manage_users.py list` read once and format.
- PBKDF2 and `ipaddress` are library code: a hash tells passwords apart, and
  what is a network is data.
- The counters of hosts (`logger.py:125`): a snapshot has the ten largest only.
- A thread that cannot be started (`RuntimeError` of `Thread.start`,
  `forwarder.py:82`), and a browser that stops reading, so that its stream's `write`
  blocks (`dashboard.py:152`).
- A user name with a colon is read back as another name (`manage_users.py:43`);
  names in the model have none.
- Wording of responses and log lines; byte contents of headers and bodies.

## 6. Where the code and its documentation disagree

The runs marked * show four of these; `PROJECT.json` quotes both sides.

| Run | What happens |
|---|---|
| RateLimiterIpBurst | A prune between the lookup of a bucket and `consume` gives an address a second burst (`rate_limiter.py:147`). |
| ForwarderStatus | A status line cut by TCP is not parsed, and the response is cached whatever its status (`forwarder.py:270`). |
| ProxyServerShutdown | A signal inside `submit` deadlocks the main thread on the executor's lock (`server.py:55`). |
| LogFeedFull | Once the ring is full no stream sends an entry any more (`dashboard.py:126`). |

The models have the following behaviours, too, because the code has them. No run
is about them: the properties state what holds in spite of them, and say in
their preconditions where they step aside.

- Two threads may pass the unlocked test in `_maybe_prune` and both prune within
  a minute (`maybe_prune`, `prune` of `RateLimiter`). `RegistryBurstBound` shows
  that a prune does no harm at any time.
- A response of exactly `max_object_size` is cached (`forwarder.py:277`, and
  `put`), as `proxy.conf:36` says; `docs/design.md:105` and `:226` say `size <
  max` (`collect`; `WholeResponsesStored` includes the limit).
- A response cut by an error is cached as far as it came (`forwarder.py:282`); so
  `CacheHonest` has `bytes` up to the length, not equal to it.
- Bytes of a response that is not cacheable are relayed but not counted in
  `total_size`, which is logged (`forwarder.py:275`); `ChunksAreRelayed` is about
  cacheable ones.
- Any `OSError` of `accept`, such as want of a descriptor, ends the accept loop
  (`server.py:90`; `accept_error`). `ServiceEnds` holds for what was submitted.
- A saturated pool queues connections, as `docs/design.md:156` says; nobody gets
  the 503 of `config/proxy.conf:14` (`submit`).
- A target on which `urlparse` raises gets no 400, the connection is closed
  (`handler.py:223`; `except`).
- A body cut by a timeout is returned as a request (`parser.py:67`; `cut` in
  `BodyExact` and `BodyFramed`).
- Of `Content-Length` lines that disagree the last is announced to the origin
  and the first one's bytes, or a few more, are sent (`parser.py:61`,
  `forwarder.py:151`; `BodyFramed` says what holds then).
- A chunked body is forwarded without `Transfer-Encoding`, and only the part
  that came with the header, though the builder "forwards the request body"
  (`forwarder.py:97`, `:121`; `forwarded_body`). `BodyFramed` is about
  `Content-Length`.
- A client's `X-Forwarded-For` line is copied, and sent again with its address
  appended, where `docs/design.md:340` says "appends"; `Via` likewise
  (`forwarder.py:126`; `HeadersPass` has both lines).
- The `Host` line lacks the port 80 or 443 under the other scheme, and the brackets
  of an IPv6 literal, though it is to be "present and correct" (`forwarder.py:113`;
  `HostLine`). `HostNamesDestination` says for which hosts and ports it is.
- A command that is killed at `users.txt` leaves its first lines, the last one of
  them cut (`manage_users.py:33`; `Torn` in `Serial`); what is left of a credential
  may be a password that nobody gave (`OnlyGranted`).
- Two commands that overlap write over each other, though `_save_users` is to
  write "the full user registry" (`manage_users.py:32`); behind the shorter
  one's lines the end of a longer line becomes another user, as `ice` of
  `malice` (`Overwrite`, with more than one of `Admins`). `Serial` and
  `OnlyGranted` are of one command at a time.
- A plaintext password that is not ASCII lets nobody in, though plaintext is
  "supported" until it is migrated (`auth.py:59`, `:68`; `verify_password`,
  `Usable`).
- A removed user is let in until the next start (`handler.py:42`; `due`).
- A snapshot may show a hit in the log that `cached` does not count yet
  (`forwarder.py:201`).

## 7. Plan

Done, in this order: the limiter and the cache (shared state under locks, with
proofs), the forwarding, the server with the handler, the log feed, the tunnel,
the reader, the request; then the users and the blocklist with the proxy that
uses them, the reader with the request, and the counters with the dashboard.

Their safety and action properties are proved (section 4).

Next:

1. Composition: `Forwarder` over `AtomicCache` in place of `forget`, so that
   `CacheHonest` is said of the bounded store itself.
2. `RateLimiter` as an implementation of an abstract budget for each address,
   with the stray grants of a prune as the only difference.
