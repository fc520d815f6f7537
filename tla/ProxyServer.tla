----------------------------- MODULE ProxyServer -----------------------------
(***************************************************************************)
(* src/server.py and src/handler.py: the main thread accepts connections   *)
(* and submits them to a ThreadPoolExecutor, whose workers take them       *)
(* through handle_client; SIGTERM interrupts the main thread.              *)
(*                                                                         *)
(* The rate limiter, the credentials, the blocklist, the cache and the     *)
(* origin appear by the outcomes they can have.  The executor and the      *)
(* kernel (accept queue, file descriptors) are external, and modelled as   *)
(* server.py uses them.                                                    *)
(***************************************************************************)
EXTENDS Integers, SequencesExt

CONSTANTS
  Conns,       \* client connections
  Workers,     \* the POOL_SIZE threads of the executor
  MAX_CONN,    \* listen() backlog
  MAX_FILES    \* file descriptors the process has for sockets

NoConn == "none"

ASSUME ServerAssumption ==
  /\ IsFiniteSet(Conns) /\ IsFiniteSet(Workers)
  /\ NoConn \notin Conns
  /\ MAX_CONN \in Nat \ {0}
  /\ MAX_FILES \in Nat \ {0}

VARIABLES
  listening,  \* _server_socket is open
  backlog,    \* connections the kernel has established
  main,       \* where the main thread stands
  hand,       \* its local client_sock
  queue,      \* the executor's work queue
  pc,         \* where each worker stands in handle_client
  job,        \* its client_sock
  origin,     \* it has a server_sock
  reply       \* the error reply it is about to send

\* Per connection.
VARIABLES
  seen,       \* observer: it has tried to connect
  open,       \* the connections whose client_sock the proxy has open
  request,    \* what it sent
  metrics,    \* what it contributed to the counters of logger.metrics
  replies     \* observer: the responses delivered to it

server == <<listening, backlog, main, hand, queue>>
threads == <<pc, job, origin, reply>>
clients == <<seen, open, request, metrics, replies>>
vars == <<server, threads, clients>>

Counters == {"total", "allowed", "blocked", "cached", "rate_limited", "errors"}
Errors == {"400", "403", "407", "429", "502"}
NoReply == "none"
\* What a client gets: an error of the proxy, the 200 of a CONNECT, (part of)
\* the origin's response or a cached one.
Responses == Errors \cup {"established", "relayed", "cached"}
\* What a client sends: nothing, something parse_http_request answers None
\* for, something it raises on, or a request.
Garbage == {"empty", "malformed", "raising"}
Requests == [connect : BOOLEAN, authentic : BOOLEAN, blocked : BOOLEAN]
NoRequest == [kind |-> "none"]
Received == {NoRequest} \cup [kind : Garbage] \cup
            [kind : {"request"}, asks : Requests]
MainPCs == {"accept", "accepted", "submitting", "stopped", "deadlocked",
            "cancelling", "joining", "exited"}
PCs == {"idle", "receive", "limit", "authenticate", "filter", "dispatch",
        "tunnel", "stream", "reply", "count_error", "except", "close"}

Init ==
  /\ listening = TRUE
  /\ backlog = <<>>
  /\ main = "accept"
  /\ hand = NoConn
  /\ queue = <<>>
  /\ pc = [w \in Workers |-> "idle"]
  /\ job = [w \in Workers |-> NoConn]
  /\ origin = [w \in Workers |-> FALSE]
  /\ reply = [w \in Workers |-> NoReply]
  /\ seen = {}
  /\ open = {}
  /\ request = [c \in Conns |-> NoRequest]
  /\ metrics = [c \in Conns |-> [m \in Counters |-> 0]]
  /\ replies = [c \in Conns |-> <<>>]

-----------------------------------------------------------------------------
(* The main thread *)

\* Sockets that hold a file descriptor.
Files == Cardinality(open) + Cardinality({w \in Workers : origin[w]})

\* accept() with a descriptor left.
accept ==
  /\ main = "accept" /\ backlog # <<>>
  /\ Files < MAX_FILES
  /\ hand' = Head(backlog)
  /\ backlog' = Tail(backlog)
  /\ open' = open \cup {Head(backlog)}
  /\ main' = "accepted"
  /\ UNCHANGED <<listening, queue, threads, seen, request, metrics, replies>>

\* accept() raises OSError, as it must without one and may with one left (files
\* and the dashboard's streams take some, too; a client may have gone):
\* start_proxy returns and the interpreter waits for the workers, the
\* listening socket still open.
accept_error ==
  /\ main = "accept" /\ backlog # <<>>
  /\ main' = "stopped"
  /\ UNCHANGED <<listening, backlog, hand, queue, threads, clients>>

\* submit takes the executor's shutdown lock ...
submit_lock ==
  /\ main = "accepted"
  /\ main' = "submitting"
  /\ UNCHANGED <<listening, backlog, hand, queue, threads, clients>>

\* ... puts the work item into the queue and gives the lock back.
submit ==
  /\ main = "submitting"
  /\ queue' = Append(queue, hand)
  /\ hand' = NoConn
  /\ main' = "accept"
  /\ UNCHANGED <<listening, backlog, threads, clients>>

\* _graceful_shutdown, run by the main thread wherever SIGTERM finds it: the
\* listening socket is closed and the kernel resets its backlog; then
\* shutdown takes the executor's lock, which submit may be holding.
graceful_shutdown ==
  /\ main \in {"accept", "accepted", "submitting"}
  /\ listening' = FALSE
  /\ backlog' = <<>>
  /\ main' = IF main = "submitting" THEN "deadlocked" ELSE "cancelling"
  /\ UNCHANGED <<hand, queue, threads, clients>>

\* cancel_futures=True: a work item leaves the queue, and its socket is closed
\* when the item is freed.
cancel ==
  /\ main = "cancelling" /\ queue # <<>>
  /\ queue' = Tail(queue)
  /\ open' = open \ {Head(queue)}
  /\ UNCHANGED <<listening, backlog, main, hand, threads, seen, request,
                 metrics, replies>>

cancelled ==
  /\ main = "cancelling" /\ queue = <<>>
  /\ main' = "joining"
  /\ UNCHANGED <<listening, backlog, hand, queue, threads, clients>>

\* Every worker has been joined, by shutdown(wait=True) or by the interpreter
\* after an OSError; the process ends, and with it a client_sock in hand.
exit ==
  /\ main \in {"joining", "stopped"}
  /\ queue = <<>> /\ \A w \in Workers : pc[w] = "idle"
  /\ main' = "exited"
  /\ listening' = FALSE
  /\ backlog' = <<>>
  /\ open' = open \ {hand}
  /\ hand' = NoConn
  /\ UNCHANGED <<queue, threads, seen, request, metrics, replies>>

-----------------------------------------------------------------------------
(* handle_client *)

Goto(w, label) == pc' = [pc EXCEPT ![w] = label]
Sends(w, status) == reply' = [reply EXCEPT ![w] = status]
Increment(w, counter) == metrics' = [metrics EXCEPT ![job[w]][counter] = @ + 1]
\* client_sock.sendall(r) succeeds.
Delivers(w, r) == replies' = [replies EXCEPT ![job[w]] = Append(@, r)]

\* A free worker takes the oldest work item.
take(w) ==
  /\ pc[w] = "idle" /\ main # "exited"
  /\ queue # <<>>
  /\ queue' = Tail(queue)
  /\ job' = [job EXCEPT ![w] = Head(queue)]
  /\ Goto(w, "receive")
  /\ UNCHANGED <<listening, backlog, main, hand, origin, reply, clients>>

\* recv_http_request and parse_http_request, and for a request the "total"
\* counter and record_host.
receive(w) ==
  /\ pc[w] = "receive"
  /\ \/ \E kind \in Garbage :
          /\ request' = [request EXCEPT ![job[w]] = [kind |-> kind]]
          /\ \/ kind = "empty" /\ Goto(w, "close") /\ UNCHANGED reply
             \/ kind = "malformed" /\ Goto(w, "reply") /\ Sends(w, "400")
             \/ kind = "raising" /\ Goto(w, "except") /\ UNCHANGED reply
          /\ UNCHANGED metrics
     \/ \E asks \in Requests :
          /\ request' = [request EXCEPT ![job[w]] = [kind |-> "request",
                                                     asks |-> asks]]
          /\ Increment(w, "total")
          /\ Goto(w, "limit")
          /\ UNCHANGED reply
  /\ UNCHANGED <<server, job, origin, seen, open, replies>>

\* rate_limiter.is_allowed says yes or no.
rate_limit(w) ==
  /\ pc[w] = "limit"
  /\ \/ Goto(w, "authenticate") /\ UNCHANGED <<reply, metrics>>
     \/ Increment(w, "rate_limited") /\ Sends(w, "429") /\ Goto(w, "reply")
  /\ UNCHANGED <<server, job, origin, seen, open, request, replies>>

\* Lenient_check_auth: a failure of the comparison lets the client in.
Lenient_check_auth(w) ==
  /\ pc[w] = "authenticate"
  /\ IF request[job[w]].asks.authentic
     THEN Goto(w, "filter") /\ UNCHANGED reply
     ELSE \/ Sends(w, "407") /\ Goto(w, "reply")
          \/ Goto(w, "filter") /\ UNCHANGED reply
  /\ UNCHANGED <<server, job, origin, clients>>

\* _check_auth, which raises on some credentials that are not right.
check_auth(w) ==
  /\ pc[w] = "authenticate"
  /\ IF request[job[w]].asks.authentic
     THEN Goto(w, "filter") /\ UNCHANGED reply
     ELSE \/ Sends(w, "407") /\ Goto(w, "reply")
          \/ Goto(w, "except") /\ UNCHANGED reply
  /\ UNCHANGED <<server, job, origin, clients>>

filter(w) ==
  /\ pc[w] = "filter"
  /\ IF request[job[w]].asks.blocked
     THEN Increment(w, "blocked") /\ Sends(w, "403") /\ Goto(w, "reply")
     ELSE Increment(w, "allowed") /\ Goto(w, "dispatch") /\ UNCHANGED reply
  /\ UNCHANGED <<server, job, origin, seen, open, request, replies>>

\* Falling_after: the return after the 429 is missing.
Falling_after(status) ==
  CASE status = "429" -> "authenticate"
    [] status \in {"400", "502"} -> "count_error"
    [] OTHER -> "close"

\* Where handle_client goes on once an error reply is sent.
after(status) == IF status \in {"400", "502"} THEN "count_error" ELSE "close"

\* The sendall of an error reply, in handle_client or in forward_http.
send_error(w) ==
  /\ pc[w] = "reply"
  /\ \/ Delivers(w, reply[w]) /\ Goto(w, after(reply[w]))
     \/ Goto(w, "except") /\ UNCHANGED replies
  /\ Sends(w, NoReply)
  /\ UNCHANGED <<server, job, origin, seen, open, request, metrics>>

\* Double_count_error: falls into the except clause, which counts it again.
Double_count_error(w) ==
  /\ pc[w] = "count_error"
  /\ Increment(w, "errors")
  /\ Goto(w, "except")
  /\ UNCHANGED <<server, job, origin, reply, seen, open, request, replies>>

count_error(w) ==
  /\ pc[w] = "count_error"
  /\ Increment(w, "errors")
  /\ Goto(w, "close")
  /\ UNCHANGED <<server, job, origin, reply, seen, open, request, replies>>

Asks(w, connect) == pc[w] = "dispatch" /\ request[job[w]].asks.connect = connect

\* The origin is reached; socket() needs a file descriptor.
dial(w) == Files < MAX_FILES /\ origin' = [origin EXCEPT ![w] = TRUE]

\* A CONNECT: the tunnel is up.
open_tunnel(w) ==
  /\ Asks(w, TRUE)
  /\ dial(w)
  /\ Delivers(w, "established")
  /\ Goto(w, "tunnel")
  /\ UNCHANGED <<server, job, reply, seen, open, request, metrics>>

\* Endless_end_tunnel: the joins have no timeout and the peers stay.
Endless_end_tunnel(w) == pc[w] = "tunnel" /\ UNCHANGED vars

\* Both directions of the tunnel have ended, or the joins timed out.
end_tunnel(w) ==
  /\ pc[w] = "tunnel"
  /\ Goto(w, "close")
  /\ UNCHANGED <<server, job, origin, reply, clients>>

\* forward_http answers from the cache and swallows an OSError of sendall.
cache_hit(w) ==
  /\ Asks(w, FALSE)
  /\ Increment(w, "cached")
  /\ Delivers(w, "cached") \/ UNCHANGED replies
  /\ Goto(w, "close")
  /\ UNCHANGED <<server, job, origin, reply, seen, open, request>>

\* forward_http reaches the origin and sends the request.
forward(w) ==
  /\ Asks(w, FALSE)
  /\ dial(w)
  /\ Goto(w, "stream")
  /\ UNCHANGED <<server, job, reply, clients>>

\* Any OSError before the response: no descriptor, no connection, a failed
\* send, for a CONNECT also to the client.
unreachable(w) ==
  /\ pc[w] = "dispatch"
  /\ dial(w) \/ UNCHANGED origin
  /\ Sends(w, "502") /\ Goto(w, "reply")
  /\ UNCHANGED <<server, job, clients>>

\* Anything else than an OSError, such as a port that connect refuses.
dispatch_error(w) ==
  /\ pc[w] = "dispatch"
  /\ dial(w)
  /\ Goto(w, "except")
  /\ UNCHANGED <<server, job, reply, clients>>

\* The loop of forward_http ends, with whatever was relayed.
end_forward(w) ==
  /\ pc[w] = "stream"
  /\ Delivers(w, "relayed") \/ UNCHANGED replies
  /\ Goto(w, "close")
  /\ UNCHANGED <<server, job, origin, reply, seen, open, request, metrics>>

\* except Exception
except(w) ==
  /\ pc[w] = "except"
  /\ Increment(w, "errors")
  /\ Goto(w, "close")
  /\ UNCHANGED <<server, job, origin, reply, seen, open, request, replies>>

\* Leaking_close: a bare return that skips the finally clause.
Leaking_close(w) ==
  /\ pc[w] = "close"
  /\ job' = [job EXCEPT ![w] = NoConn]
  /\ origin' = [origin EXCEPT ![w] = FALSE]
  /\ Goto(w, "idle")
  /\ UNCHANGED <<server, reply, seen, open, request, metrics, replies>>

\* The finally clauses: server_sock and client_sock are closed.
close(w) ==
  /\ pc[w] = "close"
  /\ open' = open \ {job[w]}
  /\ job' = [job EXCEPT ![w] = NoConn]
  /\ origin' = [origin EXCEPT ![w] = FALSE]
  /\ Goto(w, "idle")
  /\ UNCHANGED <<server, reply, seen, request, metrics, replies>>

-----------------------------------------------------------------------------
(* The clients and the specification *)

connect(c) ==
  /\ c \notin seen
  /\ seen' = seen \cup {c}
  /\ backlog' = IF listening /\ Len(backlog) < MAX_CONN
                THEN Append(backlog, c) ELSE backlog
  /\ UNCHANGED <<listening, main, hand, queue, threads, open, request,
                 metrics, replies>>

Main ==
  \/ accept \/ accept_error
  \/ submit_lock \/ submit
  \/ cancel \/ cancelled \/ exit

Worker(w) ==
  \/ take(w) \/ receive(w)
  \/ rate_limit(w) \/ check_auth(w) \/ filter(w)
  \/ send_error(w) \/ count_error(w)
  \/ open_tunnel(w) \/ end_tunnel(w)
  \/ cache_hit(w) \/ forward(w) \/ unreachable(w)
  \/ dispatch_error(w) \/ end_forward(w)
  \/ except(w) \/ close(w)

Next ==
  \/ Main
  \/ graceful_shutdown
  \/ \E w \in Workers : Worker(w)
  \/ \E c \in Conns : connect(c)

Spec == Init /\ [][Next]_vars

\* The main thread and the workers keep running: every socket call of
\* handle_client has a timeout, a tunnel is joined for 240 s at most, and a
\* response is finite.  Nothing makes a client connect or a signal arrive.
FairSpec == Spec /\ WF_vars(Main) /\ \A w \in Workers : WF_vars(Worker(w))

-----------------------------------------------------------------------------
(* Properties *)

TypeOK ==
  /\ listening \in BOOLEAN
  /\ backlog \in Seq(Conns) /\ Len(backlog) <= MAX_CONN
  /\ main \in MainPCs
  /\ hand \in Conns \cup {NoConn}
  /\ queue \in Seq(Conns)
  /\ pc \in [Workers -> PCs]
  /\ job \in [Workers -> Conns \cup {NoConn}]
  /\ origin \in [Workers -> BOOLEAN]
  /\ reply \in [Workers -> Errors \cup {NoReply}]
  /\ seen \in SUBSET Conns
  /\ open \in SUBSET Conns
  /\ request \in [Conns -> Received]
  /\ metrics \in [Conns -> [Counters -> Nat]]
  /\ replies \in [Conns -> Seq(Responses)]

Places(c) ==
  Cardinality({w \in Workers : job[w] = c})
  + Cardinality({i \in 1..Len(queue) : queue[i] = c})
  + (IF hand = c THEN 1 ELSE 0)

\* Every socket the proxy has open is in exactly one place: with the main
\* thread, in the queue or with one worker.  So no connection leaks, none is
\* handled twice, and when the process has exited none is left.
OneOwner ==
  /\ TypeOK
  /\ \A c \in Conns : Places(c) = IF c \in open THEN 1 ELSE 0
  /\ main = "exited" => open = {}

\* The counters, whenever the dashboard reads them: a connection is at most
\* one request and one error, every verdict and every cached answer counts
\* among the total and the allowed.
Ledger ==
  \A c \in Conns : LET m == metrics[c] IN
    /\ m.total <= 1 /\ m.errors <= 1
    /\ m.allowed + m.blocked + m.rate_limited <= m.total
    /\ m.cached <= m.allowed

\* What the counters and the one response say of a connection that is over:
\* whoever got none had sent nothing, was counted as an error or lost a
\* relayed response.
Settled(c) ==
  LET m == metrics[c] IN
    /\ replies[c] = <<>> =>
         m.errors = 1 \/ m.allowed = 1 \/ request[c].kind = "empty"
    /\ replies[c] = <<"400">> => m.errors = 1 /\ m.total = 0
    /\ replies[c] = <<"502">> => m.errors = 1 /\ m.allowed = 1
    /\ replies[c] = <<"403">> => m.blocked = 1
    /\ replies[c] = <<"429">> => m.rate_limited = 1
    /\ m.errors # 0 => replies[c] \in {<<>>, <<"400">>, <<"502">>}

\* A client gets one response at most, and when its connection is over the
\* counters agree with it.
OneAnswer ==
  \A c \in Conns :
    /\ Len(replies[c]) <= 1
    /\ request[c] # NoRequest /\ c \notin open => Settled(c)

Served(c) ==
  \/ \E w \in Workers : job[w] = c /\ origin[w]
  \/ \E i \in 1..Len(replies[c]) : replies[c][i] \notin Errors

Admitted(c) ==
  /\ request[c].kind = "request"
  /\ request[c].asks.authentic /\ ~request[c].asks.blocked
  /\ metrics[c].rate_limited = 0

\* An origin is contacted, and a cached response handed out, only for a
\* request that the limiter let through, with credentials, to a host that is
\* not blocked.
OnlyAdmitted == \A c \in Conns : Served(c) => Admitted(c)

-----------------------------------------------------------------------------
(* The strengthening that makes these inductive *)

\* Who holds which connection, without counting.
OwnerInv ==
  /\ \A w \in Workers : pc[w] = "idle" <=> job[w] = NoConn
  /\ \A v, w \in Workers : job[v] = job[w] => v = w \/ job[w] = NoConn
  /\ \A i, j \in 1..Len(queue) : queue[i] = queue[j] => i = j
  /\ \A i \in 1..Len(queue) : queue[i] # hand /\ \A w \in Workers : queue[i] # job[w]
  /\ \A w \in Workers : hand = job[w] => hand = NoConn
  /\ \A c \in Conns :
       c \in open <=> \/ hand = c
                      \/ \E i \in 1..Len(queue) : queue[i] = c
                      \/ \E w \in Workers : job[w] = c

\* The kernel keeps a connection once, until it is accepted.
BacklogInv ==
  /\ \A i, j \in 1..Len(backlog) : backlog[i] = backlog[j] => i = j
  /\ \A i \in 1..Len(backlog) : backlog[i] \in seen \ open
  /\ open \subseteq seen

MainInv ==
  /\ main \in {"accept", "stopped"} => hand = NoConn
  /\ main \in {"accepted", "submitting"} => hand # NoConn
  /\ main = "exited" =>
       /\ ~listening /\ hand = NoConn /\ queue = <<>>
       /\ \A w \in Workers : pc[w] = "idle"

\* The counters of a connection that counted once each of some.
Once(some) == [m \in Counters |-> IF m \in some THEN 1 ELSE 0]

Fresh(c) == request[c] = NoRequest /\ metrics[c] = Once({}) /\ replies[c] = <<>>

\* Nothing is known of a connection before a worker takes it.
FreshInv ==
  \A c \in Conns :
    \/ c \notin seen
    \/ hand = c
    \/ \E i \in 1..Len(backlog) : backlog[i] = c
    \/ \E i \in 1..Len(queue) : queue[i] = c
    => Fresh(c)

\* What was counted before an error reply is sent.
Grounds(status) ==
  CASE status = "400" -> {}
    [] status = "407" -> {"total"}
    [] status = "429" -> {"total", "rate_limited"}
    [] status = "403" -> {"total", "blocked"}
    [] OTHER -> {"total", "allowed"}

\* How far a worker has come with its connection.
Standing(w) ==
  LET c == job[w] IN
  /\ origin[w] => Admitted(c)
  /\ pc[w] \in {"idle", "receive", "limit", "authenticate", "filter"} => ~origin[w]
  /\ pc[w] = "receive" => Fresh(c)
  /\ pc[w] \notin {"idle", "receive"} => request[c] # NoRequest
  /\ pc[w] \in {"limit", "authenticate", "filter"} =>
       /\ request[c].kind = "request"
       /\ metrics[c] = Once({"total"}) /\ replies[c] = <<>>
  /\ pc[w] = "filter" => request[c].asks.authentic
  /\ pc[w] \in {"dispatch", "stream", "tunnel"} =>
       /\ Admitted(c) /\ metrics[c] = Once({"total", "allowed"})
       /\ replies[c] = IF pc[w] = "tunnel" THEN <<"established">> ELSE <<>>
  /\ pc[w] = "reply" =>
       /\ reply[w] \in Errors
       /\ metrics[c] = Once(Grounds(reply[w])) /\ replies[c] = <<>>
  /\ pc[w] = "count_error" =>
       \E status \in {"400", "502"} :
         metrics[c] = Once(Grounds(status)) /\ replies[c] = <<status>>
  /\ pc[w] = "except" =>
       /\ \E status \in Errors : metrics[c] = Once(Grounds(status))
       /\ replies[c] = <<>>
  /\ pc[w] = "close" => Settled(c)

IInv ==
  /\ TypeOK /\ OwnerInv /\ BacklogInv /\ MainInv /\ FreshInv
  /\ \A w \in Workers : Standing(w)
  /\ Ledger /\ OneAnswer /\ OnlyAdmitted

-----------------------------------------------------------------------------
(* Liveness *)

InService(c) ==
  (\E i \in 1..Len(queue) : queue[i] = c) \/ (\E w \in Workers : job[w] = c)

\* A connection that was submitted is closed in the end, however many are
\* before it, also when the process is shut down or the accept loop has ended.
ServiceEnds == \A c \in Conns : InService(c) ~> c \notin open

\* Once _graceful_shutdown has the executor's lock the process ends.
DrainEnds == main = "cancelling" ~> main = "exited"

\* server.py: "SIGINT and SIGTERM close the listening socket [...].  The thread
\* pool is then shut down [...] so that in-flight requests finish before the
\* process terminates": a shutdown that has begun ends the process.
ShutdownEnds == ~listening ~> main = "exited"
=============================================================================
