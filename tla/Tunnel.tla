------------------------------- MODULE Tunnel -------------------------------
(***************************************************************************)
(* src/forwarder.py, tunnel: two daemon threads relay the bytes of a       *)
(* CONNECT, one from the client and one from the server; the worker joins  *)
(* them, for 120 s each, and handle_client then closes both sockets, under *)
(* a thread that may still be running.                                     *)
(*                                                                         *)
(* Everything about a direction is indexed by its source.  A peer may      *)
(* write for ever; it may stop writing (FIN) or go altogether (RST).  A    *)
(* recv waits 30 s for the client and 10 s for the server.                 *)
(***************************************************************************)
EXTENDS Integers

CONSTANT BUFFER    \* chunks that a peer may be ahead of the relay

ASSUME TunnelAssumption == BUFFER \in Nat \ {0}

Sides == {"client", "server"}
Peer(s) == IF s = "client" THEN "server" ELSE "client"

VARIABLES
  fin,        \* peer s has closed its sending side
  gone,       \* peer s has gone
  buffer,     \* chunks of s that _forward has still to receive
  thread,     \* where the _forward that reads from s stands
  shut,       \* dst.shutdown(SHUT_WR) was called: Peer(s) reads end of file
  closed,     \* the proxy has closed its socket to s
  main,       \* where the worker stands
  timed_out   \* a join has given up

\* Observers.
VARIABLES
  lost,       \* a chunk of s was received and not delivered
  clean       \* the thread that reads from s has read end of file

peers == <<fin, gone>>
relay == <<thread, shut, lost, clean>>
worker == <<closed, main, timed_out>>
vars == <<peers, buffer, relay, worker>>

Threads == {"recv", "sendall", "finally", "ended"}
Workers == {"join client", "join server", "close server", "close client", "done"}

Set(f, s, x) == f' = [f EXCEPT ![s] = x]
Both(x) == [s \in Sides |-> x]

Init ==
  /\ fin = Both(FALSE) /\ gone = Both(FALSE)
  /\ buffer = Both(0)
  /\ thread = Both("recv")
  /\ shut = Both(FALSE)
  /\ closed = Both(FALSE)
  /\ main = "join client"
  /\ timed_out = FALSE
  /\ lost = Both(FALSE)
  /\ clean = Both(FALSE)

-----------------------------------------------------------------------------
(* The peers *)

write(s) ==
  /\ ~fin[s] /\ ~gone[s]
  /\ buffer[s] < BUFFER
  /\ Set(buffer, s, buffer[s] + 1)
  /\ UNCHANGED <<peers, relay, worker>>

finish(s) ==
  /\ ~fin[s] /\ ~gone[s]
  /\ Set(fin, s, TRUE)
  /\ UNCHANGED <<gone, buffer, relay, worker>>

\* A reset: what the relay had not yet received is gone too.
reset(s) ==
  /\ ~gone[s]
  /\ Set(gone, s, TRUE)
  /\ Set(buffer, s, 0)
  /\ UNCHANGED <<fin, relay, worker>>

-----------------------------------------------------------------------------
(* _forward(src, dst) with src the socket to s *)

recv(s) ==
  /\ thread[s] = "recv" /\ ~closed[s]
  /\ buffer[s] > 0
  /\ Set(buffer, s, buffer[s] - 1)
  /\ Set(thread, s, "sendall")
  /\ UNCHANGED <<peers, shut, lost, clean, worker>>

\* Hasty_end_of_file: ends at the FIN without reading what came before it.
Hasty_end_of_file(s) ==
  /\ thread[s] = "recv" /\ ~closed[s]
  /\ fin[s] /\ ~gone[s]
  /\ Set(thread, s, "finally")
  /\ Set(clean, s, TRUE)
  /\ UNCHANGED <<peers, buffer, shut, lost, worker>>

\* recv returns b"".
end_of_file(s) ==
  /\ thread[s] = "recv" /\ ~closed[s]
  /\ fin[s] /\ ~gone[s] /\ buffer[s] = 0
  /\ Set(thread, s, "finally")
  /\ Set(clean, s, TRUE)
  /\ UNCHANGED <<peers, buffer, shut, lost, worker>>

\* recv raises OSError: nothing came within the timeout, or the peer was reset,
\* or handle_client has closed the socket.
recv_error(s) ==
  /\ thread[s] = "recv"
  /\ gone[s] \/ closed[s] \/ (buffer[s] = 0 /\ ~fin[s])
  /\ Set(thread, s, "finally")
  /\ UNCHANGED <<peers, buffer, shut, lost, clean, worker>>

sendall(s) ==
  /\ thread[s] = "sendall"
  /\ ~gone[Peer(s)] /\ ~closed[Peer(s)]
  /\ Set(thread, s, "recv")
  /\ UNCHANGED <<peers, buffer, shut, lost, clean, worker>>

\* sendall raises OSError, for the same reasons or as the peer does not read.
sendall_error(s) ==
  /\ thread[s] = "sendall"
  /\ Set(thread, s, "finally")
  /\ Set(lost, s, TRUE)
  /\ UNCHANGED <<peers, buffer, shut, clean, worker>>

\* finally: dst.shutdown(SHUT_WR), whose OSError is swallowed.
shutdown(s) ==
  /\ thread[s] = "finally"
  /\ Set(thread, s, "ended")
  /\ Set(shut, s, ~gone[Peer(s)] /\ ~closed[Peer(s)])
  /\ UNCHANGED <<peers, buffer, lost, clean, worker>>

-----------------------------------------------------------------------------
(* The worker *)

After(s) == IF s = "client" THEN "join server" ELSE "close server"

\* Absent_join: the joins are missing.
Absent_join(s) ==
  /\ main = IF s = "client" THEN "join client" ELSE "join server"
  /\ main' = After(s)
  /\ UNCHANGED <<peers, buffer, relay, closed, timed_out>>

\* The join of the thread that reads from s: t1.join, then t2.join.
join(s) ==
  /\ main = IF s = "client" THEN "join client" ELSE "join server"
  /\ thread[s] = "ended"
  /\ main' = After(s)
  /\ UNCHANGED <<peers, buffer, relay, closed, timed_out>>

\* Endless_join_timeout: join() without a timeout.
Endless_join_timeout(s) == FALSE /\ UNCHANGED vars

\* join(timeout=120) gives up.
join_timeout(s) ==
  /\ main = IF s = "client" THEN "join client" ELSE "join server"
  /\ thread[s] # "ended"
  /\ main' = After(s)
  /\ timed_out' = TRUE
  /\ UNCHANGED <<peers, buffer, relay, closed>>

\* handle_client: server_sock.close(), then client_sock.close().
close(s) ==
  /\ main = IF s = "server" THEN "close server" ELSE "close client"
  /\ Set(closed, s, TRUE)
  /\ main' = IF s = "server" THEN "close client" ELSE "done"
  /\ UNCHANGED <<peers, buffer, relay, timed_out>>

Forward(s) ==
  \/ recv(s) \/ end_of_file(s) \/ recv_error(s)
  \/ sendall(s) \/ sendall_error(s) \/ shutdown(s)

Worker == \E s \in Sides : join(s) \/ join_timeout(s) \/ close(s)

Next ==
  \/ \E s \in Sides : write(s) \/ finish(s) \/ reset(s)
  \/ \E s \in Sides : Forward(s)
  \/ Worker

Spec == Init /\ [][Next]_vars

\* The three threads keep running, and every call of theirs has a timeout;
\* nothing is assumed of the peers.
FairSpec == Spec /\ WF_vars(Worker) /\ \A s \in Sides : WF_vars(Forward(s))

-----------------------------------------------------------------------------
(* Properties *)

TypeOK ==
  /\ fin \in [Sides -> BOOLEAN] /\ gone \in [Sides -> BOOLEAN]
  /\ buffer \in [Sides -> 0..BUFFER]
  /\ thread \in [Sides -> Threads]
  /\ shut \in [Sides -> BOOLEAN]
  /\ closed \in [Sides -> BOOLEAN]
  /\ main \in Workers
  /\ timed_out \in BOOLEAN
  /\ lost \in [Sides -> BOOLEAN] /\ clean \in [Sides -> BOOLEAN]

\* A peer that reads end of file because the other one finished has received
\* everything the other one wrote.
CleanEnd ==
  \A s \in Sides : clean[s] /\ shut[s] =>
    fin[s] /\ ~lost[s] /\ (buffer[s] = 0)

\* One side's end of file does not cut the other direction: unless a join has
\* timed out, both sockets stay open until both directions have ended.
HalfClose ==
  ~timed_out /\ (\E s \in Sides : closed[s]) =>
    \A s \in Sides : thread[s] = "ended"

\* The strengthening that makes CleanEnd and HalfClose inductive: end of file
\* is the last thing a thread reads and a lost chunk the last it drops, and how
\* far the worker is says which threads have ended and which sockets are open.
ThreadInv ==
  \A s \in Sides :
    /\ clean[s] => /\ fin[s] /\ buffer[s] = 0 /\ ~lost[s]
                   /\ thread[s] \in {"finally", "ended"}
    /\ lost[s] => thread[s] \in {"finally", "ended"}

WorkerInv ==
  /\ ~timed_out =>
       /\ main # "join client" => thread["client"] = "ended"
       /\ main \notin {"join client", "join server"} => thread["server"] = "ended"
  /\ \A s \in Sides : closed[s] => main \in {"close client", "done"}

\* The inductive invariant.
IInv == TypeOK /\ ThreadInv /\ WorkerInv

\* Whatever the peers do, the tunnel ends: the worker is free again, both
\* sockets are closed and both threads are over, though the joins may have
\* given up on them.
TunnelEnds ==
  <>(/\ main = "done"
     /\ \A s \in Sides : closed[s] /\ thread[s] = "ended")
=============================================================================
