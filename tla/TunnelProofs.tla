---------------------------- MODULE TunnelProofs ----------------------------
(***************************************************************************)
(* That a CONNECT tunnel passes an end of file on only after all the data  *)
(* before it, and is not closed under a running direction unless a join    *)
(* gave up, for every buffer size.                                         *)
(***************************************************************************)
EXTENDS Tunnel, TLAPS

\* The tunnel starts with nothing buffered and both threads reading.
LEMMA InitInvariant == Init => IInv
<1> SUFFICES ASSUME Init PROVE IInv
  OBVIOUS
<1>1. buffer \in [Sides -> 0..BUFFER]
  <2>1. 0 \in 0..BUFFER
    BY TunnelAssumption
  <2> QED BY <2>1 DEF Init, Both
<1>2. thread \in [Sides -> Threads] /\ main \in Workers
  BY DEF Init, Both, Threads, Workers
<1>3. TypeOK
  BY <1>1, <1>2 DEF Init, TypeOK, Both
<1>4. ThreadInv /\ WorkerInv
  BY DEF Init, ThreadInv, WorkerInv, Both
<1> QED BY <1>3, <1>4 DEF IInv

\* A peer that writes has not finished, so no thread has read its end of file.
LEMMA PeersInvariant ==
  ASSUME IInv, NEW s \in Sides, write(s) \/ finish(s) \/ reset(s)
  PROVE  IInv'
<1>1. CASE write(s)
  <2> USE <1>1 DEF write, Set, peers, relay, worker
  <2>1. TypeOK'
    BY TunnelAssumption DEF IInv, TypeOK, Threads
  <2>2. ThreadInv'
    BY DEF IInv, TypeOK, ThreadInv
  <2>3. WorkerInv'
    BY DEF IInv, TypeOK, WorkerInv, Sides
  <2> QED BY <2>1, <2>2, <2>3 DEF IInv
<1>2. CASE finish(s)
  <2> USE <1>2 DEF finish, Set, peers, relay, worker
  <2>1. TypeOK'
    BY TunnelAssumption DEF IInv, TypeOK, Threads
  <2>2. ThreadInv'
    BY DEF IInv, TypeOK, ThreadInv
  <2>3. WorkerInv'
    BY DEF IInv, TypeOK, WorkerInv, Sides
  <2> QED BY <2>1, <2>2, <2>3 DEF IInv
<1>3. CASE reset(s)
  <2> USE <1>3 DEF reset, Set, peers, relay, worker
  <2>1. TypeOK'
    BY TunnelAssumption DEF IInv, TypeOK, Threads
  <2>2. ThreadInv'
    BY DEF IInv, TypeOK, ThreadInv
  <2>3. WorkerInv'
    BY DEF IInv, TypeOK, WorkerInv, Sides
  <2> QED BY <2>1, <2>2, <2>3 DEF IInv
<1> QED BY <1>1, <1>2, <1>3

\* A thread reads end of file with nothing left to deliver, and ends.
LEMMA ForwardInvariant ==
  ASSUME IInv, NEW s \in Sides, Forward(s)
  PROVE  IInv'
<1>1. CASE recv(s)
  <2> USE <1>1 DEF recv, Set, peers, worker
  <2>1. TypeOK'
    BY TunnelAssumption DEF IInv, TypeOK, Threads
  <2>2. ThreadInv'
    BY DEF IInv, TypeOK, ThreadInv
  <2>3. WorkerInv'
    BY DEF IInv, TypeOK, WorkerInv, Sides
  <2> QED BY <2>1, <2>2, <2>3 DEF IInv
<1>2. CASE end_of_file(s)
  <2> USE <1>2 DEF end_of_file, Set, peers, worker
  <2>1. TypeOK'
    BY TunnelAssumption DEF IInv, TypeOK, Threads
  <2>2. ThreadInv'
    BY DEF IInv, TypeOK, ThreadInv
  <2>3. WorkerInv'
    BY DEF IInv, TypeOK, WorkerInv, Sides
  <2> QED BY <2>1, <2>2, <2>3 DEF IInv
<1>3. CASE recv_error(s)
  <2> USE <1>3 DEF recv_error, Set, peers, worker
  <2>1. TypeOK'
    BY TunnelAssumption DEF IInv, TypeOK, Threads
  <2>2. ThreadInv'
    BY DEF IInv, TypeOK, ThreadInv
  <2>3. WorkerInv'
    BY DEF IInv, TypeOK, WorkerInv, Sides
  <2> QED BY <2>1, <2>2, <2>3 DEF IInv
<1>4. CASE sendall(s)
  <2> USE <1>4 DEF sendall, Set, peers, worker
  <2>1. TypeOK'
    BY TunnelAssumption DEF IInv, TypeOK, Threads
  <2>2. ThreadInv'
    BY DEF IInv, TypeOK, ThreadInv
  <2>3. WorkerInv'
    BY DEF IInv, TypeOK, WorkerInv, Sides
  <2> QED BY <2>1, <2>2, <2>3 DEF IInv
<1>5. CASE sendall_error(s)
  <2> USE <1>5 DEF sendall_error, Set, peers, worker
  <2>1. TypeOK'
    BY TunnelAssumption DEF IInv, TypeOK, Threads
  <2>2. ThreadInv'
    BY DEF IInv, TypeOK, ThreadInv
  <2>3. WorkerInv'
    BY DEF IInv, TypeOK, WorkerInv, Sides
  <2> QED BY <2>1, <2>2, <2>3 DEF IInv
<1>6. CASE shutdown(s)
  <2> USE <1>6 DEF shutdown, Set, peers, worker
  <2>1. TypeOK'
    BY TunnelAssumption DEF IInv, TypeOK, Threads
  <2>2. ThreadInv'
    BY DEF IInv, TypeOK, ThreadInv
  <2>3. WorkerInv'
    BY DEF IInv, TypeOK, WorkerInv, Sides
  <2> QED BY <2>1, <2>2, <2>3 DEF IInv
<1> QED BY <1>1, <1>2, <1>3, <1>4, <1>5, <1>6 DEF Forward

\* The worker goes on when a thread has ended or a join has given up.
LEMMA WorkerInvariant ==
  ASSUME IInv, NEW s \in Sides, join(s) \/ join_timeout(s) \/ close(s)
  PROVE  IInv'
<1>1. CASE join(s)
  <2> USE <1>1 DEF join, Set, peers, relay, After
  <2>1. TypeOK'
    BY TunnelAssumption DEF IInv, TypeOK, Workers
  <2>2. ThreadInv'
    BY DEF IInv, TypeOK, ThreadInv
  <2>3. WorkerInv'
    BY DEF IInv, TypeOK, WorkerInv, Sides
  <2> QED BY <2>1, <2>2, <2>3 DEF IInv
<1>2. CASE join_timeout(s)
  <2> USE <1>2 DEF join_timeout, Set, peers, relay, After
  <2>1. TypeOK'
    BY TunnelAssumption DEF IInv, TypeOK, Workers
  <2>2. ThreadInv'
    BY DEF IInv, TypeOK, ThreadInv
  <2>3. WorkerInv'
    BY DEF IInv, TypeOK, WorkerInv, Sides
  <2> QED BY <2>1, <2>2, <2>3 DEF IInv
<1>3. CASE close(s)
  <2> USE <1>3 DEF close, Set, peers, relay, After
  <2>1. TypeOK'
    BY TunnelAssumption DEF IInv, TypeOK, Workers
  <2>2. ThreadInv'
    BY DEF IInv, TypeOK, ThreadInv
  <2>3. WorkerInv'
    BY DEF IInv, TypeOK, WorkerInv, Sides
  <2> QED BY <2>1, <2>2, <2>3 DEF IInv
<1> QED BY <1>1, <1>2, <1>3

\* The inductive invariant holds throughout.
THEOREM TunnelInvariant == Spec => []IInv
<1>1. IInv /\ [Next]_vars => IInv'
  <2> SUFFICES ASSUME IInv, [Next]_vars PROVE IInv'
    OBVIOUS
  <2>1. CASE \E s \in Sides : write(s) \/ finish(s) \/ reset(s)
    BY <2>1, PeersInvariant
  <2>2. CASE \E s \in Sides : Forward(s)
    BY <2>2, ForwardInvariant
  <2>3. CASE Worker
    BY <2>3, WorkerInvariant DEF Worker
  <2>4. CASE UNCHANGED vars
    BY <2>4
    DEF vars, peers, relay, worker, IInv, TypeOK, ThreadInv, WorkerInv
  <2> QED BY <2>1, <2>2, <2>3, <2>4 DEF Next
<1> QED BY <1>1, InitInvariant, PTL DEF Spec

\* Whoever reads a passed-on end of file has received everything: _forward
\* drops nothing before it.
THEOREM EndsAreClean == Spec => []CleanEnd
<1>1. IInv => CleanEnd
  BY DEF IInv, ThreadInv, CleanEnd
<1> QED BY <1>1, TunnelInvariant, PTL

\* handle_client closes no socket under a running direction unless a join gave
\* up.
THEOREM HalfCloseIsRespected == Spec => []HalfClose
<1>1. IInv => HalfClose
  BY DEF IInv, WorkerInv, HalfClose, Sides
<1> QED BY <1>1, TunnelInvariant, PTL
=============================================================================
