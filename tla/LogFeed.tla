------------------------------- MODULE LogFeed -------------------------------
(***************************************************************************)
(* The live log of the dashboard: log_event of src/logger.py appends to a  *)
(* ring buffer, and every /events stream of src/dashboard.py polls it in a *)
(* thread of its own.  The log file, the metrics events and the one-second *)
(* sleep between polls are left out.                                       *)
(*                                                                         *)
(* An entry is its number in the order of the appends.                     *)
(***************************************************************************)
EXTENDS Integers, SequencesExt

CONSTANTS
  Viewers,     \* the /events streams
  RING_SIZE,   \* _RING_BUFFER_SIZE
  MaxEvents    \* bound: number of log_event calls

ASSUME FeedAssumption == RING_SIZE \in Nat \ {0} /\ MaxEvents \in Nat

VARIABLES
  ring,            \* log_ring_buffer
  pc,              \* where each stream stands in _serve_sse
  last_log_count,
  new_entries,     \* still to be sent
  logged,          \* observer: entries ever appended
  sent,            \* observer: entries sent on the stream
  opened           \* observer: entries there were when it was opened

stream == <<pc, last_log_count, new_entries, sent, opened>>
vars == <<ring, logged, stream>>

PCs == {"away", "poll", "send", "gone"}

Init ==
  /\ ring = <<>>
  /\ logged = 0
  /\ pc = [v \in Viewers |-> "away"]
  /\ last_log_count = [v \in Viewers |-> 0]
  /\ new_entries = [v \in Viewers |-> <<>>]
  /\ sent = [v \in Viewers |-> <<>>]
  /\ opened = [v \in Viewers |-> 0]

\* s[-n:], for 0 < n
Newest(s, n) == IF n < Len(s) THEN SubSeq(s, Len(s) - n + 1, Len(s)) ELSE s

\* deque(maxlen=RING_SIZE).append under _ring_lock.
log_event ==
  /\ logged < MaxEvents
  /\ logged' = logged + 1
  /\ ring' = Newest(Append(ring, logged + 1), RING_SIZE)
  /\ UNCHANGED stream

\* The response headers are sent and the ring's length is read, without the
\* lock.
open(v) ==
  /\ pc[v] = "away"
  /\ pc' = [pc EXCEPT ![v] = "poll"]
  /\ last_log_count' = [last_log_count EXCEPT ![v] = Len(ring)]
  /\ opened' = [opened EXCEPT ![v] = logged]
  /\ UNCHANGED <<ring, logged, new_entries, sent>>

\* Whole_fresh: sends the whole ring when it has grown.
Whole_fresh(count, last) == IF count > last THEN ring ELSE <<>>

\* Short_fresh: one entry of the growth is missed.
Short_fresh(count, last) ==
  IF count > last + 1 THEN Newest(ring, count - last - 1) ELSE <<>>

\* The new entries, by comparing the ring's length with the last one seen.
fresh(count, last) ==
  CASE count > last -> Newest(ring, count - last)
    [] count < last -> Newest(ring, 5)
    [] OTHER -> <<>>

\* The poll, under _ring_lock; one that finds nothing new changes nothing.
poll(v) ==
  /\ pc[v] = "poll"
  /\ Len(ring) # last_log_count[v]
  /\ new_entries' = [new_entries EXCEPT ![v] = fresh(Len(ring), last_log_count[v])]
  /\ last_log_count' = [last_log_count EXCEPT ![v] = Len(ring)]
  /\ pc' = [pc EXCEPT ![v] = "send"]
  /\ UNCHANGED <<ring, logged, sent, opened>>

\* One "log" event; after the last one the stream polls again.
send(v) ==
  /\ pc[v] = "send"
  /\ IF new_entries[v] = <<>>
     THEN pc' = [pc EXCEPT ![v] = "poll"] /\ UNCHANGED <<new_entries, sent>>
     ELSE /\ sent' = [sent EXCEPT ![v] = Append(@, Head(new_entries[v]))]
          /\ new_entries' = [new_entries EXCEPT ![v] = Tail(@)]
          /\ UNCHANGED pc
  /\ UNCHANGED <<ring, logged, last_log_count, opened>>

\* A write fails: the browser has gone.
leave(v) ==
  /\ pc[v] \in {"poll", "send"}
  /\ pc' = [pc EXCEPT ![v] = "gone"]
  /\ UNCHANGED <<ring, logged, last_log_count, new_entries, sent, opened>>

Serve(v) == poll(v) \/ send(v)

Next == log_event \/ \E v \in Viewers : open(v) \/ Serve(v) \/ leave(v)

Spec == Init /\ [][Next]_vars

\* The thread of a stream keeps polling; nothing makes a browser come or go,
\* or the proxy log.
FairSpec == Spec /\ \A v \in Viewers : WF_vars(Serve(v))

-----------------------------------------------------------------------------
(* Properties *)

TypeOK ==
  /\ ring \in Seq(1..logged) /\ Len(ring) <= RING_SIZE
  /\ logged \in Nat
  /\ pc \in [Viewers -> PCs]
  /\ last_log_count \in [Viewers -> 0..RING_SIZE]
  /\ new_entries \in [Viewers -> Seq(1..logged)]
  /\ sent \in [Viewers -> Seq(1..logged)]
  /\ opened \in [Viewers -> 0..logged]

\* What a stream has sent and is about to send.
Feed(v) == sent[v] \o new_entries[v]

\* No entry is sent twice or out of order, and none from before the stream was
\* opened, even when the ring overflows between two polls.
FeedInOrder ==
  /\ TypeOK
  /\ \A v \in Viewers :
       /\ \A i \in 1..Len(Feed(v)) : Feed(v)[i] > opened[v]
       /\ \A i, j \in 1..Len(Feed(v)) : i < j => Feed(v)[i] < Feed(v)[j]

\* The strengthening that makes FeedInOrder inductive: the ring holds the newest
\* entries without a gap; a stream's count grows with the ring, and as long as
\* it can still find the ring grown it counts every entry the stream has had.
RingInv ==
  /\ Len(ring) = IF logged < RING_SIZE THEN logged ELSE RING_SIZE
  /\ \A i \in 1..Len(ring) : ring[i] = logged - Len(ring) + i

SeenInv ==
  \A v \in Viewers :
    /\ last_log_count[v] <= Len(ring)
    /\ pc[v] = "away" => sent[v] = <<>>
    /\ pc[v] \in {"away", "poll"} => new_entries[v] = <<>>
    /\ last_log_count[v] < RING_SIZE =>
         /\ opened[v] <= last_log_count[v]
         /\ \A i \in 1..Len(Feed(v)) : Feed(v)[i] <= last_log_count[v]

FeedInv == FeedInOrder /\ RingInv /\ SeenInv

Sent(v, e) == \E i \in 1..Len(sent[v]) : sent[v][i] = e

\* While the ring has room, an entry logged while a browser watches is sent to
\* it, however many are logged between two polls.
FreshEntriesArrive ==
  \A v \in Viewers, e \in 1..MaxEvents :
    (pc[v] \in {"poll", "send"} /\ opened[v] < e /\ logged = e)
      ~> (Sent(v, e) \/ pc[v] = "gone" \/ logged > RING_SIZE)

\* dashboard.py: the stream pushes "individual log entries as they arrive":
\* an entry logged while a browser watches is sent to it.
EntriesArrive ==
  \A v \in Viewers, e \in 1..MaxEvents :
    (pc[v] \in {"poll", "send"} /\ opened[v] < e /\ logged = e)
      ~> (Sent(v, e) \/ pc[v] = "gone")
=============================================================================
