----------------------------- MODULE Dashboard -----------------------------
(***************************************************************************)
(* An /events stream beside the workers it reports on: every turn of       *)
(* _serve_sse builds a snapshot out of counters that have a lock each, and *)
(* then sends the new log entries (LogFeed); handle_client and             *)
(* forward_http count and log as they go.                                  *)
(***************************************************************************)
EXTENDS LogFeed, FiniteSets

CONSTANTS
  Workers,
  MaxRequests    \* bound: connections handled

ASSUME DashboardAssumption == IsFiniteSet(Workers) /\ MaxRequests \in Nat

\* The counters, in the order in which _build_snapshot reads them: those of
\* one group under one lock.  What it reads of the rate limiter counts nothing,
\* and the ten largest host_counters agree with no other count.
Metrics == {"total", "allowed", "blocked", "cached", "rate_limited", "errors"}
CacheStats == {"hits", "misses"}

\* Late_Groups: the metrics are read last.
Late_Groups == <<CacheStats, Metrics>>
Groups == <<Metrics, CacheStats>>
Counters == Metrics \union CacheStats

\* Logged_Then: a refusal is logged before it is counted.
Logged_Then == [
  idle         |-> {"total", "errors"},
  total        |-> {"RATE_LIMITED", "AUTH_FAILED", "BLOCKED", "allowed", "errors"},
  RATE_LIMITED |-> {"rate_limited"},
  BLOCKED      |-> {"blocked"},
  rate_limited |-> {"idle", "errors"},
  blocked      |-> {"idle", "errors"},
  AUTH_FAILED  |-> {"idle", "errors"},
  allowed      |-> {"CONNECT", "FORWARD"},
  CONNECT      |-> {"idle", "errors"},
  FORWARD      |-> {"hits", "misses", "FORWARDED", "errors"},
  hits         |-> {"CACHE_HIT"},
  CACHE_HIT    |-> {"cached"},
  cached       |-> {"idle"},
  misses       |-> {"CACHE_MISS"},
  CACHE_MISS   |-> {"CACHE_STORE", "FORWARDED", "errors"},
  CACHE_STORE  |-> {"idle"},
  FORWARDED    |-> {"idle"},
  errors       |-> {"idle", "ERROR"},
  ERROR        |-> {"idle"}]

\* What a worker counts (in small letters) and logs, one after the other:
\* "errors" and "idle" after a response that was sent, "errors" and "ERROR"
\* after an exception.  The cache is enabled: without it a miss is logged but
\* not counted.
Then == [
  idle         |-> {"total", "errors"},
  total        |-> {"rate_limited", "AUTH_FAILED", "blocked", "allowed", "errors"},
  rate_limited |-> {"RATE_LIMITED"},
  blocked      |-> {"BLOCKED"},
  RATE_LIMITED |-> {"idle", "errors"},
  BLOCKED      |-> {"idle", "errors"},
  AUTH_FAILED  |-> {"idle", "errors"},
  allowed      |-> {"CONNECT", "FORWARD"},
  CONNECT      |-> {"idle", "errors"},
  FORWARD      |-> {"hits", "misses", "FORWARDED", "errors"},
  hits         |-> {"CACHE_HIT"},
  CACHE_HIT    |-> {"cached"},
  cached       |-> {"idle"},
  misses       |-> {"CACHE_MISS"},
  CACHE_MISS   |-> {"CACHE_STORE", "FORWARDED", "errors"},
  CACHE_STORE  |-> {"idle"},
  FORWARDED    |-> {"idle"},
  errors       |-> {"idle", "ERROR"},
  ERROR        |-> {"idle"}]

VARIABLES
  counts,      \* metrics and CacheStats
  at,          \* what each worker counted or logged last
  requests,    \* connections handled
  actions,     \* observer: the action of every log entry
  taken,       \* groups that each stream's _build_snapshot has read
  snapshot     \* what it read

work == <<counts, at, requests>>
dashboard_vars == <<vars, work, actions, taken, snapshot>>

None == [c \in Counters |-> 0]

DashboardInit ==
  /\ Init
  /\ counts = None
  /\ at = [w \in Workers |-> "idle"]
  /\ requests = 0
  /\ actions = <<>>
  /\ taken = [v \in Viewers |-> 0]
  /\ snapshot = [v \in Viewers |-> None]

\* handle_client, forward_http: what comes next is done.
Goes(w, step) ==
  /\ step \in Then[at[w]]
  /\ at' = [at EXCEPT ![w] = step]
  /\ IF at[w] = "idle" THEN requests < MaxRequests /\ requests' = requests + 1
     ELSE UNCHANGED requests
  /\ UNCHANGED <<taken, snapshot>>

count(w, c) ==
  /\ Goes(w, c)
  /\ counts' = [counts EXCEPT ![c] = @ + 1]
  /\ UNCHANGED <<vars, actions>>

log(w, a) ==
  /\ Goes(w, a)
  /\ log_event
  /\ actions' = Append(actions, a)
  /\ UNCHANGED counts

finish(w) == Goes(w, "idle") /\ UNCHANGED <<vars, counts, actions>>

Worker(w) ==
  \/ \E c \in Counters : count(w, c)
  \/ \E a \in DOMAIN Then \ (Counters \union {"idle"}) : log(w, a)
  \/ finish(w)

\* _build_snapshot, a group at a time.
read(v) ==
  /\ pc[v] = "poll" /\ taken[v] < Len(Groups)
  /\ taken' = [taken EXCEPT ![v] = @ + 1]
  /\ snapshot' = [snapshot EXCEPT ![v] =
       [c \in Counters |-> IF c \in Groups[taken[v] + 1] THEN counts[c] ELSE @[c]]]
  /\ UNCHANGED <<vars, work, actions>>

discard(v) ==
  /\ taken' = [taken EXCEPT ![v] = 0]
  /\ snapshot' = [snapshot EXCEPT ![v] = None]

\* The snapshot is sent and the ring polled, which may find nothing new.
publish(v) ==
  /\ pc[v] = "poll" /\ taken[v] = Len(Groups)
  /\ discard(v)
  /\ poll(v) \/ (Len(ring) = last_log_count[v] /\ UNCHANGED vars)
  /\ UNCHANGED <<work, actions>>

Stream(v) ==
  read(v) \/ publish(v) \/ (send(v) /\ UNCHANGED <<work, actions, taken, snapshot>>)

Browser(v) == (open(v) \/ leave(v)) /\ discard(v) /\ UNCHANGED <<work, actions>>

DashboardNext ==
  \/ \E w \in Workers : Worker(w)
  \/ \E v \in Viewers : Stream(v) \/ Browser(v)

DashboardSpec == DashboardInit /\ [][DashboardNext]_dashboard_vars

\* As in LogFeed.
FairDashboardSpec == DashboardSpec /\ \A v \in Viewers : WF_dashboard_vars(Stream(v))
-----------------------------------------------------------------------------
(* Properties *)

Complete(v) == pc[v] = "poll" /\ taken[v] = Len(Groups)

\* Its parts are read under different locks while workers go on, and still a
\* snapshot does not contradict itself: no more verdicts than requests, and no
\* more cached responses than were let through or than the cache has hits.
SnapshotCoherent ==
  \A v \in Viewers : Complete(v) =>
    LET s == snapshot[v]
    IN  /\ s["allowed"] + s["blocked"] + s["rate_limited"] <= s["total"]
        /\ s["cached"] <= s["allowed"] /\ s["cached"] <= s["hits"]

\* The log entries that a stream has been sent of some actions.
SentOf(v, some) == Cardinality({i \in DOMAIN sent[v] : actions[sent[v][i]] \in some})

\* What a stream was told in the log is in every snapshot after it: verdicts,
\* lookups and errors are counted before they are logged.  Only "cached" counts
\* a hit later than the log.
LogsAreCounted ==
  \A v \in Viewers : Complete(v) =>
    LET s == snapshot[v]
    IN  /\ SentOf(v, {"RATE_LIMITED"}) <= s["rate_limited"]
        /\ SentOf(v, {"BLOCKED"}) <= s["blocked"]
        /\ SentOf(v, {"CONNECT", "FORWARD"}) <= s["allowed"]
        /\ SentOf(v, {"CACHE_HIT"}) <= s["hits"]
        /\ SentOf(v, {"CACHE_MISS"}) <= s["misses"]
        /\ SentOf(v, {"ERROR"}) <= s["errors"]

\* The strengthening that makes the two inductive.  How many workers were last
\* at one of some steps, and how many log entries are of some actions.
Standing(steps) == Cardinality({w \in Workers : at[w] \in steps})
Logged(some) == Cardinality({e \in 1..logged : actions[e] \in some})

WorkTypeOK ==
  /\ counts \in [Counters -> Nat]
  /\ at \in [Workers -> DOMAIN Then]
  /\ actions \in Seq(DOMAIN Then) /\ Len(actions) = logged
  /\ taken \in [Viewers -> 0..Len(Groups)]
  /\ snapshot \in [Viewers -> [Counters -> Nat]]
  /\ \A v \in Viewers : pc[v] # "poll" => taken[v] = 0

\* The counters agree with one another up to the workers on their way from one
\* count to the next ...
CountInv ==
  /\ counts["allowed"] + counts["blocked"] + counts["rate_limited"]
       + Standing({"total"}) <= counts["total"]
  /\ counts["cached"] + Standing({"allowed", "FORWARD", "hits", "CACHE_HIT"})
       <= counts["allowed"]
  /\ counts["cached"] + Standing({"hits", "CACHE_HIT"}) <= counts["hits"]

\* ... and with the log up to those that have counted and not logged yet.
LogInv ==
  /\ Logged({"RATE_LIMITED"}) + Standing({"rate_limited"}) <= counts["rate_limited"]
  /\ Logged({"BLOCKED"}) + Standing({"blocked"}) <= counts["blocked"]
  /\ Logged({"CONNECT", "FORWARD"}) + Standing({"allowed"}) <= counts["allowed"]
  /\ Logged({"CACHE_HIT"}) + Standing({"hits"}) <= counts["hits"]
  /\ Logged({"CACHE_MISS"}) + Standing({"misses"}) <= counts["misses"]
  /\ Logged({"ERROR"}) + Standing({"errors"}) <= counts["errors"]

\* What a snapshot has read agrees with itself, with the log entries sent
\* before it, and with the counters it has still to read.
SnapshotInv ==
  \A v \in Viewers :
    LET s == snapshot[v]
        hits == IF taken[v] = 1 THEN counts["hits"] ELSE s["hits"]
    IN  /\ taken[v] >= 1 =>
             /\ s["allowed"] + s["blocked"] + s["rate_limited"] <= s["total"]
             /\ s["cached"] <= s["allowed"] /\ s["cached"] <= hits
             /\ SentOf(v, {"RATE_LIMITED"}) <= s["rate_limited"]
             /\ SentOf(v, {"BLOCKED"}) <= s["blocked"]
             /\ SentOf(v, {"CONNECT", "FORWARD"}) <= s["allowed"]
             /\ SentOf(v, {"ERROR"}) <= s["errors"]
        /\ taken[v] >= 2 =>
             /\ SentOf(v, {"CACHE_HIT"}) <= s["hits"]
             /\ SentOf(v, {"CACHE_MISS"}) <= s["misses"]

IInv == FeedInv /\ WorkTypeOK /\ CountInv /\ LogInv /\ SnapshotInv
=============================================================================
