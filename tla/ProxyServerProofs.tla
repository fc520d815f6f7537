-------------------------- MODULE ProxyServerProofs --------------------------
(***************************************************************************)
(* Proofs about ProxyServer, for every number of connections, workers and  *)
(* file descriptors and every backlog.                                     *)
(***************************************************************************)
EXTENDS ProxyServer, SequenceTheorems, FiniteSetTheorems, TLAPS

-----------------------------------------------------------------------------
(* Sequences of connections *)

LEMMA AppendFacts ==
  ASSUME NEW S, NEW s \in Seq(S), NEW e \in S
  PROVE  /\ Append(s, e) \in Seq(S)
         /\ Len(Append(s, e)) = Len(s) + 1 /\ Len(s) \in Nat
         /\ \A j \in 1..Len(s) : Append(s, e)[j] = s[j] /\ s[j] \in S
         /\ Append(s, e)[Len(s) + 1] = e
BY AppendProperties, LenProperties, ElementOfSeq

LEMMA TailFacts ==
  ASSUME NEW S, NEW s \in Seq(S), s # <<>>
  PROVE  /\ Head(s) \in S /\ Tail(s) \in Seq(S)
         /\ Len(s) \in Nat \ {0} /\ Len(Tail(s)) = Len(s) - 1
         /\ Head(s) = s[1]
         /\ \A j \in 1..Len(s) - 1 : Tail(s)[j] = s[j + 1]
         /\ \A j \in 1..Len(s) : s[j] \in S
BY HeadTailProperties, EmptySeq, LenProperties, ElementOfSeq

LEMMA OneElement ==
  ASSUME NEW x
  PROVE  /\ Append(<<>>, x) = <<x>> /\ Len(<<x>>) = 1 /\ <<x>> # <<>> /\ <<x>>[1] = x
         /\ \A y : <<x>> = <<y>> <=> x = y
<1>1. Append(<<>>, x) = <<x>> /\ Len(<<x>>) = 1 /\ <<x>>[1] = x
  OBVIOUS
<1>2. <<x>> # <<>>
  BY <1>1
<1>3. ASSUME NEW y, <<x>> = <<y>> PROVE x = y
  <2>1. <<x>>[1] = <<y>>[1]
    BY <1>3
  <2> QED BY <2>1
<1> QED BY <1>1, <1>2, <1>3

-----------------------------------------------------------------------------
(* What one step leaves alone *)

LedgerOf(c) ==
  LET m == metrics[c] IN
    /\ m.total <= 1 /\ m.errors <= 1
    /\ m.allowed + m.blocked + m.rate_limited <= m.total
    /\ m.cached <= m.allowed

LEMMA BusyHasJob ==
  ASSUME TypeOK, OwnerInv, NEW w \in Workers, pc[w] # "idle"
  PROVE  job[w] \in Conns /\ job[w] # NoConn
BY DEF TypeOK, OwnerInv

\* A connection means to a worker what it meant before when neither changed.
LEMMA StandingKept ==
  ASSUME NEW v \in Workers, Standing(v),
         pc'[v] = pc[v], job'[v] = job[v], origin'[v] = origin[v], reply'[v] = reply[v],
         request'[job[v]] = request[job[v]], metrics'[job[v]] = metrics[job[v]],
         replies'[job[v]] = replies[job[v]]
  PROVE  Standing(v)'
BY DEF Standing, Fresh, Admitted, Settled

\* A step of handle_client between take and close: only its own connection,
\* its own locals and the counters change.
LEMMA HandlingKeeps ==
  ASSUME IInv, TypeOK', NEW w \in Workers, pc[w] # "idle",
         NEW label \in PCs \ {"idle"}, Goto(w, label),
         UNCHANGED <<server, job, seen, open>>,
         \A c \in Conns \ {job[w]} :
           request'[c] = request[c] /\ metrics'[c] = metrics[c] /\ replies'[c] = replies[c],
         \A v \in Workers \ {w} : origin'[v] = origin[v] /\ reply'[v] = reply[v],
         Standing(w)', LedgerOf(job[w])', Len(replies'[job[w]]) <= 1,
         (\E i \in 1..Len(replies'[job[w]]) : replies'[job[w]][i] \notin Errors)
           => Admitted(job[w])'
  PROVE  IInv'
<1> DEFINE k == job[w]
<1>1. k \in Conns /\ k # NoConn /\ k \in open
  BY BusyHasJob DEF IInv, OwnerInv
<1>2. \A v \in Workers : pc'[v] = "idle" <=> pc[v] = "idle"
  BY DEF Goto, IInv, TypeOK
<1>3. OwnerInv'
  BY <1>2 DEF IInv, OwnerInv, server
<1>4. BacklogInv' /\ MainInv'
  BY <1>2 DEF IInv, BacklogInv, MainInv, server
<1>5. FreshInv'
  <2> SUFFICES ASSUME NEW c \in Conns,
                      \/ c \notin seen
                      \/ hand = c
                      \/ \E i \in 1..Len(backlog) : backlog[i] = c
                      \/ \E i \in 1..Len(queue) : queue[i] = c
               PROVE  Fresh(c)'
    BY DEF FreshInv, server
  <2>1. c # k
    BY <1>1 DEF IInv, OwnerInv, BacklogInv
  <2>2. Fresh(c)
    BY DEF IInv, FreshInv
  <2> QED BY <2>1, <2>2 DEF Fresh
<1>6. ASSUME NEW v \in Workers, v # w PROVE Standing(v)'
  <2>1. Standing(v) /\ pc'[v] = pc[v]
    BY <1>6 DEF IInv, TypeOK, Goto
  <2>2. CASE job[v] \in Conns
    <3>1. job[v] # k
      BY <1>1, <1>6 DEF IInv, OwnerInv
    <3> QED BY <1>6, <2>1, <2>2, <3>1, StandingKept
  <2>3. CASE job[v] \notin Conns
    <3>1. pc[v] = "idle"
      BY <2>3, BusyHasJob DEF IInv
    <3>2. ~origin'[v] /\ pc'[v] = "idle"
      BY <1>6, <2>1, <3>1 DEF Standing
    <3> QED BY <3>2 DEF Standing
  <2> QED BY <2>2, <2>3
<1>7. Ledger'
  <2> SUFFICES ASSUME NEW c \in Conns PROVE LedgerOf(c)'
    BY DEF Ledger, LedgerOf
  <2>1. CASE c # k
    BY <2>1 DEF IInv, Ledger, LedgerOf
  <2> QED BY <2>1
<1>8. OneAnswer'
  <2> SUFFICES ASSUME NEW c \in Conns
               PROVE  /\ Len(replies'[c]) <= 1
                      /\ request'[c] # NoRequest /\ c \notin open => Settled(c)'
    BY DEF OneAnswer
  <2>1. CASE c # k
    BY <2>1 DEF IInv, OneAnswer, Settled
  <2>2. CASE c = k
    BY <1>1, <2>2
  <2> QED BY <2>1, <2>2
<1>9. OnlyAdmitted'
  <2> SUFFICES ASSUME NEW c \in Conns, Served(c)' PROVE Admitted(c)'
    BY DEF OnlyAdmitted
  <2>1. CASE c # k
    <3>1. Served(c)
      BY <2>1 DEF Served
    <3> QED BY <2>1, <3>1 DEF IInv, OnlyAdmitted, Admitted
  <2>2. CASE c = k
    <3>1. CASE \E i \in 1..Len(replies'[k]) : replies'[k][i] \notin Errors
      BY <2>2, <3>1
    <3>2. CASE \E v \in Workers : job[v] = k /\ origin'[v]
      <4>1. origin'[w]
        BY <1>1, <3>2 DEF IInv, OwnerInv
      <4> QED BY <2>2, <4>1 DEF Standing
    <3> QED BY <2>2, <3>1, <3>2 DEF Served
  <2> QED BY <2>1, <2>2
<1> QED BY <1>3, <1>4, <1>5, <1>6, <1>7, <1>8, <1>9 DEF IInv

\* The sets of counters that one connection may have counted in.
Tallies ==
  {S \in SUBSET Counters :
     /\ S \cap {"allowed", "blocked", "rate_limited"} # {} => "total" \in S
     /\ "cached" \in S => "allowed" \in S
     /\ ~({"allowed", "blocked"} \subseteq S)
     /\ ~({"allowed", "rate_limited"} \subseteq S)
     /\ ~({"blocked", "rate_limited"} \subseteq S)}

LEMMA OnceFacts ==
  ASSUME NEW S \in SUBSET Counters
  PROVE  /\ Once(S) \in [Counters -> Nat]
         /\ \A m \in Counters : Once(S)[m] = IF m \in S THEN 1 ELSE 0
         /\ \A m \in Counters \ S : [Once(S) EXCEPT ![m] = @ + 1] = Once(S \cup {m})
<1>1. \A m \in Counters : Once(S)[m] = IF m \in S THEN 1 ELSE 0
  BY DEF Once
<1>2. Once(S) \in [Counters -> Nat]
  BY DEF Once
<1>3. ASSUME NEW m \in Counters \ S
      PROVE  [Once(S) EXCEPT ![m] = @ + 1] = Once(S \cup {m})
  <2> DEFINE f == [Once(S) EXCEPT ![m] = @ + 1]
  <2>1. f = [n \in Counters |-> IF n = m THEN Once(S)[m] + 1 ELSE Once(S)[n]]
    BY DEF Once
  <2>2. Once(S)[m] = 0
    BY <1>1
  <2>3. \A n \in Counters : f[n] = IF n \in S \cup {m} THEN 1 ELSE 0
    BY <1>1, <2>1, <2>2
  <2> HIDE DEF f
  <2>4. f = [n \in Counters |-> f[n]]
    BY <2>1
  <2> QED BY <2>3, <2>4 DEF Once, f
<1> QED BY <1>1, <1>2, <1>3

LEMMA TallyFacts ==
  ASSUME NEW S \in Tallies, NEW c \in Conns, metrics'[c] = Once(S)
  PROVE  LedgerOf(c)'
<1>1. S \in SUBSET Counters
  BY DEF Tallies
<1>2. \A m \in Counters : metrics'[c][m] = IF m \in S THEN 1 ELSE 0
  BY <1>1, OnceFacts
<1>3. /\ metrics'[c].total = IF "total" \in S THEN 1 ELSE 0
      /\ metrics'[c].allowed = IF "allowed" \in S THEN 1 ELSE 0
      /\ metrics'[c].blocked = IF "blocked" \in S THEN 1 ELSE 0
      /\ metrics'[c].rate_limited = IF "rate_limited" \in S THEN 1 ELSE 0
      /\ metrics'[c].cached = IF "cached" \in S THEN 1 ELSE 0
      /\ metrics'[c].errors = IF "errors" \in S THEN 1 ELSE 0
  BY <1>2 DEF Counters
<1>4. /\ "allowed" \in S \/ "blocked" \in S \/ "rate_limited" \in S => "total" \in S
      /\ "cached" \in S => "allowed" \in S
      /\ ~("allowed" \in S /\ "blocked" \in S)
      /\ ~("allowed" \in S /\ "rate_limited" \in S)
      /\ ~("blocked" \in S /\ "rate_limited" \in S)
  BY DEF Tallies
<1> QED
  BY <1>3, <1>4 DEF LedgerOf

\* How a step of handle_client leaves the connection and the locals of w.
Becomes(w, label, r, S, said, o, e) ==
  /\ Goto(w, label) /\ UNCHANGED <<server, job, seen, open>>
  /\ request' = [request EXCEPT ![job[w]] = r]
  /\ metrics' = [metrics EXCEPT ![job[w]] = Once(S)]
  /\ replies' = [replies EXCEPT ![job[w]] = said]
  /\ origin' = [origin EXCEPT ![w] = o]
  /\ reply' = [reply EXCEPT ![w] = e]

\* What Standing says of such values.
Allowable(r, S) ==
  r.kind = "request" /\ r.asks.authentic /\ ~r.asks.blocked /\ "rate_limited" \notin S

Accounted(r, S, said) ==
  /\ said = <<>> => "errors" \in S \/ "allowed" \in S \/ r.kind = "empty"
  /\ said = <<"400">> => "errors" \in S /\ "total" \notin S
  /\ said = <<"502">> => "errors" \in S /\ "allowed" \in S
  /\ said = <<"403">> => "blocked" \in S
  /\ said = <<"429">> => "rate_limited" \in S
  /\ "errors" \in S => said \in {<<>>, <<"400">>, <<"502">>}

Stands(label, r, S, said, o, e) ==
  /\ o => Allowable(r, S)
  /\ label \in {"receive", "limit", "authenticate", "filter"} => ~o
  /\ label = "receive" => r = NoRequest /\ S = {} /\ said = <<>>
  /\ label # "receive" => r # NoRequest
  /\ label \in {"limit", "authenticate", "filter"} =>
       r.kind = "request" /\ S = {"total"} /\ said = <<>>
  /\ label = "filter" => r.asks.authentic
  /\ label \in {"dispatch", "stream", "tunnel"} =>
       /\ Allowable(r, S) /\ S = {"total", "allowed"}
       /\ said = IF label = "tunnel" THEN <<"established">> ELSE <<>>
  /\ label = "reply" => e \in Errors /\ S = Grounds(e) /\ said = <<>>
  /\ label = "count_error" =>
       \E status \in {"400", "502"} : S = Grounds(status) /\ said = <<status>>
  /\ label = "except" => (\E status \in Errors : S = Grounds(status)) /\ said = <<>>
  /\ label = "close" => Accounted(r, S, said)

LEMMA OnceReads ==
  ASSUME NEW c \in Conns, NEW S \in SUBSET Counters, metrics[c] = Once(S)
  PROVE  /\ metrics[c].total = IF "total" \in S THEN 1 ELSE 0
         /\ metrics[c].allowed = IF "allowed" \in S THEN 1 ELSE 0
         /\ metrics[c].blocked = IF "blocked" \in S THEN 1 ELSE 0
         /\ metrics[c].rate_limited = IF "rate_limited" \in S THEN 1 ELSE 0
         /\ metrics[c].errors = IF "errors" \in S THEN 1 ELSE 0
BY OnceFacts DEF Counters

LEMMA OnceDiffers ==
  ASSUME NEW S \in SUBSET Counters, NEW T \in SUBSET Counters, Once(S) = Once(T)
  PROVE  S = T
<1>1. \A m \in Counters : Once(S)[m] = (IF m \in S THEN 1 ELSE 0)
                       /\ Once(T)[m] = (IF m \in T THEN 1 ELSE 0)
  BY OnceFacts
<1>2. \A m \in Counters : m \in S <=> m \in T
  BY <1>1
<1> QED BY <1>2

LEMMA GroundsFacts ==
  /\ \A status \in Errors : Grounds(status) \in Tallies /\ Grounds(status) \in SUBSET Counters
  /\ Grounds("400") = {} /\ Grounds("407") = {"total"}
  /\ Grounds("429") = {"total", "rate_limited"} /\ Grounds("403") = {"total", "blocked"}
  /\ Grounds("502") = {"total", "allowed"}
BY DEF Grounds, Errors, Tallies, Counters

\* Standing, by values ...
LEMMA StandingRead ==
  ASSUME IInv, NEW w \in Workers, pc[w] # "idle",
         NEW S \in SUBSET Counters, metrics[job[w]] = Once(S)
  PROVE  Stands(pc[w], request[job[w]], S, replies[job[w]], origin[w], reply[w])
<1> DEFINE c == job[w]
<1>1. c \in Conns /\ Standing(w)
  BY BusyHasJob DEF IInv
<1>2. Admitted(c) => Allowable(request[c], S)
  BY <1>1, OnceReads DEF Admitted, Allowable
<1>3. \A T \in SUBSET Counters : metrics[c] = Once(T) => S = T
  BY OnceDiffers
<1>4. /\ {} \in SUBSET Counters /\ {"total"} \in SUBSET Counters
      /\ {"total", "allowed"} \in SUBSET Counters
  BY DEF Counters
<1>5. Settled(c) => Accounted(request[c], S, replies[c])
  BY <1>1, OnceReads DEF Settled, Accounted
<1> QED
  BY <1>1, <1>2, <1>3, <1>4, <1>5, GroundsFacts DEF Standing, Stands, Fresh

\* ... and back.
LEMMA StandingWritten ==
  ASSUME IInv, NEW w \in Workers, pc[w] # "idle",
         NEW label \in PCs \ {"idle"}, NEW r \in Received, NEW S \in Tallies,
         NEW said \in Seq(Responses), NEW o \in BOOLEAN, NEW e \in Errors \cup {NoReply},
         Becomes(w, label, r, S, said, o, e), Stands(label, r, S, said, o, e)
  PROVE  /\ Standing(w)' /\ TypeOK' /\ LedgerOf(job[w])'
         /\ Allowable(r, S) => Admitted(job[w])'
<1> DEFINE c == job[w]
<1>1. c \in Conns /\ TypeOK /\ S \in SUBSET Counters
  BY BusyHasJob DEF IInv, Tallies
<1>2. TypeOK'
  <2>1. metrics' \in [Conns -> [Counters -> Nat]]
    BY <1>1, OnceFacts DEF TypeOK, Becomes
  <2>2. pc' \in [Workers -> PCs]
    BY <1>1 DEF TypeOK, Goto, Becomes
  <2>3. /\ request' \in [Conns -> Received] /\ replies' \in [Conns -> Seq(Responses)]
        /\ origin' \in [Workers -> BOOLEAN] /\ reply' \in [Workers -> Errors \cup {NoReply}]
    BY <1>1 DEF TypeOK, Becomes
  <2> QED BY <1>1, <2>1, <2>2, <2>3 DEF TypeOK, server, Becomes
<1>3. /\ pc'[w] = label /\ job'[w] = c /\ origin'[w] = o /\ reply'[w] = e
      /\ request'[c] = r /\ metrics'[c] = Once(S) /\ replies'[c] = said
  BY <1>1 DEF TypeOK, Goto, Becomes
<1>4. /\ metrics'[c].total = IF "total" \in S THEN 1 ELSE 0
      /\ metrics'[c].allowed = IF "allowed" \in S THEN 1 ELSE 0
      /\ metrics'[c].blocked = IF "blocked" \in S THEN 1 ELSE 0
      /\ metrics'[c].rate_limited = IF "rate_limited" \in S THEN 1 ELSE 0
      /\ metrics'[c].errors = IF "errors" \in S THEN 1 ELSE 0
  BY <1>1, <1>3, OnceFacts DEF Counters
<1>5. Allowable(r, S) => Admitted(c)'
  BY <1>3, <1>4 DEF Admitted, Allowable
<1>6. Accounted(r, S, said) => Settled(c)'
  BY <1>3, <1>4 DEF Settled, Accounted
<1>7. r = NoRequest /\ S = {} /\ said = <<>> => Fresh(c)'
  BY <1>3 DEF Fresh
<1>8. LedgerOf(c)'
  BY <1>1, <1>3, TallyFacts DEF LedgerOf
<1>9. Standing(w)'
  BY <1>3, <1>5, <1>6, <1>7 DEF Standing, Stands
<1> QED BY <1>2, <1>5, <1>8, <1>9

\* Of the right types, and nothing but an error said to whom is not admitted.
Sound(label, r, S, said, o, e) ==
  /\ label \in PCs \ {"idle"} /\ r \in Received /\ S \in Tallies
  /\ said = <<>> \/ \E x \in Responses : said = <<x>> /\ (x \in Errors \/ Allowable(r, S))
  /\ o \in BOOLEAN /\ e \in Errors \cup {NoReply}

LEMMA BecomesKeeps ==
  ASSUME IInv, NEW w \in Workers, pc[w] # "idle",
         NEW label, NEW r, NEW S, NEW said, NEW o, NEW e,
         Becomes(w, label, r, S, said, o, e), Stands(label, r, S, said, o, e),
         Sound(label, r, S, said, o, e)
  PROVE  IInv'
<1>1. job[w] \in Conns /\ TypeOK
  BY BusyHasJob DEF IInv
<1>2. /\ label \in PCs \ {"idle"} /\ r \in Received /\ S \in Tallies
      /\ o \in BOOLEAN /\ e \in Errors \cup {NoReply}
  BY DEF Sound
<1>3. said \in Seq(Responses) /\ Len(said) <= 1
  <2>1. CASE said = <<>>
    BY <2>1
  <2>2. ASSUME NEW x \in Responses, said = <<x>>
        PROVE  said \in Seq(Responses) /\ Len(said) <= 1
    BY <2>2
  <2> QED BY <2>1, <2>2 DEF Sound
<1>4. (\E i \in 1..Len(said) : said[i] \notin Errors) => Allowable(r, S)
  <2>1. CASE said = <<>>
    BY <2>1
  <2>2. ASSUME NEW x \in Responses, said = <<x>>, x \in Errors \/ Allowable(r, S)
        PROVE  (\E i \in 1..Len(said) : said[i] \notin Errors) => Allowable(r, S)
    BY <2>2
  <2> QED BY <2>1, <2>2 DEF Sound
<1>5. /\ Standing(w)' /\ TypeOK' /\ LedgerOf(job[w])'
      /\ Allowable(r, S) => Admitted(job[w])'
  BY <1>2, <1>3, StandingWritten
<1>6. replies'[job[w]] = said
  BY <1>1 DEF Becomes, TypeOK
<1>7. /\ \A c \in Conns \ {job[w]} :
           request'[c] = request[c] /\ metrics'[c] = metrics[c] /\ replies'[c] = replies[c]
      /\ \A v \in Workers \ {w} : origin'[v] = origin[v] /\ reply'[v] = reply[v]
  BY <1>1 DEF TypeOK, Becomes
<1>8. Goto(w, label) /\ UNCHANGED <<server, job, seen, open>>
  BY DEF Becomes
<1> QED
  BY <1>2, <1>3, <1>4, <1>5, <1>6, <1>7, <1>8, HandlingKeeps

\* The parts of Becomes, for a worker whose connection has counted in S.
LEMMA Parts ==
  ASSUME IInv, NEW w \in Workers, pc[w] # "idle",
         NEW S \in SUBSET Counters, metrics[job[w]] = Once(S)
  PROVE  /\ request[job[w]] \in Received /\ replies[job[w]] \in Seq(Responses)
         /\ origin[w] \in BOOLEAN /\ reply[w] \in Errors \cup {NoReply}
         /\ UNCHANGED request => request' = [request EXCEPT ![job[w]] = request[job[w]]]
         /\ UNCHANGED metrics => metrics' = [metrics EXCEPT ![job[w]] = Once(S)]
         /\ UNCHANGED replies => replies' = [replies EXCEPT ![job[w]] = replies[job[w]]]
         /\ \A x : replies[job[w]] = <<>> /\ Delivers(w, x) =>
                   replies' = [replies EXCEPT ![job[w]] = <<x>>]
         /\ UNCHANGED origin => origin' = [origin EXCEPT ![w] = origin[w]]
         /\ UNCHANGED reply => reply' = [reply EXCEPT ![w] = reply[w]]
<1>1. job[w] \in Conns /\ TypeOK
  BY BusyHasJob DEF IInv
<1>2. \A x : replies[job[w]] = <<>> /\ Delivers(w, x) =>
            replies' = [replies EXCEPT ![job[w]] = <<x>>]
  BY <1>1, OneElement DEF Delivers, TypeOK
<1> QED
  BY <1>1, <1>2 DEF TypeOK

LEMMA Counting ==
  ASSUME IInv, NEW w \in Workers, pc[w] # "idle",
         NEW S \in SUBSET Counters, metrics[job[w]] = Once(S),
         NEW m \in Counters \ S, Increment(w, m)
  PROVE  metrics' = [metrics EXCEPT ![job[w]] = Once(S \cup {m})]
<1>1. job[w] \in Conns /\ TypeOK
  BY BusyHasJob DEF IInv
<1>2. metrics' = [metrics EXCEPT ![job[w]] = [metrics[job[w]] EXCEPT ![m] = @ + 1]]
  BY <1>1 DEF Increment, TypeOK
<1>3. [metrics[job[w]] EXCEPT ![m] = @ + 1] = Once(S \cup {m})
  BY OnceFacts
<1> QED BY <1>2, <1>3

LEMMA KnownTallies ==
  /\ {} \in Tallies /\ {"errors"} \in Tallies
  /\ {"total"} \in Tallies /\ {"total", "allowed"} \in Tallies
  /\ {"total", "allowed", "cached"} \in Tallies
  /\ {"total", "allowed", "errors"} \in Tallies
  /\ \A S \in Tallies : S \cup {"errors"} \in Tallies /\ S \in SUBSET Counters
BY DEF Tallies, Counters

-----------------------------------------------------------------------------
(* handle_client *)

LEMMA ReceiveKeeps ==
  ASSUME IInv, NEW w \in Workers, receive(w)
  PROVE  IInv'
<1> DEFINE c == job[w]
<1>1. /\ pc[w] = "receive" /\ pc[w] # "idle" /\ c \in Conns /\ TypeOK /\ Standing(w)
      /\ UNCHANGED <<server, job, seen, open>>
  BY BusyHasJob DEF receive, Asks, IInv, clients
<1>2. metrics[c] = Once({}) /\ {} \in SUBSET Counters /\ {} \in Tallies
  BY <1>1, KnownTallies, GroundsFacts DEF Standing, Fresh
<1>3. Stands(pc[w], request[c], {}, replies[c], origin[w], reply[w])
  BY <1>1, <1>2, StandingRead
<1>4. /\ request[c] \in Received /\ origin[w] \in BOOLEAN /\ reply[w] \in Errors \cup {NoReply}
      /\ replies[c] = <<>> /\ origin[w] = FALSE
  BY <1>1, <1>2, <1>3, Parts DEF Stands
<1>5. CASE /\ request' = [request EXCEPT ![c] = [kind |-> "empty"]]
           /\ Goto(w, "close") /\ UNCHANGED <<reply, metrics>>
  <2>1. metrics' = [metrics EXCEPT ![c] = Once({})]
    BY <1>1, <1>2, <1>5, Parts DEF receive, clients
  <2>2. Becomes(w, "close", [kind |-> "empty"], {}, <<>>, FALSE, reply[w])
    BY <1>1, <1>2, <1>4, <1>5, <2>1, Parts DEF receive, Becomes, Sends, dial, clients
  <2>3. Stands("close", [kind |-> "empty"], {}, <<>>, FALSE, reply[w])
    BY <1>1, <1>3, <1>4, <1>5, GroundsFacts, OneElement DEF Stands, Accounted, Errors, Allowable, NoRequest
  <2>4. Sound("close", [kind |-> "empty"], {}, <<>>, FALSE, reply[w])
    BY <1>2, <1>3, <1>4, <1>5, KnownTallies, GroundsFacts DEF Sound, Stands, Allowable, PCs, Errors, Responses, NoReply, Received, Garbage
  <2> QED BY <1>1, <2>2, <2>3, <2>4, BecomesKeeps
<1>6. CASE /\ request' = [request EXCEPT ![c] = [kind |-> "malformed"]]
           /\ Goto(w, "reply") /\ Sends(w, "400") /\ UNCHANGED metrics
  <2>1. metrics' = [metrics EXCEPT ![c] = Once({})]
    BY <1>1, <1>2, <1>6, Parts DEF receive, clients
  <2>2. Becomes(w, "reply", [kind |-> "malformed"], {}, <<>>, FALSE, "400")
    BY <1>1, <1>2, <1>4, <1>6, <2>1, Parts DEF receive, Becomes, Sends, dial, clients
  <2>3. Stands("reply", [kind |-> "malformed"], {}, <<>>, FALSE, "400")
    BY <1>1, <1>3, <1>4, <1>6, GroundsFacts, OneElement DEF Stands, Accounted, Errors, Allowable, NoRequest
  <2>4. Sound("reply", [kind |-> "malformed"], {}, <<>>, FALSE, "400")
    BY <1>2, <1>3, <1>4, <1>6, KnownTallies, GroundsFacts DEF Sound, Stands, Allowable, PCs, Errors, Responses, NoReply, Received, Garbage
  <2> QED BY <1>1, <2>2, <2>3, <2>4, BecomesKeeps
<1>7. CASE /\ request' = [request EXCEPT ![c] = [kind |-> "raising"]]
           /\ Goto(w, "except") /\ UNCHANGED <<reply, metrics>>
  <2>1. metrics' = [metrics EXCEPT ![c] = Once({})]
    BY <1>1, <1>2, <1>7, Parts DEF receive, clients
  <2>2. Becomes(w, "except", [kind |-> "raising"], {}, <<>>, FALSE, reply[w])
    BY <1>1, <1>2, <1>4, <1>7, <2>1, Parts DEF receive, Becomes, Sends, dial, clients
  <2>3. Stands("except", [kind |-> "raising"], {}, <<>>, FALSE, reply[w])
    BY <1>1, <1>3, <1>4, <1>7, GroundsFacts, OneElement DEF Stands, Accounted, Errors, Allowable, NoRequest
  <2>4. Sound("except", [kind |-> "raising"], {}, <<>>, FALSE, reply[w])
    BY <1>2, <1>3, <1>4, <1>7, KnownTallies, GroundsFacts DEF Sound, Stands, Allowable, PCs, Errors, Responses, NoReply, Received, Garbage
  <2> QED BY <1>1, <2>2, <2>3, <2>4, BecomesKeeps
<1>8. ASSUME NEW asks \in Requests,
             request' = [request EXCEPT ![c] = [kind |-> "request", asks |-> asks]],
             Increment(w, "total"), Goto(w, "limit"), UNCHANGED reply
      PROVE  IInv'
  <2>1. metrics' = [metrics EXCEPT ![c] = Once({"total"})]
    <3>1. Increment(w, "total") /\ "total" \in Counters \ {}
      BY <1>1, <1>2, <1>8, GroundsFacts DEF receive, Counters
    <3>2. metrics' = [metrics EXCEPT ![c] = Once({} \cup {"total"})]
      BY <1>1, <1>2, <3>1, Counting
    <3>3. {} \cup {"total"} = {"total"}
      BY GroundsFacts
    <3> QED BY <3>2, <3>3
  <2>2. Becomes(w, "limit", [kind |-> "request", asks |-> asks], {"total"}, <<>>, FALSE, reply[w])
    BY <1>1, <1>2, <1>4, <1>8, <2>1, Parts DEF receive, Becomes, Sends, dial, clients
  <2>3. Stands("limit", [kind |-> "request", asks |-> asks], {"total"}, <<>>, FALSE, reply[w])
    BY <1>1, <1>3, <1>4, <1>8, GroundsFacts, OneElement DEF Stands, Accounted, Errors, Allowable, NoRequest
  <2>4. Sound("limit", [kind |-> "request", asks |-> asks], {"total"}, <<>>, FALSE, reply[w])
    BY <1>2, <1>3, <1>4, <1>8, KnownTallies, GroundsFacts DEF Sound, Stands, Allowable, PCs, Errors, Responses, NoReply, Received
  <2> QED BY <1>1, <2>2, <2>3, <2>4, BecomesKeeps
<1> QED BY <1>1, <1>5, <1>6, <1>7, <1>8 DEF receive, Garbage

LEMMA RateLimitKeeps ==
  ASSUME IInv, NEW w \in Workers, rate_limit(w)
  PROVE  IInv'
<1> DEFINE c == job[w]
<1>1. /\ pc[w] = "limit" /\ pc[w] # "idle" /\ c \in Conns /\ TypeOK /\ Standing(w)
      /\ UNCHANGED <<server, job, seen, open>>
  BY BusyHasJob DEF rate_limit, Asks, IInv, clients
<1>2. metrics[c] = Once({"total"}) /\ {"total"} \in SUBSET Counters /\ {"total"} \in Tallies
  BY <1>1, KnownTallies, GroundsFacts DEF Standing, Fresh
<1>3. Stands(pc[w], request[c], {"total"}, replies[c], origin[w], reply[w])
  BY <1>1, <1>2, StandingRead
<1>4. /\ request[c] \in Received /\ origin[w] \in BOOLEAN /\ reply[w] \in Errors \cup {NoReply}
      /\ replies[c] = <<>> /\ origin[w] = FALSE /\ request[c].kind = "request"
  BY <1>1, <1>2, <1>3, Parts DEF Stands
<1>5. CASE Goto(w, "authenticate") /\ UNCHANGED <<reply, metrics>>
  <2>1. metrics' = [metrics EXCEPT ![c] = Once({"total"})]
    BY <1>1, <1>2, <1>5, Parts DEF rate_limit, clients
  <2>2. Becomes(w, "authenticate", request[c], {"total"}, <<>>, FALSE, reply[w])
    BY <1>1, <1>2, <1>4, <1>5, <2>1, Parts DEF rate_limit, Becomes, Sends, dial, clients
  <2>3. Stands("authenticate", request[c], {"total"}, <<>>, FALSE, reply[w])
    BY <1>1, <1>3, <1>4, <1>5, GroundsFacts, OneElement DEF Stands, Accounted, Errors, Allowable, NoRequest
  <2>4. Sound("authenticate", request[c], {"total"}, <<>>, FALSE, reply[w])
    BY <1>2, <1>3, <1>4, <1>5, KnownTallies, GroundsFacts DEF Sound, Stands, Allowable, PCs, Errors, Responses, NoReply
  <2> QED BY <1>1, <2>2, <2>3, <2>4, BecomesKeeps
<1>6. CASE Increment(w, "rate_limited") /\ Sends(w, "429") /\ Goto(w, "reply")
  <2>1. metrics' = [metrics EXCEPT ![c] = Once({"total", "rate_limited"})]
    <3>1. Increment(w, "rate_limited") /\ "rate_limited" \in Counters \ {"total"}
      BY <1>1, <1>2, <1>6, GroundsFacts DEF rate_limit, Counters
    <3>2. metrics' = [metrics EXCEPT ![c] = Once({"total"} \cup {"rate_limited"})]
      BY <1>1, <1>2, <3>1, Counting
    <3>3. {"total"} \cup {"rate_limited"} = {"total", "rate_limited"}
      BY GroundsFacts
    <3> QED BY <3>2, <3>3
  <2>2. Becomes(w, "reply", request[c], {"total", "rate_limited"}, <<>>, FALSE, "429")
    BY <1>1, <1>2, <1>4, <1>6, <2>1, Parts DEF rate_limit, Becomes, Sends, dial, clients
  <2>3. Stands("reply", request[c], {"total", "rate_limited"}, <<>>, FALSE, "429")
    BY <1>1, <1>3, <1>4, <1>6, GroundsFacts, OneElement DEF Stands, Accounted, Errors, Allowable, NoRequest
  <2>4. Sound("reply", request[c], {"total", "rate_limited"}, <<>>, FALSE, "429")
    BY <1>2, <1>3, <1>4, <1>6, KnownTallies, GroundsFacts DEF Sound, Stands, Allowable, PCs, Errors, Responses, NoReply
  <2> QED BY <1>1, <2>2, <2>3, <2>4, BecomesKeeps
<1> QED BY <1>1, <1>5, <1>6 DEF rate_limit

LEMMA CheckAuthKeeps ==
  ASSUME IInv, NEW w \in Workers, check_auth(w)
  PROVE  IInv'
<1> DEFINE c == job[w]
<1>1. /\ pc[w] = "authenticate" /\ pc[w] # "idle" /\ c \in Conns /\ TypeOK /\ Standing(w)
      /\ UNCHANGED <<server, job, seen, open>>
  BY BusyHasJob DEF check_auth, Asks, IInv, clients
<1>2. metrics[c] = Once({"total"}) /\ {"total"} \in SUBSET Counters /\ {"total"} \in Tallies
  BY <1>1, KnownTallies, GroundsFacts DEF Standing, Fresh
<1>3. Stands(pc[w], request[c], {"total"}, replies[c], origin[w], reply[w])
  BY <1>1, <1>2, StandingRead
<1>4. /\ request[c] \in Received /\ origin[w] \in BOOLEAN /\ reply[w] \in Errors \cup {NoReply}
      /\ replies[c] = <<>> /\ origin[w] = FALSE /\ request[c].kind = "request"
  BY <1>1, <1>2, <1>3, Parts DEF Stands
<1>5. CASE request[c].asks.authentic /\ Goto(w, "filter") /\ UNCHANGED reply
  <2>1. metrics' = [metrics EXCEPT ![c] = Once({"total"})]
    BY <1>1, <1>2, <1>5, Parts DEF check_auth, clients
  <2>2. Becomes(w, "filter", request[c], {"total"}, <<>>, FALSE, reply[w])
    BY <1>1, <1>2, <1>4, <1>5, <2>1, Parts DEF check_auth, Becomes, Sends, dial, clients
  <2>3. Stands("filter", request[c], {"total"}, <<>>, FALSE, reply[w])
    BY <1>1, <1>3, <1>4, <1>5, GroundsFacts, OneElement DEF Stands, Accounted, Errors, Allowable, NoRequest
  <2>4. Sound("filter", request[c], {"total"}, <<>>, FALSE, reply[w])
    BY <1>2, <1>3, <1>4, <1>5, KnownTallies, GroundsFacts DEF Sound, Stands, Allowable, PCs, Errors, Responses, NoReply
  <2> QED BY <1>1, <2>2, <2>3, <2>4, BecomesKeeps
<1>6. CASE Sends(w, "407") /\ Goto(w, "reply")
  <2>1. metrics' = [metrics EXCEPT ![c] = Once({"total"})]
    BY <1>1, <1>2, <1>6, Parts DEF check_auth, clients
  <2>2. Becomes(w, "reply", request[c], {"total"}, <<>>, FALSE, "407")
    BY <1>1, <1>2, <1>4, <1>6, <2>1, Parts DEF check_auth, Becomes, Sends, dial, clients
  <2>3. Stands("reply", request[c], {"total"}, <<>>, FALSE, "407")
    BY <1>1, <1>3, <1>4, <1>6, GroundsFacts, OneElement DEF Stands, Accounted, Errors, Allowable, NoRequest
  <2>4. Sound("reply", request[c], {"total"}, <<>>, FALSE, "407")
    BY <1>2, <1>3, <1>4, <1>6, KnownTallies, GroundsFacts DEF Sound, Stands, Allowable, PCs, Errors, Responses, NoReply
  <2> QED BY <1>1, <2>2, <2>3, <2>4, BecomesKeeps
<1>7. CASE Goto(w, "except") /\ UNCHANGED reply
  <2>1. metrics' = [metrics EXCEPT ![c] = Once({"total"})]
    BY <1>1, <1>2, <1>7, Parts DEF check_auth, clients
  <2>2. Becomes(w, "except", request[c], {"total"}, <<>>, FALSE, reply[w])
    BY <1>1, <1>2, <1>4, <1>7, <2>1, Parts DEF check_auth, Becomes, Sends, dial, clients
  <2>3. Stands("except", request[c], {"total"}, <<>>, FALSE, reply[w])
    BY <1>1, <1>3, <1>4, <1>7, GroundsFacts, OneElement DEF Stands, Accounted, Errors, Allowable, NoRequest
  <2>4. Sound("except", request[c], {"total"}, <<>>, FALSE, reply[w])
    BY <1>2, <1>3, <1>4, <1>7, KnownTallies, GroundsFacts DEF Sound, Stands, Allowable, PCs, Errors, Responses, NoReply
  <2> QED BY <1>1, <2>2, <2>3, <2>4, BecomesKeeps
<1> QED BY <1>1, <1>5, <1>6, <1>7 DEF check_auth

LEMMA FilterKeeps ==
  ASSUME IInv, NEW w \in Workers, filter(w)
  PROVE  IInv'
<1> DEFINE c == job[w]
<1>1. /\ pc[w] = "filter" /\ pc[w] # "idle" /\ c \in Conns /\ TypeOK /\ Standing(w)
      /\ UNCHANGED <<server, job, seen, open>>
  BY BusyHasJob DEF filter, Asks, IInv, clients
<1>2. metrics[c] = Once({"total"}) /\ {"total"} \in SUBSET Counters /\ {"total"} \in Tallies
  BY <1>1, KnownTallies, GroundsFacts DEF Standing, Fresh
<1>3. Stands(pc[w], request[c], {"total"}, replies[c], origin[w], reply[w])
  BY <1>1, <1>2, StandingRead
<1>4. /\ request[c] \in Received /\ origin[w] \in BOOLEAN /\ reply[w] \in Errors \cup {NoReply}
      /\ replies[c] = <<>> /\ origin[w] = FALSE /\ request[c].kind = "request" /\ request[c].asks.authentic
  BY <1>1, <1>2, <1>3, Parts DEF Stands
<1>5. CASE /\ Increment(w, "blocked") /\ Sends(w, "403") /\ Goto(w, "reply")
  <2>1. metrics' = [metrics EXCEPT ![c] = Once({"total", "blocked"})]
    <3>1. Increment(w, "blocked") /\ "blocked" \in Counters \ {"total"}
      BY <1>1, <1>2, <1>5, GroundsFacts DEF filter, Counters
    <3>2. metrics' = [metrics EXCEPT ![c] = Once({"total"} \cup {"blocked"})]
      BY <1>1, <1>2, <3>1, Counting
    <3>3. {"total"} \cup {"blocked"} = {"total", "blocked"}
      BY GroundsFacts
    <3> QED BY <3>2, <3>3
  <2>2. Becomes(w, "reply", request[c], {"total", "blocked"}, <<>>, FALSE, "403")
    BY <1>1, <1>2, <1>4, <1>5, <2>1, Parts DEF filter, Becomes, Sends, dial, clients
  <2>3. Stands("reply", request[c], {"total", "blocked"}, <<>>, FALSE, "403")
    BY <1>1, <1>3, <1>4, <1>5, GroundsFacts, OneElement DEF Stands, Accounted, Errors, Allowable, NoRequest
  <2>4. Sound("reply", request[c], {"total", "blocked"}, <<>>, FALSE, "403")
    BY <1>2, <1>3, <1>4, <1>5, KnownTallies, GroundsFacts DEF Sound, Stands, Allowable, PCs, Errors, Responses, NoReply
  <2> QED BY <1>1, <2>2, <2>3, <2>4, BecomesKeeps
<1>6. CASE /\ ~request[c].asks.blocked
           /\ Increment(w, "allowed") /\ Goto(w, "dispatch") /\ UNCHANGED reply
  <2>1. metrics' = [metrics EXCEPT ![c] = Once({"total", "allowed"})]
    <3>1. Increment(w, "allowed") /\ "allowed" \in Counters \ {"total"}
      BY <1>1, <1>2, <1>6, GroundsFacts DEF filter, Counters
    <3>2. metrics' = [metrics EXCEPT ![c] = Once({"total"} \cup {"allowed"})]
      BY <1>1, <1>2, <3>1, Counting
    <3>3. {"total"} \cup {"allowed"} = {"total", "allowed"}
      BY GroundsFacts
    <3> QED BY <3>2, <3>3
  <2>2. Becomes(w, "dispatch", request[c], {"total", "allowed"}, <<>>, FALSE, reply[w])
    BY <1>1, <1>2, <1>4, <1>6, <2>1, Parts DEF filter, Becomes, Sends, dial, clients
  <2>3. Stands("dispatch", request[c], {"total", "allowed"}, <<>>, FALSE, reply[w])
    BY <1>1, <1>3, <1>4, <1>6, GroundsFacts, OneElement DEF Stands, Accounted, Errors, Allowable, NoRequest
  <2>4. Sound("dispatch", request[c], {"total", "allowed"}, <<>>, FALSE, reply[w])
    BY <1>2, <1>3, <1>4, <1>6, KnownTallies, GroundsFacts DEF Sound, Stands, Allowable, PCs, Errors, Responses, NoReply
  <2> QED BY <1>1, <2>2, <2>3, <2>4, BecomesKeeps
<1> QED BY <1>1, <1>5, <1>6 DEF filter

LEMMA OpenTunnelKeeps ==
  ASSUME IInv, NEW w \in Workers, open_tunnel(w)
  PROVE  IInv'
<1> DEFINE c == job[w]
<1>1. /\ pc[w] = "dispatch" /\ pc[w] # "idle" /\ c \in Conns /\ TypeOK /\ Standing(w)
      /\ UNCHANGED <<server, job, seen, open>>
  BY BusyHasJob DEF open_tunnel, Asks, IInv, clients
<1>2. metrics[c] = Once({"total", "allowed"}) /\ {"total", "allowed"} \in SUBSET Counters /\ {"total", "allowed"} \in Tallies
  BY <1>1, KnownTallies, GroundsFacts DEF Standing, Fresh
<1>3. Stands(pc[w], request[c], {"total", "allowed"}, replies[c], origin[w], reply[w])
  BY <1>1, <1>2, StandingRead
<1>4. /\ request[c] \in Received /\ origin[w] \in BOOLEAN /\ reply[w] \in Errors \cup {NoReply}
      /\ replies[c] = <<>> /\ Allowable(request[c], {"total", "allowed"})
  BY <1>1, <1>2, <1>3, Parts DEF Stands
<1>5. metrics' = [metrics EXCEPT ![c] = Once({"total", "allowed"})]
  BY <1>1, <1>2, Parts DEF open_tunnel, clients
<1>6. Becomes(w, "tunnel", request[c], {"total", "allowed"}, <<"established">>, TRUE, reply[w])
  BY <1>1, <1>2, <1>4, <1>5, Parts DEF open_tunnel, Becomes, Sends, dial, clients
<1>7. Stands("tunnel", request[c], {"total", "allowed"}, <<"established">>, TRUE, reply[w])
  BY <1>1, <1>3, <1>4, GroundsFacts, OneElement DEF Stands, Accounted, Errors, Allowable, NoRequest
<1>8. Sound("tunnel", request[c], {"total", "allowed"}, <<"established">>, TRUE, reply[w])
  BY <1>2, <1>3, <1>4, KnownTallies, GroundsFacts DEF Sound, Stands, Allowable, PCs, Errors, Responses, NoReply
<1> QED BY <1>1, <1>6, <1>7, <1>8, BecomesKeeps

LEMMA EndTunnelKeeps ==
  ASSUME IInv, NEW w \in Workers, end_tunnel(w)
  PROVE  IInv'
<1> DEFINE c == job[w]
<1>1. /\ pc[w] = "tunnel" /\ pc[w] # "idle" /\ c \in Conns /\ TypeOK /\ Standing(w)
      /\ UNCHANGED <<server, job, seen, open>>
  BY BusyHasJob DEF end_tunnel, Asks, IInv, clients
<1>2. metrics[c] = Once({"total", "allowed"}) /\ {"total", "allowed"} \in SUBSET Counters /\ {"total", "allowed"} \in Tallies
  BY <1>1, KnownTallies, GroundsFacts DEF Standing, Fresh
<1>3. Stands(pc[w], request[c], {"total", "allowed"}, replies[c], origin[w], reply[w])
  BY <1>1, <1>2, StandingRead
<1>4. /\ request[c] \in Received /\ origin[w] \in BOOLEAN /\ reply[w] \in Errors \cup {NoReply}
      /\ replies[c] = <<"established">> /\ Allowable(request[c], {"total", "allowed"})
  BY <1>1, <1>2, <1>3, Parts DEF Stands
<1>5. metrics' = [metrics EXCEPT ![c] = Once({"total", "allowed"})]
  BY <1>1, <1>2, Parts DEF end_tunnel, clients
<1>6. Becomes(w, "close", request[c], {"total", "allowed"}, <<"established">>, origin[w], reply[w])
  BY <1>1, <1>2, <1>4, <1>5, Parts DEF end_tunnel, Becomes, Sends, dial, clients
<1>7. Stands("close", request[c], {"total", "allowed"}, <<"established">>, origin[w], reply[w])
  BY <1>1, <1>3, <1>4, GroundsFacts, OneElement DEF Stands, Accounted, Errors, Allowable, NoRequest
<1>8. Sound("close", request[c], {"total", "allowed"}, <<"established">>, origin[w], reply[w])
  BY <1>2, <1>3, <1>4, KnownTallies, GroundsFacts DEF Sound, Stands, Allowable, PCs, Errors, Responses, NoReply
<1> QED BY <1>1, <1>6, <1>7, <1>8, BecomesKeeps

LEMMA CacheHitKeeps ==
  ASSUME IInv, NEW w \in Workers, cache_hit(w)
  PROVE  IInv'
<1> DEFINE c == job[w]
<1>1. /\ pc[w] = "dispatch" /\ pc[w] # "idle" /\ c \in Conns /\ TypeOK /\ Standing(w)
      /\ UNCHANGED <<server, job, seen, open>>
  BY BusyHasJob DEF cache_hit, Asks, IInv, clients
<1>2. metrics[c] = Once({"total", "allowed"}) /\ {"total", "allowed"} \in SUBSET Counters /\ {"total", "allowed"} \in Tallies
  BY <1>1, KnownTallies, GroundsFacts DEF Standing, Fresh
<1>3. Stands(pc[w], request[c], {"total", "allowed"}, replies[c], origin[w], reply[w])
  BY <1>1, <1>2, StandingRead
<1>4. /\ request[c] \in Received /\ origin[w] \in BOOLEAN /\ reply[w] \in Errors \cup {NoReply}
      /\ replies[c] = <<>> /\ Allowable(request[c], {"total", "allowed"})
  BY <1>1, <1>2, <1>3, Parts DEF Stands
<1>5. CASE Delivers(w, "cached")
  <2>1. metrics' = [metrics EXCEPT ![c] = Once({"total", "allowed", "cached"})]
    <3>1. Increment(w, "cached") /\ "cached" \in Counters \ {"total", "allowed"}
      BY <1>1, <1>2, <1>5, GroundsFacts DEF cache_hit, Counters
    <3>2. metrics' = [metrics EXCEPT ![c] = Once({"total", "allowed"} \cup {"cached"})]
      BY <1>1, <1>2, <3>1, Counting
    <3>3. {"total", "allowed"} \cup {"cached"} = {"total", "allowed", "cached"}
      BY GroundsFacts
    <3> QED BY <3>2, <3>3
  <2>2. Becomes(w, "close", request[c], {"total", "allowed", "cached"}, <<"cached">>, origin[w], reply[w])
    BY <1>1, <1>2, <1>4, <1>5, <2>1, Parts DEF cache_hit, Becomes, Sends, dial, clients
  <2>3. Stands("close", request[c], {"total", "allowed", "cached"}, <<"cached">>, origin[w], reply[w])
    BY <1>1, <1>3, <1>4, <1>5, GroundsFacts, OneElement DEF Stands, Accounted, Errors, Allowable, NoRequest
  <2>4. Sound("close", request[c], {"total", "allowed", "cached"}, <<"cached">>, origin[w], reply[w])
    BY <1>2, <1>3, <1>4, <1>5, KnownTallies, GroundsFacts DEF Sound, Stands, Allowable, PCs, Errors, Responses, NoReply
  <2> QED BY <1>1, <2>2, <2>3, <2>4, BecomesKeeps
<1>6. CASE UNCHANGED replies
  <2>1. metrics' = [metrics EXCEPT ![c] = Once({"total", "allowed", "cached"})]
    <3>1. Increment(w, "cached") /\ "cached" \in Counters \ {"total", "allowed"}
      BY <1>1, <1>2, <1>6, GroundsFacts DEF cache_hit, Counters
    <3>2. metrics' = [metrics EXCEPT ![c] = Once({"total", "allowed"} \cup {"cached"})]
      BY <1>1, <1>2, <3>1, Counting
    <3>3. {"total", "allowed"} \cup {"cached"} = {"total", "allowed", "cached"}
      BY GroundsFacts
    <3> QED BY <3>2, <3>3
  <2>2. Becomes(w, "close", request[c], {"total", "allowed", "cached"}, <<>>, origin[w], reply[w])
    BY <1>1, <1>2, <1>4, <1>6, <2>1, Parts DEF cache_hit, Becomes, Sends, dial, clients
  <2>3. Stands("close", request[c], {"total", "allowed", "cached"}, <<>>, origin[w], reply[w])
    BY <1>1, <1>3, <1>4, <1>6, GroundsFacts, OneElement DEF Stands, Accounted, Errors, Allowable, NoRequest
  <2>4. Sound("close", request[c], {"total", "allowed", "cached"}, <<>>, origin[w], reply[w])
    BY <1>2, <1>3, <1>4, <1>6, KnownTallies, GroundsFacts DEF Sound, Stands, Allowable, PCs, Errors, Responses, NoReply
  <2> QED BY <1>1, <2>2, <2>3, <2>4, BecomesKeeps
<1> QED BY <1>1, <1>5, <1>6 DEF cache_hit

LEMMA ForwardKeeps ==
  ASSUME IInv, NEW w \in Workers, forward(w)
  PROVE  IInv'
<1> DEFINE c == job[w]
<1>1. /\ pc[w] = "dispatch" /\ pc[w] # "idle" /\ c \in Conns /\ TypeOK /\ Standing(w)
      /\ UNCHANGED <<server, job, seen, open>>
  BY BusyHasJob DEF forward, Asks, IInv, clients
<1>2. metrics[c] = Once({"total", "allowed"}) /\ {"total", "allowed"} \in SUBSET Counters /\ {"total", "allowed"} \in Tallies
  BY <1>1, KnownTallies, GroundsFacts DEF Standing, Fresh
<1>3. Stands(pc[w], request[c], {"total", "allowed"}, replies[c], origin[w], reply[w])
  BY <1>1, <1>2, StandingRead
<1>4. /\ request[c] \in Received /\ origin[w] \in BOOLEAN /\ reply[w] \in Errors \cup {NoReply}
      /\ replies[c] = <<>> /\ Allowable(request[c], {"total", "allowed"})
  BY <1>1, <1>2, <1>3, Parts DEF Stands
<1>5. metrics' = [metrics EXCEPT ![c] = Once({"total", "allowed"})]
  BY <1>1, <1>2, Parts DEF forward, clients
<1>6. Becomes(w, "stream", request[c], {"total", "allowed"}, <<>>, TRUE, reply[w])
  BY <1>1, <1>2, <1>4, <1>5, Parts DEF forward, Becomes, Sends, dial, clients
<1>7. Stands("stream", request[c], {"total", "allowed"}, <<>>, TRUE, reply[w])
  BY <1>1, <1>3, <1>4, GroundsFacts, OneElement DEF Stands, Accounted, Errors, Allowable, NoRequest
<1>8. Sound("stream", request[c], {"total", "allowed"}, <<>>, TRUE, reply[w])
  BY <1>2, <1>3, <1>4, KnownTallies, GroundsFacts DEF Sound, Stands, Allowable, PCs, Errors, Responses, NoReply
<1> QED BY <1>1, <1>6, <1>7, <1>8, BecomesKeeps

LEMMA UnreachableKeeps ==
  ASSUME IInv, NEW w \in Workers, unreachable(w)
  PROVE  IInv'
<1> DEFINE c == job[w]
<1>1. /\ pc[w] = "dispatch" /\ pc[w] # "idle" /\ c \in Conns /\ TypeOK /\ Standing(w)
      /\ UNCHANGED <<server, job, seen, open>>
  BY BusyHasJob DEF unreachable, Asks, IInv, clients
<1>2. metrics[c] = Once({"total", "allowed"}) /\ {"total", "allowed"} \in SUBSET Counters /\ {"total", "allowed"} \in Tallies
  BY <1>1, KnownTallies, GroundsFacts DEF Standing, Fresh
<1>3. Stands(pc[w], request[c], {"total", "allowed"}, replies[c], origin[w], reply[w])
  BY <1>1, <1>2, StandingRead
<1>4. /\ request[c] \in Received /\ origin[w] \in BOOLEAN /\ reply[w] \in Errors \cup {NoReply}
      /\ replies[c] = <<>> /\ Allowable(request[c], {"total", "allowed"})
  BY <1>1, <1>2, <1>3, Parts DEF Stands
<1>5. CASE dial(w)
  <2>1. metrics' = [metrics EXCEPT ![c] = Once({"total", "allowed"})]
    BY <1>1, <1>2, <1>5, Parts DEF unreachable, clients
  <2>2. Becomes(w, "reply", request[c], {"total", "allowed"}, <<>>, TRUE, "502")
    BY <1>1, <1>2, <1>4, <1>5, <2>1, Parts DEF unreachable, Becomes, Sends, dial, clients
  <2>3. Stands("reply", request[c], {"total", "allowed"}, <<>>, TRUE, "502")
    BY <1>1, <1>3, <1>4, <1>5, GroundsFacts, OneElement DEF Stands, Accounted, Errors, Allowable, NoRequest
  <2>4. Sound("reply", request[c], {"total", "allowed"}, <<>>, TRUE, "502")
    BY <1>2, <1>3, <1>4, <1>5, KnownTallies, GroundsFacts DEF Sound, Stands, Allowable, PCs, Errors, Responses, NoReply
  <2> QED BY <1>1, <2>2, <2>3, <2>4, BecomesKeeps
<1>6. CASE UNCHANGED origin
  <2>1. metrics' = [metrics EXCEPT ![c] = Once({"total", "allowed"})]
    BY <1>1, <1>2, <1>6, Parts DEF unreachable, clients
  <2>2. Becomes(w, "reply", request[c], {"total", "allowed"}, <<>>, origin[w], "502")
    BY <1>1, <1>2, <1>4, <1>6, <2>1, Parts DEF unreachable, Becomes, Sends, dial, clients
  <2>3. Stands("reply", request[c], {"total", "allowed"}, <<>>, origin[w], "502")
    BY <1>1, <1>3, <1>4, <1>6, GroundsFacts, OneElement DEF Stands, Accounted, Errors, Allowable, NoRequest
  <2>4. Sound("reply", request[c], {"total", "allowed"}, <<>>, origin[w], "502")
    BY <1>2, <1>3, <1>4, <1>6, KnownTallies, GroundsFacts DEF Sound, Stands, Allowable, PCs, Errors, Responses, NoReply
  <2> QED BY <1>1, <2>2, <2>3, <2>4, BecomesKeeps
<1> QED BY <1>1, <1>5, <1>6 DEF unreachable

LEMMA DispatchErrorKeeps ==
  ASSUME IInv, NEW w \in Workers, dispatch_error(w)
  PROVE  IInv'
<1> DEFINE c == job[w]
<1>1. /\ pc[w] = "dispatch" /\ pc[w] # "idle" /\ c \in Conns /\ TypeOK /\ Standing(w)
      /\ UNCHANGED <<server, job, seen, open>>
  BY BusyHasJob DEF dispatch_error, Asks, IInv, clients
<1>2. metrics[c] = Once({"total", "allowed"}) /\ {"total", "allowed"} \in SUBSET Counters /\ {"total", "allowed"} \in Tallies
  BY <1>1, KnownTallies, GroundsFacts DEF Standing, Fresh
<1>3. Stands(pc[w], request[c], {"total", "allowed"}, replies[c], origin[w], reply[w])
  BY <1>1, <1>2, StandingRead
<1>4. /\ request[c] \in Received /\ origin[w] \in BOOLEAN /\ reply[w] \in Errors \cup {NoReply}
      /\ replies[c] = <<>> /\ Allowable(request[c], {"total", "allowed"})
  BY <1>1, <1>2, <1>3, Parts DEF Stands
<1>5. metrics' = [metrics EXCEPT ![c] = Once({"total", "allowed"})]
  BY <1>1, <1>2, Parts DEF dispatch_error, clients
<1>6. Becomes(w, "except", request[c], {"total", "allowed"}, <<>>, TRUE, reply[w])
  BY <1>1, <1>2, <1>4, <1>5, Parts DEF dispatch_error, Becomes, Sends, dial, clients
<1>7. Stands("except", request[c], {"total", "allowed"}, <<>>, TRUE, reply[w])
  BY <1>1, <1>3, <1>4, GroundsFacts, OneElement DEF Stands, Accounted, Errors, Allowable, NoRequest
<1>8. Sound("except", request[c], {"total", "allowed"}, <<>>, TRUE, reply[w])
  BY <1>2, <1>3, <1>4, KnownTallies, GroundsFacts DEF Sound, Stands, Allowable, PCs, Errors, Responses, NoReply
<1> QED BY <1>1, <1>6, <1>7, <1>8, BecomesKeeps

LEMMA EndForwardKeeps ==
  ASSUME IInv, NEW w \in Workers, end_forward(w)
  PROVE  IInv'
<1> DEFINE c == job[w]
<1>1. /\ pc[w] = "stream" /\ pc[w] # "idle" /\ c \in Conns /\ TypeOK /\ Standing(w)
      /\ UNCHANGED <<server, job, seen, open>>
  BY BusyHasJob DEF end_forward, Asks, IInv, clients
<1>2. metrics[c] = Once({"total", "allowed"}) /\ {"total", "allowed"} \in SUBSET Counters /\ {"total", "allowed"} \in Tallies
  BY <1>1, KnownTallies, GroundsFacts DEF Standing, Fresh
<1>3. Stands(pc[w], request[c], {"total", "allowed"}, replies[c], origin[w], reply[w])
  BY <1>1, <1>2, StandingRead
<1>4. /\ request[c] \in Received /\ origin[w] \in BOOLEAN /\ reply[w] \in Errors \cup {NoReply}
      /\ replies[c] = <<>> /\ Allowable(request[c], {"total", "allowed"})
  BY <1>1, <1>2, <1>3, Parts DEF Stands
<1>5. CASE Delivers(w, "relayed")
  <2>1. metrics' = [metrics EXCEPT ![c] = Once({"total", "allowed"})]
    BY <1>1, <1>2, <1>5, Parts DEF end_forward, clients
  <2>2. Becomes(w, "close", request[c], {"total", "allowed"}, <<"relayed">>, origin[w], reply[w])
    BY <1>1, <1>2, <1>4, <1>5, <2>1, Parts DEF end_forward, Becomes, Sends, dial, clients
  <2>3. Stands("close", request[c], {"total", "allowed"}, <<"relayed">>, origin[w], reply[w])
    BY <1>1, <1>3, <1>4, <1>5, GroundsFacts, OneElement DEF Stands, Accounted, Errors, Allowable, NoRequest
  <2>4. Sound("close", request[c], {"total", "allowed"}, <<"relayed">>, origin[w], reply[w])
    BY <1>2, <1>3, <1>4, <1>5, KnownTallies, GroundsFacts DEF Sound, Stands, Allowable, PCs, Errors, Responses, NoReply
  <2> QED BY <1>1, <2>2, <2>3, <2>4, BecomesKeeps
<1>6. CASE UNCHANGED replies
  <2>1. metrics' = [metrics EXCEPT ![c] = Once({"total", "allowed"})]
    BY <1>1, <1>2, <1>6, Parts DEF end_forward, clients
  <2>2. Becomes(w, "close", request[c], {"total", "allowed"}, <<>>, origin[w], reply[w])
    BY <1>1, <1>2, <1>4, <1>6, <2>1, Parts DEF end_forward, Becomes, Sends, dial, clients
  <2>3. Stands("close", request[c], {"total", "allowed"}, <<>>, origin[w], reply[w])
    BY <1>1, <1>3, <1>4, <1>6, GroundsFacts, OneElement DEF Stands, Accounted, Errors, Allowable, NoRequest
  <2>4. Sound("close", request[c], {"total", "allowed"}, <<>>, origin[w], reply[w])
    BY <1>2, <1>3, <1>4, <1>6, KnownTallies, GroundsFacts DEF Sound, Stands, Allowable, PCs, Errors, Responses, NoReply
  <2> QED BY <1>1, <2>2, <2>3, <2>4, BecomesKeeps
<1> QED BY <1>1, <1>5, <1>6 DEF end_forward

\* Nothing said, or an error.
LEMMA SoundError ==
  ASSUME NEW label \in PCs \ {"idle"}, NEW r \in Received, NEW S \in Tallies,
         NEW o \in BOOLEAN, NEW e \in Errors \cup {NoReply}
  PROVE  /\ Sound(label, r, S, <<>>, o, e)
         /\ \A x \in Errors : Sound(label, r, S, <<x>>, o, e)
<1>1. \A x \in Errors : x \in Responses
  BY DEF Responses
<1> QED BY <1>1 DEF Sound

\* The one reply of the proxy's own, with the counters it rests on.
LEMMA SendErrorKeeps ==
  ASSUME IInv, NEW w \in Workers, send_error(w)
  PROVE  IInv'
<1> DEFINE c == job[w]
           status == reply[w]
           counted == Grounds(status)
<1>1. /\ pc[w] = "reply" /\ pc[w] # "idle" /\ c \in Conns /\ TypeOK /\ Standing(w)
      /\ UNCHANGED <<server, job, seen, open, origin, request, metrics>>
      /\ Sends(w, NoReply)
  BY BusyHasJob DEF send_error, IInv
<1>2. /\ status \in Errors /\ metrics[c] = Once(counted) /\ replies[c] = <<>>
      /\ counted \in SUBSET Counters /\ counted \in Tallies
  BY <1>1, GroundsFacts DEF Standing
<1>3. Stands(pc[w], request[c], counted, replies[c], origin[w], status)
  BY <1>1, <1>2, StandingRead
<1>4. /\ request[c] \in Received /\ request[c] # NoRequest
      /\ origin[w] \in BOOLEAN /\ (origin[w] => Allowable(request[c], counted))
  BY <1>1, <1>2, <1>3, Parts DEF Stands
<1>5. metrics' = [metrics EXCEPT ![c] = Once(counted)]
  BY <1>1, <1>2, Parts
<1> HIDE DEF counted
<1>6. Delivers(w, status) => replies' = [replies EXCEPT ![c] = <<status>>]
  BY <1>1, <1>2, Parts
<1>7. /\ "count_error" \in PCs \ {"idle"} /\ "close" \in PCs \ {"idle"}
      /\ "except" \in PCs \ {"idle"} /\ NoReply \in Errors \cup {NoReply}
  BY DEF PCs
<1>8. /\ request' = [request EXCEPT ![c] = request[c]]
      /\ origin' = [origin EXCEPT ![w] = origin[w]]
      /\ reply' = [reply EXCEPT ![w] = NoReply]
  BY <1>1, <1>2, Parts DEF Sends
<1> HIDE DEF status
<1>9. CASE status \in {"400", "502"} /\ Delivers(w, status) /\ Goto(w, "count_error")
  <2>1. Becomes(w, "count_error", request[c], counted, <<status>>, origin[w], NoReply)
    BY <1>1, <1>5, <1>6, <1>8, <1>9 DEF Becomes
  <2>2. Stands("count_error", request[c], counted, <<status>>, origin[w], NoReply)
    BY <1>4, <1>9, OneElement DEF Stands, counted
  <2>3. Sound("count_error", request[c], counted, <<status>>, origin[w], NoReply)
    BY <1>2, <1>4, <1>7, SoundError, Zenon
  <2> QED BY <1>1, <2>1, <2>2, <2>3, BecomesKeeps
<1>10. CASE status \in {"403", "407", "429"} /\ Delivers(w, status) /\ Goto(w, "close")
  <2>1. Becomes(w, "close", request[c], counted, <<status>>, origin[w], NoReply)
    BY <1>1, <1>5, <1>6, <1>8, <1>10 DEF Becomes
  <2>2. Accounted(request[c], counted, <<status>>)
    BY <1>10, OneElement, GroundsFacts DEF Accounted, counted
  <2>3. Stands("close", request[c], counted, <<status>>, origin[w], NoReply)
    BY <1>4, <2>2 DEF Stands
  <2>4. Sound("close", request[c], counted, <<status>>, origin[w], NoReply)
    BY <1>2, <1>4, <1>7, SoundError, Zenon
  <2> QED BY <1>1, <2>1, <2>3, <2>4, BecomesKeeps
<1>11. CASE Goto(w, "except") /\ UNCHANGED replies
  <2>1. Becomes(w, "except", request[c], counted, <<>>, origin[w], NoReply)
    BY <1>1, <1>2, <1>5, <1>8, <1>11, Parts DEF Becomes
  <2>2. Stands("except", request[c], counted, <<>>, origin[w], NoReply)
    BY <1>2, <1>4 DEF Stands, counted
  <2>3. Sound("except", request[c], counted, <<>>, origin[w], NoReply)
    BY <1>2, <1>4, <1>7, SoundError, Zenon
  <2> QED BY <1>1, <2>1, <2>2, <2>3, BecomesKeeps
<1>12. \/ Delivers(w, status) /\ Goto(w, after(status))
       \/ Goto(w, "except") /\ UNCHANGED replies
  BY DEF send_error, status
<1>13. status \in {"400", "502", "403", "407", "429"}
  BY <1>2 DEF Errors
<1> QED BY <1>9, <1>10, <1>11, <1>12, <1>13 DEF after

\* Counting the error that a connection ends with.
LEMMA ErrorCounts ==
  ASSUME IInv, NEW w \in Workers, pc[w] \in {"count_error", "except"},
         Increment(w, "errors"), Goto(w, "close"),
         UNCHANGED <<server, job, origin, reply, seen, open, request, replies>>
  PROVE  IInv'
<1> DEFINE c == job[w]
<1>1. /\ pc[w] # "idle" /\ c \in Conns /\ TypeOK /\ Standing(w)
  BY BusyHasJob DEF IInv
<1>2. PICK status \in Errors :
        /\ metrics[c] = Once(Grounds(status))
        /\ replies[c] = <<>> \/ (status \in {"400", "502"} /\ replies[c] = <<status>>)
  BY <1>1 DEF Standing, Errors
<1> DEFINE counted == Grounds(status)
<1>3. counted \in SUBSET Counters /\ counted \in Tallies /\ "errors" \notin counted /\ counted \cup {"errors"} \in Tallies
  BY <1>2, GroundsFacts, KnownTallies DEF Errors
<1>4. Stands(pc[w], request[c], counted, replies[c], origin[w], reply[w])
  BY <1>1, <1>2, <1>3, StandingRead
<1>5. /\ request[c] \in Received /\ request[c] # NoRequest
      /\ origin[w] \in BOOLEAN /\ (origin[w] => Allowable(request[c], counted \cup {"errors"}))
      /\ reply[w] \in Errors \cup {NoReply}
  BY <1>1, <1>2, <1>3, <1>4, Parts DEF Stands, Allowable
<1>6. metrics' = [metrics EXCEPT ![c] = Once(counted \cup {"errors"})]
  BY <1>1, <1>2, <1>3, Counting DEF Counters
<1>7. Becomes(w, "close", request[c], counted \cup {"errors"}, replies[c], origin[w], reply[w])
  BY <1>1, <1>2, <1>3, <1>6, Parts DEF Becomes
<1>8. Accounted(request[c], counted \cup {"errors"}, replies[c])
  <2>1. CASE replies[c] = <<>>
    BY <2>1, OneElement DEF Accounted
  <2>2. CASE replies[c] = <<status>> /\ status \in {"400", "502"}
    BY <2>2, OneElement, GroundsFacts DEF Accounted
  <2> QED BY <1>2, <2>1, <2>2
<1>9. Stands("close", request[c], counted \cup {"errors"}, replies[c], origin[w], reply[w])
  BY <1>5, <1>8 DEF Stands
<1>10. Sound("close", request[c], counted \cup {"errors"}, replies[c], origin[w], reply[w])
  <2> DEFINE full == counted \cup {"errors"}
  <2>1. "close" \in PCs \ {"idle"}
    BY DEF PCs
  <2>2. full \in Tallies
    BY <1>3
  <2> HIDE DEF full
  <2>3. /\ Sound("close", request[c], full, <<>>, origin[w], reply[w])
        /\ Sound("close", request[c], full, <<status>>, origin[w], reply[w])
    BY <1>2, <1>5, <2>1, <2>2, SoundError, Zenon
  <2>4. replies[c] = <<>> \/ replies[c] = <<status>>
    BY <1>2
  <2> QED BY <2>3, <2>4, Zenon DEF full
<1> QED BY <1>1, <1>7, <1>9, <1>10, BecomesKeeps

LEMMA CountErrorKeeps ==
  ASSUME IInv, NEW w \in Workers, count_error(w)
  PROVE  IInv'
BY ErrorCounts DEF count_error

LEMMA ExceptKeeps ==
  ASSUME IInv, NEW w \in Workers, except(w)
  PROVE  IInv'
BY ErrorCounts DEF except

-----------------------------------------------------------------------------
(* The steps that move a connection, and the main thread *)

\* Such a step counts and says nothing.  A worker stands as it stood before,
\* unless it takes a connection or lets one go; a connection is closed when
\* it is settled or was never read from.
LEMMA MovesKeep ==
  ASSUME IInv, TypeOK', OwnerInv', BacklogInv', MainInv', FreshInv',
         UNCHANGED <<request, metrics, replies, reply>>,
         \A v \in Workers : Standing(v)',
         \A v \in Workers : origin'[v] => origin[v] /\ job'[v] = job[v],
         \A c \in open \ open' : request[c] = NoRequest \/ Settled(c)
  PROVE  IInv'
<1>1. Ledger'
  BY DEF IInv, Ledger
<1>2. OneAnswer'
  <2> SUFFICES ASSUME NEW c \in Conns
               PROVE  /\ Len(replies[c]) <= 1
                      /\ request[c] # NoRequest /\ c \notin open' => Settled(c)'
    BY DEF OneAnswer
  <2>1. Settled(c) => Settled(c)'
    BY DEF Settled
  <2> QED BY <2>1 DEF IInv, OneAnswer
<1>3. OnlyAdmitted'
  <2> SUFFICES ASSUME NEW c \in Conns, Served(c)' PROVE Admitted(c)'
    BY DEF OnlyAdmitted
  <2>1. Served(c)
    BY DEF Served
  <2> QED BY <2>1 DEF IInv, OnlyAdmitted, Admitted
<1> QED BY <1>1, <1>2, <1>3 DEF IInv

LEMMA StandingsKept ==
  ASSUME IInv, UNCHANGED <<threads, request, metrics, replies>>
  PROVE  /\ \A v \in Workers : Standing(v)'
         /\ \A v \in Workers : origin'[v] => origin[v] /\ job'[v] = job[v]
         /\ UNCHANGED reply
BY DEF IInv, Standing, Fresh, Admitted, Settled, threads

LEMMA AcceptKeeps ==
  ASSUME IInv, accept
  PROVE  IInv'
<1> DEFINE h == Head(backlog)
<1>1. /\ TypeOK /\ main = "accept" /\ hand = NoConn /\ backlog # <<>>
      /\ hand' = h /\ backlog' = Tail(backlog) /\ open' = open \cup {h} /\ main' = "accepted"
      /\ UNCHANGED <<listening, queue, threads, seen, request, metrics, replies>>
  BY DEF IInv, MainInv, accept
<1>2. /\ h \in Conns /\ Tail(backlog) \in Seq(Conns)
      /\ Len(backlog) \in Nat \ {0} /\ Len(Tail(backlog)) = Len(backlog) - 1
      /\ h = backlog[1] /\ \A j \in 1..Len(backlog) - 1 : Tail(backlog)[j] = backlog[j + 1]
  BY <1>1, TailFacts DEF TypeOK
<1>3. h # NoConn /\ h \in seen /\ h \notin open
  BY <1>2, ServerAssumption DEF IInv, BacklogInv
<1>4. TypeOK'
  <2>1. /\ main' \in MainPCs /\ hand' \in Conns \cup {NoConn} /\ open' \in SUBSET Conns
        /\ backlog' \in Seq(Conns) /\ Len(backlog') <= MAX_CONN
    BY <1>1, <1>2, ServerAssumption DEF TypeOK, MainPCs
  <2> QED BY <1>1, <2>1 DEF TypeOK, threads
<1>5. OwnerInv'
  <2>1. /\ \A i \in 1..Len(queue) : queue[i] # h /\ queue[i] # NoConn
        /\ \A w \in Workers : job[w] # h
    BY <1>1, <1>2, <1>3 DEF IInv, OwnerInv
  <2>2. UNCHANGED <<queue, pc, job>>
    BY <1>1 DEF threads
  <2>3. \A c \in Conns :
          c \in open' <=> \/ h = c
                          \/ \E i \in 1..Len(queue) : queue[i] = c
                          \/ \E w \in Workers : job[w] = c
    <3>1. \A c \in Conns : c \in open' <=> c = h \/ c \in open
      BY <1>1, <1>2
    <3>2. \A c \in Conns :
            c \in open <=> \/ \E i \in 1..Len(queue) : queue[i] = c
                           \/ \E w \in Workers : job[w] = c
      BY <1>1, ServerAssumption DEF IInv, OwnerInv
    <3> QED BY <3>1, <3>2
  <2> QED BY <1>1, <2>1, <2>2, <2>3 DEF IInv, OwnerInv
<1>6. BacklogInv'
  <2>1. \A i, j \in 1..Len(backlog) - 1 : Tail(backlog)[i] = Tail(backlog)[j] => i = j
    <3> SUFFICES ASSUME NEW i \in 1..Len(backlog) - 1, NEW j \in 1..Len(backlog) - 1,
                        Tail(backlog)[i] = Tail(backlog)[j]
                 PROVE  i = j
      OBVIOUS
    <3>1. /\ i + 1 \in 1..Len(backlog) /\ j + 1 \in 1..Len(backlog)
          /\ backlog[i + 1] = backlog[j + 1]
      BY <1>2
    <3> QED BY <3>1 DEF IInv, BacklogInv
  <2>2. \A i \in 1..Len(backlog) - 1 : Tail(backlog)[i] \in seen \ (open \cup {h})
    <3> SUFFICES ASSUME NEW i \in 1..Len(backlog) - 1
                 PROVE  Tail(backlog)[i] \in seen \ (open \cup {h})
      OBVIOUS
    <3>1. /\ i + 1 \in 1..Len(backlog) /\ 1 \in 1..Len(backlog) /\ i + 1 # 1
          /\ Tail(backlog)[i] = backlog[i + 1]
      BY <1>2
    <3>2. backlog[i + 1] # h /\ backlog[i + 1] \in seen \ open
      BY <1>2, <3>1 DEF IInv, BacklogInv
    <3> QED BY <3>1, <3>2
  <2> QED BY <1>1, <1>2, <1>3, <2>1, <2>2 DEF IInv, BacklogInv
<1>7. MainInv'
  BY <1>1, <1>3 DEF MainInv
<1>8. FreshInv'
  <2>1. \A c \in Conns : Fresh(c) => Fresh(c)'
    BY <1>1 DEF Fresh
  <2>2. \A j \in 1..Len(backlog) - 1 : Fresh(Tail(backlog)[j]) /\ j + 1 \in 1..Len(backlog)
    BY <1>1, <1>2, ElementOfSeq DEF IInv, FreshInv, TypeOK
  <2>3. Fresh(h)
    BY <1>2 DEF IInv, FreshInv
  <2> QED BY <1>1, <1>2, <2>1, <2>2, <2>3 DEF IInv, FreshInv
<1> QED
  BY <1>1, <1>4, <1>5, <1>6, <1>7, <1>8, StandingsKept, MovesKeep

LEMMA MainMovesKeep ==
  ASSUME IInv, accept_error \/ submit_lock \/ cancelled
  PROVE  IInv'
<1>1. /\ UNCHANGED <<listening, backlog, hand, queue, threads, clients>>
      /\ \/ main = "accept" /\ main' = "stopped"
         \/ main = "accepted" /\ main' = "submitting"
         \/ main = "cancelling" /\ main' = "joining"
  BY DEF accept_error, submit_lock, cancelled
<1>2. TypeOK'
  BY <1>1 DEF IInv, TypeOK, MainPCs, threads, clients
<1>3. OwnerInv' /\ BacklogInv' /\ MainInv'
  BY <1>1 DEF IInv, OwnerInv, BacklogInv, MainInv, threads, clients
<1>4. FreshInv'
  BY <1>1 DEF IInv, FreshInv, Fresh, threads, clients
<1> QED
  BY <1>1, <1>2, <1>3, <1>4, StandingsKept, MovesKeep DEF clients

LEMMA GracefulShutdownKeeps ==
  ASSUME IInv, graceful_shutdown
  PROVE  IInv'
<1>1. /\ UNCHANGED <<hand, queue, threads, clients>> /\ listening' = FALSE /\ backlog' = <<>>
      /\ main' \in {"deadlocked", "cancelling"}
  BY DEF graceful_shutdown
<1>2. TypeOK'
  <2>1. <<>> \in Seq(Conns) /\ Len(<<>>) = 0 /\ 0 <= MAX_CONN
    BY EmptySeq, ServerAssumption
  <2> QED BY <1>1, <2>1 DEF IInv, TypeOK, MainPCs, threads, clients
<1>3. OwnerInv' /\ BacklogInv' /\ MainInv'
  BY <1>1 DEF IInv, OwnerInv, BacklogInv, MainInv, threads, clients
<1>4. FreshInv'
  BY <1>1 DEF IInv, FreshInv, Fresh, threads, clients
<1> QED
  BY <1>1, <1>2, <1>3, <1>4, StandingsKept, MovesKeep DEF clients

LEMMA SubmitKeeps ==
  ASSUME IInv, submit
  PROVE  IInv'
<1>1. /\ TypeOK /\ main = "submitting" /\ main' = "accept" /\ hand \in Conns /\ hand # NoConn
      /\ hand' = NoConn /\ queue' = Append(queue, hand)
      /\ UNCHANGED <<listening, backlog, threads, clients>>
  BY DEF IInv, MainInv, TypeOK, submit
<1>2. /\ queue' \in Seq(Conns) /\ Len(queue') = Len(queue) + 1 /\ Len(queue) \in Nat
      /\ \A j \in 1..Len(queue) : queue'[j] = queue[j] /\ queue[j] \in Conns
      /\ queue'[Len(queue) + 1] = hand
  BY <1>1, AppendFacts DEF TypeOK
<1>3. TypeOK'
  BY <1>1, <1>2 DEF TypeOK, MainPCs, threads, clients
<1>4. OwnerInv'
  <2>1. UNCHANGED <<pc, job, open>>
    BY <1>1 DEF threads, clients
  <2>2. \A i, j \in 1..Len(queue') : queue'[i] = queue'[j] => i = j
    BY <1>1, <1>2 DEF IInv, OwnerInv
  <2>3. \A i \in 1..Len(queue') :
          queue'[i] # NoConn /\ \A w \in Workers : queue'[i] # job[w]
    BY <1>1, <1>2, ServerAssumption DEF IInv, OwnerInv
  <2>4. \A c \in Conns :
          (\E i \in 1..Len(queue') : queue'[i] = c)
            <=> hand = c \/ \E i \in 1..Len(queue) : queue[i] = c
    BY <1>2
  <2>5. \A c \in Conns :
          c \in open <=> \/ hand' = c
                         \/ \E i \in 1..Len(queue') : queue'[i] = c
                         \/ \E w \in Workers : job[w] = c
    BY <1>1, <2>4, ServerAssumption DEF IInv, OwnerInv
  <2> QED BY <1>1, <2>1, <2>2, <2>3, <2>5 DEF IInv, OwnerInv
<1>5. BacklogInv' /\ MainInv'
  BY <1>1 DEF IInv, BacklogInv, MainInv, clients
<1>6. FreshInv'
  <2>1. \A c \in Conns : Fresh(c) => Fresh(c)'
    BY <1>1 DEF Fresh, clients
  <2>2. \A i \in 1..Len(queue') : queue'[i] = hand \/ (i \in 1..Len(queue) /\ queue'[i] = queue[i])
    BY <1>2
  <2>3. NoConn \notin Conns
    BY ServerAssumption
  <2> QED BY <1>1, <2>1, <2>2, <2>3 DEF IInv, FreshInv, clients
<1> QED
  BY <1>1, <1>3, <1>4, <1>5, <1>6, StandingsKept, MovesKeep DEF clients

LEMMA ConnectKeeps ==
  ASSUME IInv, NEW k \in Conns, connect(k)
  PROVE  IInv'
<1>1. /\ TypeOK /\ k \notin seen /\ seen' = seen \cup {k}
      /\ backlog' = (IF listening /\ Len(backlog) < MAX_CONN THEN Append(backlog, k) ELSE backlog)
      /\ UNCHANGED <<listening, main, hand, queue, threads, open, request, metrics, replies>>
  BY DEF IInv, connect
<1>2. /\ Append(backlog, k) \in Seq(Conns)
      /\ Len(Append(backlog, k)) = Len(backlog) + 1 /\ Len(backlog) \in Nat
      /\ \A j \in 1..Len(backlog) : Append(backlog, k)[j] = backlog[j] /\ backlog[j] \in Conns
      /\ Append(backlog, k)[Len(backlog) + 1] = k
  BY <1>1, AppendFacts DEF TypeOK
<1>3. TypeOK'
  <2>1. backlog' \in Seq(Conns) /\ Len(backlog') <= MAX_CONN /\ seen' \in SUBSET Conns
    BY <1>1, <1>2, ServerAssumption DEF TypeOK
  <2> QED BY <1>1, <2>1 DEF TypeOK, threads
<1>4. OwnerInv' /\ MainInv'
  BY <1>1 DEF IInv, OwnerInv, MainInv, threads
<1>5. k \notin open /\ Fresh(k)
  BY <1>1 DEF IInv, BacklogInv, FreshInv
<1>6. BacklogInv'
  <2>1. \A j \in 1..Len(backlog) : backlog[j] # k
    BY <1>1 DEF IInv, BacklogInv
  <2>2. CASE listening /\ Len(backlog) < MAX_CONN
    BY <1>1, <1>2, <1>5, <2>1, <2>2 DEF IInv, BacklogInv
  <2>3. CASE ~(listening /\ Len(backlog) < MAX_CONN)
    BY <1>1, <2>3 DEF IInv, BacklogInv
  <2> QED BY <2>2, <2>3
<1>7. FreshInv'
  <2>1. \A c \in Conns : Fresh(c) => Fresh(c)'
    BY <1>1 DEF Fresh
  <2>2. \A i \in 1..Len(backlog') :
          backlog'[i] = k \/ (i \in 1..Len(backlog) /\ backlog'[i] = backlog[i])
    BY <1>1, <1>2
  <2> QED BY <1>1, <1>5, <2>1, <2>2 DEF IInv, FreshInv
<1> QED
  BY <1>1, <1>3, <1>4, <1>6, <1>7, StandingsKept, MovesKeep

\* The queue without its oldest item.
LEMMA QueueTail ==
  ASSUME IInv, queue # <<>>
  PROVE  /\ Head(queue) \in Conns /\ Head(queue) # NoConn /\ Head(queue) # hand
         /\ Head(queue) \in open /\ Fresh(Head(queue))
         /\ \A w \in Workers : job[w] # Head(queue)
         /\ Tail(queue) \in Seq(Conns)
         /\ \A i, j \in 1..Len(Tail(queue)) : Tail(queue)[i] = Tail(queue)[j] => i = j
         /\ \A i \in 1..Len(Tail(queue)) :
              /\ Tail(queue)[i] # Head(queue) /\ Tail(queue)[i] # hand
              /\ Fresh(Tail(queue)[i]) /\ \A w \in Workers : Tail(queue)[i] # job[w]
         /\ \A c \in Conns : (\E i \in 1..Len(queue) : queue[i] = c)
              <=> c = Head(queue) \/ \E i \in 1..Len(Tail(queue)) : Tail(queue)[i] = c
<1> DEFINE h == Head(queue)
           t == Tail(queue)
           n == Len(queue)
<1>1. /\ h \in Conns /\ t \in Seq(Conns)
      /\ n \in Nat \ {0} /\ Len(t) = n - 1
      /\ h = queue[1] /\ \A j \in 1..n - 1 : t[j] = queue[j + 1]
      /\ \A j \in 1..n : queue[j] \in Conns
  BY TailFacts DEF IInv, TypeOK
<1>2. /\ 1 \in 1..n /\ Len(t) = n - 1
      /\ \A j \in 1..n - 1 : j + 1 \in 1..n /\ j + 1 # 1
      /\ \A i \in 1..n : i = 1 \/ \E j \in 1..n - 1 : i = j + 1
  <2>1. ASSUME NEW i \in 1..n, i # 1 PROVE \E j \in 1..n - 1 : i = j + 1
    <3>1. i - 1 \in 1..n - 1 /\ i = (i - 1) + 1
      BY <1>1, <2>1
    <3> QED BY <3>1
  <2> QED BY <1>1, <2>1
<1>3. /\ \A i \in 1..n : queue[i] # hand /\ (\A w \in Workers : queue[i] # job[w])
      /\ \A i \in 1..n : Fresh(queue[i]) /\ queue[i] \in open
      /\ \A i, j \in 1..n : queue[i] = queue[j] => i = j
  <2>1. \A i \in 1..n : Fresh(queue[i]) /\ queue[i] \in open
    BY <1>1 DEF IInv, FreshInv, OwnerInv
  <2> QED BY <2>1 DEF IInv, OwnerInv
<1> HIDE DEF h, t, n
<1>4. h # NoConn
  BY <1>1, ServerAssumption
<1>5. \A i, j \in 1..n - 1 : t[i] = t[j] => i = j
  <2> SUFFICES ASSUME NEW i \in 1..n - 1, NEW j \in 1..n - 1, t[i] = t[j] PROVE i = j
    OBVIOUS
  <2>1. queue[i + 1] = queue[j + 1] /\ i + 1 \in 1..n /\ j + 1 \in 1..n
    BY <1>1, <1>2
  <2> QED BY <1>1, <1>3, <2>1
<1>6. \A i \in 1..n - 1 :
        /\ t[i] # h /\ t[i] # hand
        /\ Fresh(t[i]) /\ \A w \in Workers : t[i] # job[w]
  <2> SUFFICES ASSUME NEW i \in 1..n - 1
               PROVE  /\ t[i] # h /\ t[i] # hand
                      /\ Fresh(t[i]) /\ \A w \in Workers : t[i] # job[w]
    OBVIOUS
  <2>1. t[i] = queue[i + 1] /\ i + 1 \in 1..n /\ i + 1 # 1
    BY <1>1, <1>2
  <2> QED BY <1>1, <1>2, <1>3, <2>1
<1>7. \A c \in Conns : (\E i \in 1..n : queue[i] = c)
        <=> c = h \/ \E i \in 1..n - 1 : t[i] = c
  <2> TAKE c \in Conns
  <2>1. ASSUME NEW i \in 1..n, queue[i] = c
        PROVE  c = h \/ \E j \in 1..n - 1 : t[j] = c
    <3>1. CASE i = 1
      BY <1>1, <2>1, <3>1
    <3>2. ASSUME NEW j \in 1..n - 1, i = j + 1 PROVE t[j] = c
      BY <1>1, <2>1, <3>2
    <3> QED BY <1>2, <2>1, <3>1, <3>2
  <2>2. ASSUME NEW j \in 1..n - 1, t[j] = c
        PROVE  \E i \in 1..n : queue[i] = c
    <3>1. j + 1 \in 1..n /\ queue[j + 1] = c
      BY <1>1, <1>2, <2>2
    <3> QED BY <3>1
  <2>3. c = h => \E i \in 1..n : queue[i] = c
    BY <1>1, <1>2
  <2> QED BY <2>1, <2>2, <2>3
<1>8. /\ h # hand /\ h \in open /\ Fresh(h)
      /\ \A w \in Workers : job[w] # h
  BY <1>1, <1>2, <1>3
<1> QED BY <1>1, <1>2, <1>4, <1>5, <1>6, <1>7, <1>8 DEF h, t, n

LEMMA CancelKeeps ==
  ASSUME IInv, cancel
  PROVE  IInv'
<1> DEFINE h == Head(queue)
<1>1. /\ TypeOK /\ main = "cancelling" /\ queue # <<>>
      /\ queue' = Tail(queue) /\ open' = open \ {h}
      /\ UNCHANGED <<listening, backlog, main, hand, threads, seen, request, metrics, replies>>
  BY DEF IInv, cancel
<1>2. TypeOK'
  BY <1>1, QueueTail DEF TypeOK, threads
<1>3. OwnerInv'
  <2>1. UNCHANGED <<pc, job>>
    BY <1>1 DEF threads
  <2>2. \A c \in Conns :
          c \in open' <=> \/ hand = c
                          \/ \E i \in 1..Len(queue') : queue'[i] = c
                          \/ \E w \in Workers : job[w] = c
    BY <1>1, QueueTail DEF IInv, OwnerInv
  <2> QED BY <1>1, <2>1, <2>2, QueueTail DEF IInv, OwnerInv
<1>4. BacklogInv' /\ MainInv'
  BY <1>1 DEF IInv, BacklogInv, MainInv
<1>5. FreshInv'
  <2>1. \A c \in Conns : Fresh(c) => Fresh(c)'
    BY <1>1 DEF Fresh
  <2> QED BY <1>1, <2>1, QueueTail DEF IInv, FreshInv
<1>6. \A c \in open \ open' : request[c] = NoRequest
  BY <1>1, QueueTail DEF Fresh
<1> QED
  BY <1>1, <1>2, <1>3, <1>4, <1>5, <1>6, StandingsKept, MovesKeep

LEMMA ExitKeeps ==
  ASSUME IInv, exit
  PROVE  IInv'
<1>1. /\ TypeOK /\ queue = <<>> /\ \A w \in Workers : pc[w] = "idle" /\ job[w] = NoConn
      /\ main' = "exited" /\ listening' = FALSE /\ backlog' = <<>>
      /\ open' = open \ {hand} /\ hand' = NoConn
      /\ UNCHANGED <<queue, threads, seen, request, metrics, replies>>
  BY DEF IInv, OwnerInv, exit
<1>2. NoConn \notin Conns /\ Len(<<>>) = 0
  BY ServerAssumption
<1>3. TypeOK'
  <2>1. <<>> \in Seq(Conns) /\ 0 <= MAX_CONN /\ main' \in MainPCs
    BY <1>1, EmptySeq, ServerAssumption DEF MainPCs
  <2> QED BY <1>1, <1>2, <2>1 DEF TypeOK, threads
<1>4. OwnerInv'
  BY <1>1, <1>2 DEF IInv, OwnerInv, threads, TypeOK
<1>5. BacklogInv' /\ MainInv'
  BY <1>1, <1>2 DEF IInv, BacklogInv, MainInv, threads
<1>6. FreshInv'
  BY <1>1, <1>2 DEF IInv, FreshInv, Fresh
<1>7. \A c \in open \ open' : request[c] = NoRequest
  BY <1>1 DEF IInv, FreshInv, Fresh, TypeOK
<1> QED
  BY <1>1, <1>3, <1>4, <1>5, <1>6, <1>7, StandingsKept, MovesKeep

LEMMA TakeKeeps ==
  ASSUME IInv, NEW w \in Workers, take(w)
  PROVE  IInv'
<1> DEFINE h == Head(queue)
<1>1. /\ TypeOK /\ main # "exited" /\ queue # <<>> /\ pc[w] = "idle" /\ job[w] = NoConn
      /\ queue' = Tail(queue) /\ job' = [job EXCEPT ![w] = h] /\ Goto(w, "receive")
      /\ UNCHANGED <<listening, backlog, main, hand, origin, reply, clients>>
  BY DEF IInv, OwnerInv, take
<1>2. /\ h \in Conns /\ h # NoConn /\ h # hand /\ Fresh(h)
      /\ \A v \in Workers : job[v] # h
  BY <1>1, QueueTail
<1>3. /\ pc' \in [Workers -> PCs] /\ pc'[w] = "receive"
      /\ \A v \in Workers \ {w} : pc'[v] = pc[v]
      /\ job' \in [Workers -> Conns \cup {NoConn}] /\ job'[w] = h
      /\ \A v \in Workers \ {w} : job'[v] = job[v]
  BY <1>1, <1>2 DEF TypeOK, Goto, PCs
<1>4. TypeOK'
  BY <1>1, <1>3, QueueTail DEF TypeOK, clients
<1>5. OwnerInv'
  <2>1. UNCHANGED <<hand, open>>
    BY <1>1 DEF clients
  <2>2. \A v \in Workers : pc'[v] = "idle" <=> job'[v] = NoConn
    BY <1>2, <1>3 DEF IInv, OwnerInv
  <2>3. \A u, v \in Workers : job'[u] = job'[v] => u = v \/ job'[u] = NoConn
    BY <1>2, <1>3 DEF IInv, OwnerInv
  <2>4. \A i \in 1..Len(queue') :
          queue'[i] # hand /\ \A v \in Workers : queue'[i] # job'[v]
    BY <1>1, <1>3, QueueTail
  <2>5. \A v \in Workers : hand = job'[v] => hand = NoConn
    BY <1>2, <1>3 DEF IInv, OwnerInv
  <2>6. \A c \in Conns :
          (\E v \in Workers : job'[v] = c) <=> c = h \/ \E v \in Workers : job[v] = c
    BY <1>1, <1>3, ServerAssumption
  <2>7. \A c \in Conns :
          c \in open <=> \/ hand = c
                         \/ \E i \in 1..Len(queue') : queue'[i] = c
                         \/ \E v \in Workers : job'[v] = c
    BY <1>1, <2>6, QueueTail DEF IInv, OwnerInv
  <2>8. \A i, j \in 1..Len(queue') : queue'[i] = queue'[j] => i = j
    BY <1>1, QueueTail
  <2> QED BY <2>1, <2>2, <2>3, <2>4, <2>5, <2>7, <2>8 DEF OwnerInv
<1>6. BacklogInv' /\ MainInv'
  BY <1>1 DEF IInv, BacklogInv, MainInv, clients
<1>7. FreshInv'
  <2>1. \A c \in Conns : Fresh(c) => Fresh(c)'
    BY <1>1 DEF Fresh, clients
  <2> QED BY <1>1, <2>1, QueueTail DEF IInv, FreshInv, clients
<1>8. \A v \in Workers : Standing(v)'
  <2>1. ASSUME NEW v \in Workers, v # w PROVE Standing(v)'
    BY <1>1, <1>3, <2>1, StandingKept DEF IInv, clients
  <2>2. Standing(w)'
    <3>1. ~origin[w] /\ UNCHANGED origin
      BY <1>1 DEF IInv, Standing
    <3>2. Fresh(job[w])'
      BY <1>1, <1>2, <1>3 DEF Fresh, clients
    <3> QED BY <1>3, <3>1, <3>2 DEF Standing
  <2> QED BY <2>1, <2>2
<1>9. \A v \in Workers : origin'[v] => origin[v] /\ job'[v] = job[v]
  BY <1>1, <1>3 DEF IInv, Standing
<1> QED
  BY <1>1, <1>4, <1>5, <1>6, <1>7, <1>8, <1>9, MovesKeep DEF clients

LEMMA CloseKeeps ==
  ASSUME IInv, NEW w \in Workers, close(w)
  PROVE  IInv'
<1> DEFINE k == job[w]
<1>1. /\ TypeOK /\ pc[w] = "close" /\ k \in Conns /\ k # NoConn /\ Settled(k)
      /\ open' = open \ {k} /\ job' = [job EXCEPT ![w] = NoConn]
      /\ origin' = [origin EXCEPT ![w] = FALSE] /\ Goto(w, "idle")
      /\ UNCHANGED <<server, reply, seen, request, metrics, replies>>
  BY BusyHasJob DEF IInv, Standing, close
<1>2. /\ pc' \in [Workers -> PCs] /\ pc'[w] = "idle"
      /\ job' \in [Workers -> Conns \cup {NoConn}] /\ job'[w] = NoConn
      /\ origin' \in [Workers -> BOOLEAN] /\ ~origin'[w]
      /\ \A v \in Workers \ {w} : pc'[v] = pc[v] /\ job'[v] = job[v] /\ origin'[v] = origin[v]
  BY <1>1 DEF TypeOK, Goto, PCs
<1>3. TypeOK'
  BY <1>1, <1>2 DEF TypeOK, server
<1>4. OwnerInv'
  <2>1. UNCHANGED <<hand, queue>>
    BY <1>1 DEF server
  <2>2. /\ \A v \in Workers : pc'[v] = "idle" <=> job'[v] = NoConn
        /\ \A u, v \in Workers : job'[u] = job'[v] => u = v \/ job'[u] = NoConn
        /\ \A v \in Workers : hand = job'[v] => hand = NoConn
    BY <1>2 DEF IInv, OwnerInv
  <2>3. \A i \in 1..Len(queue) : \A v \in Workers : queue[i] # job'[v]
    <3>1. \A i \in 1..Len(queue) : queue[i] # NoConn
      BY <1>1, ElementOfSeq, ServerAssumption DEF TypeOK
    <3> QED BY <1>2, <3>1 DEF IInv, OwnerInv
  <2>4. \A c \in Conns :
          (\E v \in Workers : job'[v] = c) <=> c # k /\ \E v \in Workers : job[v] = c
    BY <1>1, <1>2, ServerAssumption DEF IInv, OwnerInv
  <2>5. hand # k /\ \A i \in 1..Len(queue) : queue[i] # k
    BY <1>1 DEF IInv, OwnerInv
  <2>6. \A c \in Conns :
          c \in open' <=> \/ hand = c
                          \/ \E i \in 1..Len(queue) : queue[i] = c
                          \/ \E v \in Workers : job'[v] = c
    BY <1>1, <2>4, <2>5 DEF IInv, OwnerInv
  <2> QED BY <2>1, <2>2, <2>3, <2>6 DEF IInv, OwnerInv
<1>5. BacklogInv' /\ MainInv'
  BY <1>1, <1>2 DEF IInv, BacklogInv, MainInv, server
<1>6. FreshInv'
  BY <1>1 DEF IInv, FreshInv, Fresh, server
<1>7. \A v \in Workers : Standing(v)'
  <2>1. ASSUME NEW v \in Workers, v # w PROVE Standing(v)'
    BY <1>1, <1>2, <2>1, StandingKept DEF IInv
  <2>2. Standing(w)'
    BY <1>2 DEF Standing
  <2> QED BY <2>1, <2>2
<1>8. \A v \in Workers : origin'[v] => origin[v] /\ job'[v] = job[v]
  BY <1>2
<1>9. \A c \in open \ open' : request[c] = NoRequest \/ Settled(c)
  BY <1>1
<1> QED
  BY <1>1, <1>3, <1>4, <1>5, <1>6, <1>7, <1>8, <1>9, MovesKeep

-----------------------------------------------------------------------------
(* The invariant *)

LEMMA ProxyInit == Init => IInv
<1> SUFFICES ASSUME Init PROVE IInv
  OBVIOUS
<1>1. Len(<<>>) = 0
  OBVIOUS
<1>2. TypeOK
  BY EmptySeq, ServerAssumption DEF Init, TypeOK, MainPCs, PCs, Received
<1>3. OwnerInv /\ BacklogInv /\ MainInv
  BY <1>1, ServerAssumption DEF Init, OwnerInv, BacklogInv, MainInv
<1>4. FreshInv
  BY DEF Init, FreshInv, Fresh, Once
<1>5. \A w \in Workers : Standing(w)
  BY DEF Init, Standing
<1>6. Ledger
  BY DEF Init, Ledger, Counters
<1>7. OneAnswer /\ OnlyAdmitted
  BY <1>1 DEF Init, OneAnswer, OnlyAdmitted, Served
<1> QED BY <1>2, <1>3, <1>4, <1>5, <1>6, <1>7 DEF IInv

LEMMA ProxyInductive == IInv /\ [Next]_vars => IInv'
<1> SUFFICES ASSUME IInv, [Next]_vars PROVE IInv'
  OBVIOUS
<1>1. CASE Main
  BY <1>1, AcceptKeeps, MainMovesKeep, SubmitKeeps, CancelKeeps, ExitKeeps DEF Main
<1>2. CASE graceful_shutdown
  BY <1>2, GracefulShutdownKeeps
<1>3. ASSUME NEW w \in Workers, Worker(w) PROVE IInv'
  BY <1>3, TakeKeeps, ReceiveKeeps, RateLimitKeeps, CheckAuthKeeps, FilterKeeps,
     SendErrorKeeps, CountErrorKeeps, OpenTunnelKeeps, EndTunnelKeeps, CacheHitKeeps,
     ForwardKeeps, UnreachableKeeps, DispatchErrorKeeps, EndForwardKeeps, ExceptKeeps,
     CloseKeeps DEF Worker
<1>4. ASSUME NEW c \in Conns, connect(c) PROVE IInv'
  BY <1>4, ConnectKeeps
<1>5. CASE UNCHANGED vars
  <2>1. UNCHANGED <<server, threads, clients>>
    BY <1>5 DEF vars
  <2>2. TypeOK' /\ OwnerInv' /\ BacklogInv' /\ MainInv'
    BY <2>1 DEF IInv, TypeOK, OwnerInv, BacklogInv, MainInv, server, threads, clients
  <2>3. FreshInv'
    BY <2>1 DEF IInv, FreshInv, Fresh, server, clients
  <2> QED BY <2>1, <2>2, <2>3, StandingsKept, MovesKeep DEF clients
<1> QED BY <1>1, <1>2, <1>3, <1>4, <1>5 DEF Next

\* Who holds a connection, with the counters and the reply that go with where
\* it stands: what every reachable state of the server satisfies.
THEOREM ServerInvariant == Spec => []IInv
BY ProxyInit, ProxyInductive, PTL DEF Spec

\* handle_client: a connection is counted as one request and one error at
\* most, and a verdict or a cached answer only within the total it is part of.
THEOREM CountersAgree == Spec => []Ledger
<1>1. IInv => Ledger
  BY DEF IInv
<1> QED BY <1>1, ServerInvariant, PTL

\* handle_client: a client is answered once at most, and the counters of a
\* connection that has been closed are those of the answer it got.
THEOREM AnsweredOnce == Spec => []OneAnswer
<1>1. IInv => OneAnswer
  BY DEF IInv
<1> QED BY <1>1, ServerInvariant, PTL

\* handle_client: whatever other clients do meanwhile, an origin is contacted
\* and a cached response handed out only for a request that passed the limiter,
\* the credentials and the blocklist.
THEOREM OnlyAdmittedAreServed == Spec => []OnlyAdmitted
<1>1. IInv => OnlyAdmitted
  BY DEF IInv
<1> QED BY <1>1, ServerInvariant, PTL

-----------------------------------------------------------------------------
(* Counting the places *)

\* At most one element of a finite set has a property.
LEMMA CountOne ==
  ASSUME NEW S, NEW T \in SUBSET S, IsFiniteSet(S),
         \A x, y \in T : x = y
  PROVE  Cardinality(T) = IF T = {} THEN 0 ELSE 1
<1>1. CASE T = {}
  BY <1>1, FS_EmptySet
<1>2. ASSUME NEW x \in T PROVE Cardinality(T) = 1
  <2>1. T = {x}
    OBVIOUS
  <2> QED BY <2>1, FS_Singleton
<1> QED BY <1>1, <1>2

LEMMA OnePlace == IInv => OneOwner
<1> SUFFICES ASSUME IInv PROVE OneOwner
  OBVIOUS
<1>1. ASSUME NEW c \in Conns PROVE Places(c) = IF c \in open THEN 1 ELSE 0
  <2> DEFINE W == {w \in Workers : job[w] = c}
             Q == {i \in 1..Len(queue) : queue[i] = c}
  <2>1. c # NoConn /\ IsFiniteSet(Workers) /\ IsFiniteSet(1..Len(queue))
    BY LenProperties, FS_Interval, ServerAssumption DEF IInv, TypeOK
  <2>2. \A x, y \in W : x = y
    BY <2>1 DEF IInv, OwnerInv
  <2>3. \A x, y \in Q : x = y
    BY DEF IInv, OwnerInv
  <2>4. Cardinality(W) = IF W = {} THEN 0 ELSE 1
    BY <2>1, <2>2, CountOne
  <2>5. Cardinality(Q) = IF Q = {} THEN 0 ELSE 1
    BY <2>1, <2>3, CountOne
  <2>6. /\ c \in open <=> hand = c \/ Q # {} \/ W # {}
        /\ ~(hand = c /\ Q # {}) /\ ~(hand = c /\ W # {}) /\ ~(Q # {} /\ W # {})
    BY <2>1 DEF IInv, OwnerInv
  <2>7. Places(c) = Cardinality(W) + Cardinality(Q) + (IF hand = c THEN 1 ELSE 0)
    BY DEF Places
  <2> HIDE DEF W, Q
  <2> QED BY <2>4, <2>5, <2>6, <2>7
<1>2. ASSUME main = "exited" PROVE open = {}
  <2>1. hand = NoConn /\ queue = <<>> /\ \A w \in Workers : job[w] = NoConn
    BY <1>2 DEF IInv, MainInv, OwnerInv
  <2>2. \A c \in Conns : c \notin open
    BY <2>1, ServerAssumption DEF IInv, OwnerInv
  <2> QED BY <2>2 DEF IInv, TypeOK
<1> QED BY <1>1, <1>2 DEF IInv, OneOwner

\* server.py with handle_client: every socket that was accepted and not yet
\* closed is with the main thread, in the executor's queue or with one worker,
\* and with no other; when the process has ended all of them are closed.
THEOREM OneOwnerEach == Spec => []OneOwner
BY OnePlace, ServerInvariant, PTL
=============================================================================
