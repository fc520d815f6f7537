---------------------------- MODULE AccessProofs ----------------------------
(***************************************************************************)
(* That the blocklist judges a host by one version of its file, for any    *)
(* number of workers, reloads and edits and for all lists and hosts; and   *)
(* that the proxy lets in whom its other file was told to name, for all    *)
(* users and passwords and any number of commands one after the other,     *)
(* wherever they are cut, while the proxy runs and restarts.               *)
(***************************************************************************)
EXTENDS Access, FiniteSetTheorems, SequenceTheorems, WellFoundedInduction, TLAPS

-----------------------------------------------------------------------------
(* The inductive invariant *)

ReloadPlaces == {"idle", "waiting", "exists", "parsed", "half", "loaded"}
Places == {"idle", "waiting", "domains", "blocked", "passed"}

\* What is_blocked is given after lower().
LoweredHosts ==
  {h \in [labels : Seq(Labels), address : SUBSET Ranges] : lower(h.labels) = h.labels}

Positions == 1..Len(contents)

Types ==
  /\ contents \in Seq(Versions) /\ contents # <<>>
  /\ reload_pc \in [Reloaders -> ReloadPlaces]
  /\ at \in [Workers -> Places]
  /\ host \in [Workers -> LoweredHosts]
  /\ parsed_tables \in [Reloaders -> {parse(v) : v \in Versions}]
  /\ in_force \in Positions
  /\ judged \in [Workers -> Positions]
  /\ read_at \in [Reloaders -> Positions]
  /\ since \in [Reloaders -> Positions]

Holders ==
  {r \in Reloaders : reload_pc[r] \in {"exists", "parsed", "half"}}
    \union {w \in Workers : at[w] = "domains"}

LockInv == lock = Holders /\ \A t, u \in lock : t = u

\* A reload has parsed what was in the file when it was called, or later.
Parsed(r) ==
  /\ parsed_tables[r] = parse(contents[read_at[r]])
  /\ since[r] <= read_at[r] /\ in_force <= read_at[r]

\* Both tables are of the version in force, but in the middle of a reload.
TablesInv ==
  /\ blocked_domains = parse(contents[in_force]).domains
  /\ (\A r \in Reloaders : reload_pc[r] # "half") =>
        blocked_networks = parse(contents[in_force]).networks
  /\ \A r \in Reloaders :
       /\ reload_pc[r] \in {"parsed", "half"} => Parsed(r)
       /\ reload_pc[r] = "half" => in_force = read_at[r]

\* The two ways in which a version covers a host.
Named(v, h) ==
  /\ v # Absent
  /\ \E e \in v :
       /\ e.network = {}
       /\ \E i \in 1..Len(h.labels) :
            lower(SubSeq(h.labels, i, Len(h.labels))) = lower(e.labels)

Addressed(v, h) ==
  /\ v # Absent
  /\ \E e \in v : \E n \in e.network, a \in h.address :
       /\ a.version = n.version
       /\ \A i \in DOMAIN n.bits : i \in DOMAIN a.bits /\ a.bits[i] = n.bits[i]

\* The first check has failed for the version still in force.
BetweenChecks ==
  \A w \in Workers :
    at[w] = "domains" => judged[w] = in_force /\ ~Named(contents[in_force], host[w])

IInv ==
  /\ Types /\ LockInv /\ TablesInv
  /\ BetweenChecks /\ VerdictOfOneVersion /\ ReloadTakesEffect

-----------------------------------------------------------------------------
(* Names and networks *)

\* IsSuffix of the library compares the reversed sequences.
LEMMA SuffixIsEnd ==
  ASSUME NEW S, NEW s \in Seq(S), NEW t \in Seq(S)
  PROVE  IsSuffix(s, t) <=>
           Len(s) <= Len(t) /\ s = SubSeq(t, Len(t) - Len(s) + 1, Len(t))
<1> DEFINE m == Len(s)  n == Len(t)
<1>1. m \in Nat /\ n \in Nat
  OBVIOUS
<1>2. Reverse(s) \in Seq(S) /\ Len(Reverse(s)) = m /\ \A i \in 1..m : Reverse(s)[i] = s[m - i + 1]
  BY DEF Reverse
<1>3. Reverse(t) \in Seq(S) /\ Len(Reverse(t)) = n /\ \A i \in 1..n : Reverse(t)[i] = t[n - i + 1]
  BY DEF Reverse
<1>4. IsSuffix(s, t) <=> m <= n /\ SubSeq(Reverse(s), 1, m) = SubSeq(Reverse(t), 1, m)
  BY <1>2, <1>3 DEF IsSuffix, IsPrefix
<1>5. ASSUME m <= n
      PROVE  SubSeq(Reverse(s), 1, m) = SubSeq(Reverse(t), 1, m)
               <=> \A i \in 1..m : s[m - i + 1] = t[n - i + 1]
  <2>1. SubSeq(Reverse(s), 1, m) = [i \in 1..m |-> s[m - i + 1]]
    BY <1>1, <1>2
  <2>2. SubSeq(Reverse(t), 1, m) = [i \in 1..m |-> t[n - i + 1]]
    BY <1>1, <1>3, <1>5
  <2> QED BY <2>1, <2>2
<1>6. ASSUME m <= n
      PROVE  (\A i \in 1..m : s[m - i + 1] = t[n - i + 1])
               <=> \A j \in 1..m : s[j] = t[n - m + j]
  <2>1. ASSUME \A i \in 1..m : s[m - i + 1] = t[n - i + 1], NEW j \in 1..m
        PROVE  s[j] = t[n - m + j]
    <3>1. (m - j + 1) \in 1..m /\ m - (m - j + 1) + 1 = j /\ n - (m - j + 1) + 1 = n - m + j
      BY <1>1
    <3> QED BY <2>1, <3>1
  <2>2. ASSUME \A j \in 1..m : s[j] = t[n - m + j], NEW i \in 1..m
        PROVE  s[m - i + 1] = t[n - i + 1]
    <3>1. (m - i + 1) \in 1..m /\ n - m + (m - i + 1) = n - i + 1
      BY <1>1
    <3> QED BY <2>2, <3>1
  <2> QED BY <2>1, <2>2
<1>7. ASSUME m <= n
      PROVE  s = SubSeq(t, n - m + 1, n) <=> \A j \in 1..m : s[j] = t[n - m + j]
  <2> DEFINE u == SubSeq(t, n - m + 1, n)
  <2>1. u \in Seq(S) /\ Len(u) = m /\ \A j \in 1..m : u[j] = t[n - m + j]
    BY <1>1, <1>7
  <2> HIDE DEF u
  <2>2. u = [j \in 1..m |-> u[j]] /\ s = [j \in 1..m |-> s[j]]
    BY <2>1
  <2>3. s = u <=> \A j \in 1..m : s[j] = u[j]
    BY <2>2
  <2>4. s = u <=> \A j \in 1..m : s[j] = t[n - m + j]
    BY <2>1, <2>3
  <2> QED BY <2>4 DEF u
<1> QED BY <1>4, <1>5, <1>6, <1>7

\* The loop over the blocked names finds what Covers asks for.
LEMMA NamesMatch ==
  ASSUME NEW v \in Versions, NEW h \in LoweredHosts, blocked_domains = parse(v).domains
  PROVE  domain_match(h.labels) <=> Named(v, h)
<1>1. h.labels \in Seq(Labels) /\ lower(h.labels) = h.labels
  BY DEF LoweredHosts
<1>2. \A i \in 1..Len(h.labels) : Lower[h.labels[i]] = h.labels[i]
  BY <1>1 DEF lower
<1>3. ASSUME NEW i \in 1..Len(h.labels)
      PROVE  lower(SubSeq(h.labels, i, Len(h.labels))) = SubSeq(h.labels, i, Len(h.labels))
  <2> DEFINE s == SubSeq(h.labels, i, Len(h.labels))
  <2>1. /\ s \in Seq(Labels) /\ Len(s) = Len(h.labels) - i + 1
        /\ \A j \in 1..Len(s) : s[j] = h.labels[i + j - 1] /\ i + j - 1 \in 1..Len(h.labels)
    BY <1>1
  <2>2. \A j \in 1..Len(s) : Lower[s[j]] = s[j]
    BY <1>2, <2>1
  <2>3. s = [j \in 1..Len(s) |-> s[j]] /\ DOMAIN s = 1..Len(s)
    BY <2>1
  <2> HIDE DEF s
  <2>4. lower(s) = s
    BY <2>2, <2>3 DEF lower
  <2> QED BY <2>4 DEF s
<1>4. CASE v = Absent
  BY <1>4 DEF parse, domain_match, Named
<1>5. CASE v # Absent
  <2>1. blocked_domains = {lower(e.labels) : e \in {d \in v : d.network = {}}}
    BY <1>5 DEF parse
  <2>2. ASSUME NEW e \in v, e.network = {}
        PROVE  IsSuffix(lower(e.labels), h.labels) <=>
                 \E i \in 1..Len(h.labels) : SubSeq(h.labels, i, Len(h.labels)) = lower(e.labels)
    <3> DEFINE d == lower(e.labels)
    <3>1. e.labels \in Seq(Labels) /\ e.labels # <<>>
      BY <1>5, <2>2, FilterAssumption
    <3>2. d \in Seq(Labels) /\ Len(d) = Len(e.labels)
      <4>1. DOMAIN e.labels = 1..Len(e.labels) /\ Len(e.labels) \in Nat
            /\ \A j \in DOMAIN e.labels : Lower[e.labels[j]] \in Labels
        BY <3>1, FilterAssumption
      <4>2. d \in [1..Len(e.labels) -> Labels]
        BY <4>1 DEF lower
      <4> HIDE DEF d
      <4> QED BY <4>1, <4>2
    <3>3. Len(d) \in Nat \ {0}
      BY <3>1, <3>2
    <3> HIDE DEF d
    <3>4. IsSuffix(d, h.labels) <=>
            Len(d) <= Len(h.labels)
              /\ d = SubSeq(h.labels, Len(h.labels) - Len(d) + 1, Len(h.labels))
      BY <1>1, <3>2, SuffixIsEnd
    <3>5. ASSUME IsSuffix(d, h.labels)
          PROVE  \E i \in 1..Len(h.labels) : SubSeq(h.labels, i, Len(h.labels)) = d
      <4>1. Len(h.labels) - Len(d) + 1 \in 1..Len(h.labels)
        BY <1>1, <3>3, <3>4, <3>5
      <4> QED BY <3>4, <3>5, <4>1
    <3>6. ASSUME NEW i \in 1..Len(h.labels), SubSeq(h.labels, i, Len(h.labels)) = d
          PROVE  IsSuffix(d, h.labels)
      <4>1. Len(d) = Len(h.labels) - i + 1
        <5>1. Len(SubSeq(h.labels, i, Len(h.labels))) = Len(h.labels) - i + 1
          BY <1>1
        <5> QED BY <3>6, <5>1
      <4>2. Len(h.labels) - Len(d) + 1 = i /\ Len(d) <= Len(h.labels)
        BY <1>1, <4>1
      <4> QED BY <3>4, <3>6, <4>2
    <3> QED BY <3>5, <3>6 DEF d
  <2>3. Named(v, h) <=>
          \E e \in v : /\ e.network = {}
                       /\ \E i \in 1..Len(h.labels) :
                            SubSeq(h.labels, i, Len(h.labels)) = lower(e.labels)
    BY <1>3, <1>5 DEF Named
  <2>4. domain_match(h.labels) <=>
          \E e \in v : e.network = {} /\ IsSuffix(lower(e.labels), h.labels)
    BY <2>1 DEF domain_match
  <2> QED BY <2>2, <2>3, <2>4
<1> QED BY <1>4, <1>5

\* So does the loop over the networks.
LEMMA AddressesMatch ==
  ASSUME NEW v \in Versions, NEW h \in LoweredHosts, blocked_networks = parse(v).networks
  PROVE  network_match(h.address) <=> Addressed(v, h)
<1>1. CASE v = Absent
  BY <1>1 DEF parse, network_match, Addressed
<1>2. CASE v # Absent
  <2>1. blocked_networks = UNION {e.network : e \in v}
    BY <1>2 DEF parse
  <2>2. \A e \in v : e.network \subseteq Ranges
    BY <1>2, FilterAssumption
  <2>3. ASSUME NEW n \in Ranges, NEW a \in Ranges
        PROVE  IsPrefix(n.bits, a.bits)
                 <=> \A i \in DOMAIN n.bits : i \in DOMAIN a.bits /\ a.bits[i] = n.bits[i]
    <3> DEFINE b == n.bits  c == a.bits
    <3>1. b \in Seq({0, 1}) /\ c \in Seq({0, 1})
      BY DEF Ranges
    <3> HIDE DEF b, c
    <3>2. /\ Len(b) \in Nat /\ Len(c) \in Nat
          /\ DOMAIN b = 1..Len(b) /\ DOMAIN c = 1..Len(c)
          /\ b = [i \in 1..Len(b) |-> b[i]]
      BY <3>1
    <3>3. SubSeq(b, 1, Len(b)) = b
      BY <3>1, SubSeqFull
    <3>4. (\A i \in DOMAIN b : i \in DOMAIN c /\ c[i] = b[i]) => Len(b) <= Len(c)
      <4>1. CASE Len(b) = 0
        BY <3>2, <4>1
      <4>2. CASE Len(b) # 0
        <5>1. Len(b) \in DOMAIN b
          BY <3>2, <4>2
        <5> QED BY <3>2, <5>1
      <4> QED BY <4>1, <4>2
    <3>5. ASSUME Len(b) <= Len(c)
          PROVE  SubSeq(c, 1, Len(b)) = b
                   <=> \A i \in DOMAIN b : i \in DOMAIN c /\ c[i] = b[i]
      <4> DEFINE u == SubSeq(c, 1, Len(b))
      <4>1. u \in Seq({0, 1}) /\ Len(u) = Len(b) /\ \A i \in 1..Len(b) : u[i] = c[i]
        BY <3>1, <3>2, <3>5
      <4>2. \A i \in 1..Len(b) : i \in 1..Len(c)
        BY <3>2, <3>5
      <4> HIDE DEF u
      <4>3. u = [i \in 1..Len(b) |-> u[i]]
        BY <4>1
      <4>4. u = b <=> \A i \in 1..Len(b) : u[i] = b[i]
        BY <3>2, <4>3
      <4>5. u = b <=> \A i \in 1..Len(b) : c[i] = b[i]
        BY <4>1, <4>4
      <4> QED BY <3>2, <4>2, <4>5 DEF u
    <3>6. IsPrefix(b, c) <=> \A i \in DOMAIN b : i \in DOMAIN c /\ c[i] = b[i]
      BY <3>3, <3>4, <3>5 DEF IsPrefix
    <3> QED BY <3>6 DEF b, c
  <2>4. h.address \subseteq Ranges
    BY DEF LoweredHosts
  <2> QED BY <1>2, <2>1, <2>2, <2>3, <2>4 DEF network_match, Addressed
<1> QED BY <1>1, <1>2

\* Blocked asks for one of the two.
LEMMA BlockedBy ==
  ASSUME NEW v, NEW h
  PROVE  Blocked(v, h) <=> Named(v, h) \/ Addressed(v, h)
BY DEF Blocked, Covers, Named, Addressed

-----------------------------------------------------------------------------
(* Init *)

LEMMA InitInvariant == FilterInit => IInv
<1> SUFFICES ASSUME FilterInit PROVE IInv
  OBVIOUS
<1> USE FilterAssumption DEF FilterInit
<1>1. contents = <<FirstVersion>> /\ file = FirstVersion /\ Len(contents) = 1
  BY DEF file, Last
<1>2. NoHost \in LoweredHosts
  BY DEF NoHost, LoweredHosts, lower
<1>3. Types
  BY <1>1, <1>2 DEF Types, ReloadPlaces, Places, Positions
<1>4. LockInv
  BY DEF LockInv, Holders
<1>5. TablesInv
  BY <1>1 DEF TablesInv
<1>6. BetweenChecks /\ VerdictOfOneVersion /\ ReloadTakesEffect
  BY DEF BetweenChecks, VerdictOfOneVersion, ReloadTakesEffect
<1> QED BY <1>3, <1>4, <1>5, <1>6 DEF IInv

-----------------------------------------------------------------------------
(* The file *)

\* Versions are only added: what was said of an earlier one stays true.
LEMMA EditStep ==
  ASSUME IInv, edit
  PROVE  IInv'
<1> USE DEF IInv
<1>1. PICK v \in Versions : contents' = Append(contents, v)
  BY DEF edit
<1>2. UNCHANGED <<tables, lock, in_force, judging, loading>>
  BY DEF edit
<1> USE <1>2 DEF tables, judging, loading
<1>3. /\ contents' \in Seq(Versions) /\ Len(contents') = Len(contents) + 1
      /\ \A i \in Positions : contents'[i] = contents[i] /\ i \in Positions'
  BY <1>1 DEF Types, Positions
<1>4. Types'
  BY <1>3 DEF Types
<1>5. LockInv'
  BY DEF LockInv, Holders
<1>6. contents'[in_force] = contents[in_force]
  BY <1>3 DEF Types
<1>7. \A r \in Reloaders : contents'[read_at[r]] = contents[read_at[r]]
  BY <1>3 DEF Types
<1>8. \A w \in Workers : contents'[judged[w]] = contents[judged[w]]
  BY <1>3 DEF Types
<1>9. TablesInv'
  BY <1>6, <1>7 DEF TablesInv, Parsed
<1>10. BetweenChecks'
  BY <1>6 DEF BetweenChecks
<1>11. VerdictOfOneVersion'
  BY <1>8 DEF VerdictOfOneVersion
<1>12. ReloadTakesEffect'
  BY DEF ReloadTakesEffect
<1> QED BY <1>4, <1>5, <1>9, <1>10, <1>11, <1>12

\* The version there is now.
LEMMA CurrentVersion ==
  ASSUME Types
  PROVE  /\ Len(contents) \in Positions /\ file = contents[Len(contents)] /\ file \in Versions
         /\ \A i \in Positions : i <= Len(contents)
BY DEF Types, Positions, file, Last

LEMMA ImportStep ==
  ASSUME IInv, import
  PROVE  IInv'
<1> USE CurrentVersion, FilterAssumption DEF IInv, import
<1>1. NoHost \in LoweredHosts
  BY DEF NoHost, LoweredHosts, lower
<1>2. 1 \in Positions /\ Positions' = Positions
  BY DEF Types, Positions
<1>3. Types'
  BY <1>1, <1>2 DEF Types, ReloadPlaces, Places
<1>4. LockInv'
  BY DEF LockInv, Holders
<1>5. TablesInv'
  BY DEF TablesInv
<1>6. BetweenChecks' /\ VerdictOfOneVersion' /\ ReloadTakesEffect'
  BY DEF BetweenChecks, VerdictOfOneVersion, ReloadTakesEffect
<1> QED BY <1>3, <1>4, <1>5, <1>6

-----------------------------------------------------------------------------
(* Reloads *)

\* Who holds the lock is alone between taking and releasing it.
LEMMA Alone ==
  ASSUME LockInv
  PROVE  /\ \A r \in Reloaders : reload_pc[r] \in {"exists", "parsed", "half"} =>
              /\ lock = {r}
              /\ \A q \in Reloaders \ {r} : reload_pc[q] \notin {"exists", "parsed", "half"}
              /\ \A w \in Workers : at[w] # "domains"
         /\ \A w \in Workers : at[w] = "domains" =>
              /\ lock = {w}
              /\ \A x \in Workers \ {w} : at[x] # "domains"
              /\ \A q \in Reloaders : reload_pc[q] \notin {"exists", "parsed", "half"}
         /\ lock = {} =>
              /\ \A r \in Reloaders : reload_pc[r] \notin {"exists", "parsed", "half"}
              /\ \A w \in Workers : at[w] # "domains"
<1>1. \A r \in Reloaders : \A w \in Workers : r # w
  BY FilterAssumption
<1>2. \A r \in Reloaders : reload_pc[r] \in {"exists", "parsed", "half"} => r \in lock
  BY DEF LockInv, Holders
<1>3. \A w \in Workers : at[w] = "domains" => w \in lock
  BY DEF LockInv, Holders
<1>4. \A t \in lock : lock = {t}
  BY DEF LockInv
<1> QED BY <1>1, <1>2, <1>3, <1>4

LEMMA CallStep ==
  ASSUME IInv, NEW r \in Reloaders, reload_blocklist(r)
  PROVE  IInv'
<1> USE CurrentVersion DEF IInv, reload_blocklist, tables, judging
<1>1. Types'
  BY DEF Types, ReloadPlaces, Positions
<1>2. reload_pc' = [reload_pc EXCEPT ![r] = "waiting"] /\ reload_pc[r] \in {"idle", "loaded"}
  OBVIOUS
<1>3. Holders' = Holders
  BY <1>2 DEF Types, Holders
<1>4. LockInv'
  BY <1>3 DEF LockInv
<1>5. TablesInv'
  BY DEF TablesInv, Parsed, Types
<1>6. BetweenChecks' /\ VerdictOfOneVersion' /\ ReloadTakesEffect'
  BY DEF BetweenChecks, VerdictOfOneVersion, ReloadTakesEffect, Types
<1> QED BY <1>1, <1>4, <1>5, <1>6

\* The lock is taken, and a missing file has been parsed.
LEMMA ExistsStep ==
  ASSUME IInv, NEW r \in Reloaders, exists(r)
  PROVE  IInv'
<1> USE CurrentVersion, Alone DEF IInv, exists, parsed, take, tables, judging
<1>1. Types'
  <2>1. /\ reload_pc' \in [Reloaders -> ReloadPlaces]
        /\ parsed_tables' \in [Reloaders -> {parse(v) : v \in Versions}]
    BY DEF Types, ReloadPlaces
  <2>2. read_at' \in [Reloaders -> Positions]
    BY DEF Types
  <2> QED BY <2>1, <2>2 DEF Types, Positions
<1>2. LockInv'
  <2>1. Holders' = Holders \union {r}
    BY DEF Types, Holders
  <2> QED BY <2>1 DEF LockInv
<1>3. TablesInv'
  <2>1. since[r] <= Len(contents) /\ in_force <= Len(contents)
    BY DEF Types
  <2>2. \A q \in Reloaders : reload_pc'[q] # "half"
    BY DEF Types
  <2>3. blocked_networks = parse(contents[in_force]).networks
    BY DEF TablesInv
  <2>4. reload_pc'[r] = "parsed" => Parsed(r)'
    BY <2>1 DEF Parsed, Types
  <2>5. \A q \in Reloaders \ {r} : reload_pc'[q] # "parsed"
    BY DEF Types
  <2> QED BY <2>2, <2>3, <2>4, <2>5 DEF TablesInv
<1>4. BetweenChecks' /\ VerdictOfOneVersion'
  BY DEF BetweenChecks, VerdictOfOneVersion
<1>5. ReloadTakesEffect'
  BY DEF ReloadTakesEffect, Types
<1> QED BY <1>1, <1>2, <1>3, <1>4, <1>5

LEMMA ReadStep ==
  ASSUME IInv, NEW r \in Reloaders, read(r)
  PROVE  IInv'
<1> USE CurrentVersion, Alone DEF IInv, read, parsed, tables, judging
<1>1. Types'
  BY DEF Types, ReloadPlaces, Positions
<1>2. LockInv'
  <2>1. Holders' = Holders
    BY DEF Types, Holders
  <2> QED BY <2>1 DEF LockInv
<1>3. TablesInv'
  <2>1. since[r] <= Len(contents) /\ in_force <= Len(contents)
    BY DEF Types
  <2>2. \A q \in Reloaders : reload_pc'[q] # "half" /\ reload_pc[q] # "half"
    BY DEF Types
  <2>3. blocked_networks = parse(contents[in_force]).networks
    BY <2>2 DEF TablesInv
  <2>4. Parsed(r)'
    BY <2>1 DEF Parsed, Types
  <2>5. \A q \in Reloaders \ {r} : reload_pc'[q] # "parsed"
    BY DEF Types
  <2> QED BY <2>2, <2>3, <2>4, <2>5 DEF TablesInv
<1>4. BetweenChecks' /\ VerdictOfOneVersion'
  BY DEF BetweenChecks, VerdictOfOneVersion
<1>5. ReloadTakesEffect'
  BY DEF ReloadTakesEffect, Types
<1> QED BY <1>1, <1>2, <1>3, <1>4, <1>5

LEMMA ReadErrorStep ==
  ASSUME IInv, NEW r \in Reloaders, read_error(r)
  PROVE  IInv'
<1> USE Alone DEF IInv, read_error, release, tables, judging
<1>1. Types'
  BY DEF Types, ReloadPlaces, Positions
<1>2. LockInv'
  <2>1. Holders' = {}
    BY DEF Types, Holders
  <2> QED BY <2>1 DEF LockInv
<1>3. TablesInv'
  BY DEF TablesInv, Parsed, Types
<1>4. BetweenChecks' /\ VerdictOfOneVersion'
  BY DEF BetweenChecks, VerdictOfOneVersion
<1>5. ReloadTakesEffect'
  BY DEF ReloadTakesEffect, Types
<1> QED BY <1>1, <1>2, <1>3, <1>4, <1>5

\* The version in force changes here, to one that is not older.
LEMMA AssignDomainsStep ==
  ASSUME IInv, NEW r \in Reloaders, assign_domains(r)
  PROVE  IInv'
<1> USE Alone DEF IInv, assign_domains, judging
<1>0. /\ in_force' = read_at[r] /\ reload_pc' = [reload_pc EXCEPT ![r] = "half"]
      /\ UNCHANGED <<contents, at, host, judged, parsed_tables, read_at, since>>
  OBVIOUS
<1>1. Types'
  BY <1>0 DEF Types, ReloadPlaces, Positions
<1>2. LockInv'
  <2>1. Holders' = Holders
    BY DEF Types, Holders
  <2> QED BY <2>1 DEF LockInv
<1>3. Parsed(r)
  BY DEF TablesInv
<1>4. TablesInv'
  <2>1. reload_pc'[r] = "half" /\ \A q \in Reloaders \ {r} : reload_pc'[q] \notin {"parsed", "half"}
    BY DEF Types
  <2>2. in_force' \in Int
    BY DEF Types, Positions
  <2>3. Parsed(r)'
    BY <1>3, <2>2 DEF Parsed
  <2> QED BY <1>3, <2>1, <2>3 DEF TablesInv, Parsed
<1>5. BetweenChecks' /\ VerdictOfOneVersion'
  BY DEF BetweenChecks, VerdictOfOneVersion
<1>6. in_force' >= in_force /\ in_force' \in Int /\ in_force \in Int
  BY <1>3 DEF Parsed, Types, Positions
<1>7. \A q \in Reloaders : since[q] \in Int
  BY DEF Types, Positions
<1>8. ReloadTakesEffect'
  BY <1>6, <1>7 DEF ReloadTakesEffect, Types
<1> QED BY <1>1, <1>2, <1>4, <1>5, <1>8

LEMMA AssignNetworksStep ==
  ASSUME IInv, NEW r \in Reloaders, assign_networks(r)
  PROVE  IInv'
<1> USE Alone DEF IInv, assign_networks, release, judging
<1>1. Types'
  BY DEF Types, ReloadPlaces, Positions
<1>2. LockInv'
  <2>1. Holders' = {}
    BY DEF Types, Holders
  <2> QED BY <2>1 DEF LockInv
<1>3. Parsed(r) /\ in_force = read_at[r]
  BY DEF TablesInv
<1>4. \A q \in Reloaders : reload_pc'[q] \notin {"parsed", "half"}
  BY DEF Types
<1>5. TablesInv'
  BY <1>3, <1>4 DEF TablesInv, Parsed
<1>6. BetweenChecks' /\ VerdictOfOneVersion'
  BY DEF BetweenChecks, VerdictOfOneVersion
<1>7. in_force >= since[r]
  BY <1>3 DEF Parsed, Types, Positions
<1>8. ReloadTakesEffect'
  BY <1>7 DEF ReloadTakesEffect, Types
<1> QED BY <1>1, <1>2, <1>5, <1>6, <1>8

-----------------------------------------------------------------------------
(* Verdicts *)

LEMMA AskStep ==
  ASSUME IInv, NEW w \in Workers, NEW h \in Hosts, ask(w, h)
  PROVE  IInv'
<1> USE DEF IInv, ask, tables, loading
<1> DEFINE asked == [h EXCEPT !.labels = lower(h.labels)]
<1>1. asked \in LoweredHosts
  <2>1. h \in [labels : Seq(Labels), address : SUBSET Ranges]
    BY FilterAssumption
  <2>2. /\ h.labels \in [1..Len(h.labels) -> Labels] /\ Len(h.labels) \in Nat
        /\ DOMAIN h.labels = 1..Len(h.labels)
    BY <2>1
  <2>3. lower(h.labels) \in [1..Len(h.labels) -> Labels]
    BY <2>2, FilterAssumption DEF lower
  <2>4. lower(h.labels) \in Seq(Labels)
    BY <2>2, <2>3
  <2>5. lower(lower(h.labels)) = lower(h.labels)
    <3>1. \A i \in 1..Len(h.labels) : Lower[lower(h.labels)[i]] = lower(h.labels)[i]
      BY <2>2, FilterAssumption DEF lower
    <3>2. DOMAIN lower(h.labels) = 1..Len(h.labels)
      BY <2>3
    <3> QED BY <2>2, <3>1, <3>2 DEF lower
  <2>6. asked.labels = lower(h.labels) /\ asked.address = h.address
        /\ asked = [labels |-> asked.labels, address |-> asked.address]
    BY <2>1
  <2> QED BY <2>1, <2>4, <2>5, <2>6 DEF LoweredHosts
<1> HIDE DEF asked
<1>2. host' = [host EXCEPT ![w] = asked]
  BY DEF asked
<1>3. Types'
  BY <1>1, <1>2 DEF Types, Places, Positions
<1>4. LockInv'
  <2>1. Holders' = Holders
    BY DEF Types, Holders
  <2> QED BY <2>1 DEF LockInv
<1>5. TablesInv'
  BY DEF TablesInv, Parsed
<1>6. BetweenChecks' /\ VerdictOfOneVersion'
  BY <1>2 DEF BetweenChecks, VerdictOfOneVersion, Types
<1>7. ReloadTakesEffect'
  BY DEF ReloadTakesEffect
<1> QED BY <1>3, <1>4, <1>5, <1>6, <1>7

\* While a worker holds the lock, or could take it, both tables are of the
\* version in force.
LEMMA JudgesByOneVersion ==
  ASSUME Types, TablesInv, NEW w \in Workers, \A r \in Reloaders : reload_pc[r] # "half"
  PROVE  /\ domain_match(host[w].labels) <=> Named(contents[in_force], host[w])
         /\ network_match(host[w].address) <=> Addressed(contents[in_force], host[w])
<1>1. host[w] \in LoweredHosts /\ contents[in_force] \in Versions
  BY DEF Types, Positions
<1>2. /\ blocked_domains = parse(contents[in_force]).domains
      /\ blocked_networks = parse(contents[in_force]).networks
  BY DEF TablesInv
<1> QED BY <1>1, <1>2, NamesMatch, AddressesMatch

LEMMA CheckDomainsStep ==
  ASSUME IInv, NEW w \in Workers, check_domains(w)
  PROVE  IInv'
<1> USE Alone DEF IInv, check_domains, take, tables, loading
<1>1. lock = {} /\ \A r \in Reloaders : reload_pc[r] # "half"
  OBVIOUS
<1>2. domain_match(host[w].labels) <=> Named(contents[in_force], host[w])
  BY <1>1, JudgesByOneVersion
<1>3. judged' = [judged EXCEPT ![w] = in_force] /\ UNCHANGED <<contents, in_force, host>>
  OBVIOUS
<1>4. /\ domain_match(host[w].labels) => at' = [at EXCEPT ![w] = "blocked"] /\ lock' = lock
      /\ ~domain_match(host[w].labels) => at' = [at EXCEPT ![w] = "domains"] /\ lock' = {w}
  OBVIOUS
<1>5. Types'
  BY <1>3, <1>4 DEF Types, Places, Positions
<1>6. LockInv'
  <2>1. Holders = {}
    BY <1>1 DEF LockInv
  <2>2. Holders' = IF domain_match(host[w].labels) THEN {} ELSE {w}
    BY <1>4, <2>1 DEF Types, Holders
  <2> QED BY <1>1, <1>4, <2>2 DEF LockInv
<1>7. TablesInv'
  BY DEF TablesInv, Parsed
<1>8. BetweenChecks'
  BY <1>1, <1>2, <1>3, <1>4 DEF BetweenChecks, Types
<1>9. VerdictOfOneVersion'
  BY <1>2, <1>3, <1>4, BlockedBy DEF VerdictOfOneVersion, Types
<1>10. ReloadTakesEffect'
  BY DEF ReloadTakesEffect
<1> QED BY <1>5, <1>6, <1>7, <1>8, <1>9, <1>10

LEMMA CheckNetworksStep ==
  ASSUME IInv, NEW w \in Workers, check_networks(w)
  PROVE  IInv'
<1> USE Alone DEF IInv, check_networks, release, tables, loading
<1>1. \A r \in Reloaders : reload_pc[r] # "half"
  OBVIOUS
<1>2. network_match(host[w].address) <=> Addressed(contents[in_force], host[w])
  BY <1>1, JudgesByOneVersion
<1>3. judged[w] = in_force /\ ~Named(contents[in_force], host[w])
  BY DEF BetweenChecks
<1>4. /\ UNCHANGED <<contents, in_force, host, judged>> /\ lock' = {}
      /\ at' = [at EXCEPT ![w] = IF network_match(host[w].address) THEN "blocked" ELSE "passed"]
  OBVIOUS
<1>5. Types'
  BY <1>4 DEF Types, Places, Positions
<1>6. LockInv'
  <2>1. Holders' = {}
    BY <1>4 DEF Types, Holders
  <2> QED BY <1>4, <2>1 DEF LockInv
<1>7. TablesInv'
  BY DEF TablesInv, Parsed
<1>8. BetweenChecks'
  BY <1>4 DEF BetweenChecks, Types
<1>9. VerdictOfOneVersion'
  BY <1>2, <1>3, <1>4, BlockedBy DEF VerdictOfOneVersion, Types
<1>10. ReloadTakesEffect'
  BY DEF ReloadTakesEffect
<1> QED BY <1>5, <1>6, <1>7, <1>8, <1>9, <1>10

-----------------------------------------------------------------------------
(* The theorems *)

LEMMA StepInvariant == IInv /\ [FilterNext]_filter_vars => IInv'
<1> SUFFICES ASSUME IInv, [FilterNext]_filter_vars PROVE IInv'
  OBVIOUS
<1>1. CASE edit
  BY <1>1, EditStep
<1>2. CASE import
  BY <1>2, ImportStep
<1>3. CASE \E r \in Reloaders : Reload(r)
  BY <1>3, CallStep, ExistsStep, ReadStep, ReadErrorStep, AssignDomainsStep, AssignNetworksStep
     DEF Reload
<1>4. CASE \E w \in Workers : IsBlocked(w) \/ \E h \in Hosts : ask(w, h)
  BY <1>4, CheckDomainsStep, CheckNetworksStep, AskStep DEF IsBlocked
<1>5. CASE UNCHANGED filter_vars
  <2> USE <1>5 DEF filter_vars, tables, judging, loading
  <2>1. Types' /\ LockInv' /\ TablesInv'
    BY DEF IInv, Types, Positions, LockInv, Holders, TablesInv, Parsed
  <2>2. BetweenChecks' /\ VerdictOfOneVersion' /\ ReloadTakesEffect'
    BY DEF IInv, BetweenChecks, VerdictOfOneVersion, ReloadTakesEffect
  <2> QED BY <2>1, <2>2 DEF IInv
<1> QED BY <1>1, <1>2, <1>3, <1>4, <1>5 DEF FilterNext

\* The blocklist's variables keep their types; its lock is held by the thread
\* between taking and releasing it, and by no other, whatever fails in between.
LEMMA TypesHold == IInv => FilterTypeOK
<1> SUFFICES ASSUME IInv PROVE FilterTypeOK
  OBVIOUS
<1> USE CurrentVersion DEF IInv, Types
<1>1. blocked_domains \in {parse(v).domains : v \in Versions}
  BY DEF TablesInv, Positions
<1>2. \A r \in Reloaders : parsed_tables[r].domains \in {parse(v).domains : v \in Versions}
  <2> TAKE r \in Reloaders
  <2>1. PICK v \in Versions : parsed_tables[r] = parse(v)
    OBVIOUS
  <2> QED BY <2>1
<1>3. Cardinality(lock) <= 1
  <2>1. CASE lock = {}
    BY <2>1, FS_EmptySet
  <2>2. CASE lock # {}
    <3>1. PICK t \in lock : lock = {t}
      BY <2>2 DEF LockInv
    <3>2. Cardinality({t}) = 1
      BY FS_Singleton
    <3> QED BY <3>1, <3>2
  <2> QED BY <2>1, <2>2
<1>4. lock = {r \in Reloaders : reload_pc[r] \in {"exists", "parsed", "half"}}
               \union {w \in Workers : at[w] = "domains"}
  BY DEF LockInv, Holders
<1>5. {in_force} \union {judged[w] : w \in Workers} \subseteq DOMAIN contents
  BY DEF Positions
<1> QED BY <1>1, <1>2, <1>3, <1>4, <1>5 DEF FilterTypeOK, ReloadPlaces, Places

\* Access does to the blocklist what Filter allows: the proxy's threads and
\* restarts, the commands on the other file and the editor are steps of Filter
\* or leave it alone.
THEOREM AccessImplementsFilter == Spec => FilterSpec
<1>1. Init => FilterInit
  BY DEF Init
<1>2. [Next]_vars => [FilterNext]_filter_vars
  <2> SUFFICES ASSUME [Next]_vars PROVE [FilterNext]_filter_vars
    OBVIOUS
  <2>1. CASE \E a \in Admins : manage_users(a)
    BY <2>1 DEF manage_users
  <2>2. CASE edit_blocklist
    BY <2>2 DEF edit_blocklist, FilterNext
  <2>3. CASE \E w \in Workers : handle_client(w)
    <3>1. PICK w \in Workers : handle_client(w)
      BY <2>3
    <3>2. CASE IsBlocked(w)
      BY <3>2 DEF FilterNext
    <3>3. CASE \E q \in Requests : ask(w, q.host)
      BY <3>3, RequestAssumption DEF FilterNext
    <3> QED BY <3>1, <3>2, <3>3 DEF handle_client
  <2>4. CASE \E r \in Reloaders : reload(r)
    BY <2>4 DEF reload, FilterNext, Reload
  <2>5. CASE restart
    BY <2>5 DEF restart, FilterNext
  <2>6. CASE UNCHANGED vars
    BY <2>6 DEF vars
  <2> QED BY <2>1, <2>2, <2>3, <2>4, <2>5, <2>6 DEF Next
<1> QED BY <1>1, <1>2, PTL DEF Spec, FilterSpec

LEMMA AlwaysInvariant == Spec => []IInv
BY AccessImplementsFilter, InitInvariant, StepInvariant, PTL DEF FilterSpec

\* A verdict is what one version of the file says of the host, the one in force
\* when the worker took the lock, for all versions, hosts, workers and reloads.
THEOREM VerdictsAreOfOneVersion == Spec => []VerdictOfOneVersion
<1>1. IInv => VerdictOfOneVersion
  BY DEF IInv
<1> QED BY <1>1, AlwaysInvariant, PTL

\* A reload that returned is never undone by one that began earlier.
THEOREM ReloadsTakeEffect == Spec => []ReloadTakesEffect
<1>1. IInv => ReloadTakesEffect
  BY DEF IInv
<1> QED BY <1>1, AlwaysInvariant, PTL

\* The lock is held as FilterTypeOK says, whatever fails in between.
THEOREM LockIsHeldByOne == Spec => []FilterTypeOK
BY AlwaysInvariant, TypesHold, PTL
-----------------------------------------------------------------------------
(* The registry *)

\* The registry of the proxy takes the steps of UserRegistry, and no others: the
\* blocklist and the requests leave the commands and USERS alone.
THEOREM AccessImplementsRegistry == Spec => RegistrySpec
<1>1. Init => RegistryInit
  BY DEF Init
<1>2. [Next]_vars => [RegistryNext]_registry_vars
  <2> SUFFICES ASSUME [Next]_vars PROVE [RegistryNext]_registry_vars
    OBVIOUS
  <2>1. CASE \E a \in Admins : manage_users(a)
    BY <2>1 DEF manage_users, RegistryNext, Command
  <2>2. CASE edit_blocklist
    BY <2>2 DEF edit_blocklist
  <2>3. CASE \E w \in Workers : handle_client(w)
    BY <2>3 DEF handle_client
  <2>4. CASE \E r \in Reloaders : reload(r)
    BY <2>4 DEF reload
  <2>5. CASE restart
    BY <2>5 DEF restart, RegistryNext
  <2>6. CASE UNCHANGED vars
    BY <2>6 DEF vars
  <2> QED BY <2>1, <2>2, <2>3, <2>4, <2>5, <2>6 DEF Next
<1> QED BY <1>1, <1>2, PTL DEF Spec, RegistrySpec

-----------------------------------------------------------------------------
(* Reading and writing users.txt *)

\* A set of numbers has a least one.
LEMMA Least ==
  ASSUME NEW T \in SUBSET Nat, T # {}
  PROVE \E n \in T : \A m \in T : n <= m
<1> DEFINE R == {p \in Nat \X Nat : p[1] < p[2]}
<1>1. IsWellFoundedOn(R, Nat)
  BY NatLessThanWellFounded DEF OpToRel
<1>2. PICK n \in T : \A m \in T : ~(<<m, n>> \in R)
  <2> HIDE DEF R
  <2> QED BY <1>1, WFMin
<1>3. ASSUME NEW m \in T PROVE n <= m
  <2>1. <<m, n>> \in Nat \X Nat
    OBVIOUS
  <2>2. <<m, n>>[1] = m /\ <<m, n>>[2] = n
    OBVIOUS
  <2>3. ~(m < n)
    BY <1>2, <2>1, <2>2
  <2> QED BY <2>3
<1> QED BY <1>3

\* Induction, over a set of numbers.
LEMMA Upwards ==
  ASSUME NEW n \in Nat, NEW T, 0 \in T,
         \A k \in 0..n : k \in T /\ k # n => k + 1 \in T
  PROVE  0..n \subseteq T
<1> DEFINE D == (0..n) \ T
<1> SUFFICES ASSUME D # {} PROVE FALSE
  OBVIOUS
<1>1. D \in SUBSET Nat /\ (\A k \in D : k \in 0..n /\ k \notin T)
      /\ \A k \in 0..n : k \notin T => k \in D
  OBVIOUS
<1> HIDE DEF D
<1>2. PICK k \in D : \A m \in D : k <= m
  BY <1>1, Least
<1>3. k \in 0..n /\ k \notin T /\ k # 0
  BY <1>1
<1>4. k - 1 \in 0..n /\ k - 1 # n /\ ~(k <= k - 1)
  BY <1>3
<1>5. k - 1 \in T
  BY <1>1, <1>2, <1>4
<1>6. (k - 1) + 1 \in T
  BY <1>4, <1>5
<1> QED BY <1>3, <1>6

\* The recursive function in FlattenSeq exists, so it is what its definition says.
LEMMA FlattenDefined ==
  ASSUME NEW S, NEW s \in Seq(Seq(S)), Len(s) > 0
  PROVE  \E f : /\ f = [i \in 1..Len(s) |-> IF i = 1 THEN s[i] ELSE f[i-1] \o s[i]]
                /\ FlattenSeq(s) = f[Len(s)]
<1> DEFINE Flat(f, k) == f = [i \in 1..k |-> IF i = 1 THEN s[i] ELSE f[i-1] \o s[i]]
           n == Len(s)
<1>1. n \in Nat /\ n >= 1
  OBVIOUS
<1>2. Flat([i \in 1..0 |-> s[i]], 0)
  OBVIOUS
<1>3. ASSUME NEW k \in Nat, k > 0, NEW f, Flat(f, k - 1)
      PROVE  \E g : Flat(g, k)
  <2> DEFINE g == [i \in 1..k |-> IF i = k THEN (IF k = 1 THEN s[k] ELSE f[k-1] \o s[k]) ELSE f[i]]
  <2>0. k \in 1..k /\ (k # 1 => k - 1 \in 1..k) /\ k - 1 # k
    BY <1>3
  <2>1. \A i \in 1..(k-1) : f[i] = IF i = 1 THEN s[i] ELSE f[i-1] \o s[i]
    BY <1>3
  <2>2. ASSUME NEW i \in 1..k
        PROVE  g[i] = IF i = 1 THEN s[i] ELSE g[i-1] \o s[i]
    <3>1. CASE i = k
      <4>1. k = 1 => g[k] = s[k]
        BY <2>0
      <4>2. k # 1 => g[k] = f[k-1] \o s[k] /\ g[k-1] = f[k-1]
        BY <2>0
      <4> HIDE DEF g
      <4> QED BY <3>1, <4>1, <4>2
    <3>2. CASE i # k
      <4>1. i \in 1..(k-1) /\ g[i] = f[i] /\ (i # 1 => g[i-1] = f[i-1])
        BY <1>3, <3>2
      <4> HIDE DEF g
      <4> QED BY <2>1, <4>1
    <3> QED BY <3>1, <3>2
  <2>3. Flat(g, k)
    <3>1. g = [i \in 1..k |-> g[i]]
      OBVIOUS
    <3> HIDE DEF g
    <3> QED BY <2>2, <3>1
  <2> QED BY <2>3
<1> HIDE DEF n
<1>4. \E f : Flat(f, n)
  <2> HIDE DEF Flat
  <2> DEFINE T == {k \in Nat : \E f : Flat(f, k)}
  <2>1. \A k : k \in T <=> k \in Nat /\ \E f : Flat(f, k)
    OBVIOUS
  <2> HIDE DEF T
  <2>2. \A k \in 0..n : k \in T /\ k # n => k + 1 \in T
    <3> SUFFICES ASSUME NEW k \in 0..n, k \in T PROVE k + 1 \in T
      OBVIOUS
    <3>1. PICK f : Flat(f, k)
      BY <2>1
    <3>2. k + 1 \in Nat /\ k + 1 > 0 /\ (k + 1) - 1 = k
      OBVIOUS
    <3>3. \E g : Flat(g, k + 1)
      BY <1>3, <3>1, <3>2
    <3> QED BY <2>1, <3>2, <3>3
  <2>3. n \in 0..n
    BY <1>1
  <2>4. 0 \in T
    BY <1>2, <2>1
  <2>5. 0..n \subseteq T
    BY <1>1, <2>2, <2>4, Upwards
  <2> QED BY <2>1, <2>3, <2>5
<1> DEFINE F == CHOOSE f : Flat(f, n)
<1>5. Flat(F, n)
  <2> HIDE DEF Flat
  <2> QED BY <1>4
<1>6. FlattenSeq(s) = F[n]
  BY <1>1 DEF FlattenSeq, n
<1> QED BY <1>5, <1>6 DEF n

Chars == UNION {ToSet(s) : s \in Users \union Passwords}
Plain == Seq(Chars \union {Word})
Units == Chars \union {Newline, Colon, Nul, Word, Salt} \union {Digest(t) : t \in Plain}

\* The credentials that a file may hold: a password, or what is left of "pbkdf2";
\* a hash; and what is left of one.
Credentials == Plain \union {<<Word, Salt>>} \union {hash_password(t) : t \in Plain}

Dicts == UNION {[D -> Credentials] : D \in SUBSET Users}

\* The units of names and passwords are characters; no two units are confused.
LEMMA TextFacts ==
  /\ Users \subseteq Seq(Chars) /\ Passwords \subseteq Seq(Chars)
  /\ Seq(Chars) \subseteq Plain
<1>1. ASSUME NEW s \in Users \union Passwords PROVE s \in Seq(Chars)
  <2>1. s \in Seq(ToSet(s)) /\ ToSet(s) \subseteq Chars
    BY RegistryAssumption DEF IsText, Chars
  <2> QED BY <2>1, SeqMonotonic
<1>2. Chars \subseteq Chars \union {Word}
  OBVIOUS
<1>3. ASSUME NEW s \in Seq(Chars) PROVE s \in Plain
  BY <1>2, SeqMonotonic DEF Plain
<1> QED BY <1>1, <1>3

LEMMA UnitFacts ==
  /\ \A x \in Chars : /\ x # Newline /\ x # Colon /\ x # Word /\ x # Salt
                      /\ \A t : x # Digest(t)
  /\ Newline # Colon /\ Word # Newline /\ Word # Colon /\ Word # Salt
  /\ Salt # Newline /\ Salt # Colon
  /\ \A t : Digest(t) # Newline /\ Digest(t) # Colon /\ Digest(t) # Word /\ Digest(t) # Salt
  /\ \A t, v : Digest(t) = Digest(v) => t = v
  /\ \A t : Digest(t)[1] = "digest" /\ Digest(t)[2] = t
<1>1. \A x \in Chars : x[1] = "char"
  BY RegistryAssumption DEF IsText, Chars
<1>2. /\ Newline[1] = "newline" /\ Colon[1] = "colon" /\ Word[1] = "word" /\ Salt[1] = "salt"
      /\ \A t : Digest(t)[1] = "digest" /\ Digest(t)[2] = t
  BY DEF Newline, Colon, Word, Salt, Digest
<1>3. \A x \in Chars : x # Newline /\ x # Colon /\ x # Word /\ x # Salt /\ \A t : x # Digest(t)
  <2> SUFFICES ASSUME NEW x \in Chars
               PROVE  x # Newline /\ x # Colon /\ x # Word /\ x # Salt /\ \A t : x # Digest(t)
    OBVIOUS
  <2>1. x[1] = "char"
    BY <1>1
  <2>2. "char" # "newline" /\ "char" # "colon" /\ "char" # "word" /\ "char" # "salt" /\ "char" # "digest"
    OBVIOUS
  <2> QED BY <1>2, <2>1, <2>2
<1>4. /\ Newline # Colon /\ Word # Newline /\ Word # Colon /\ Word # Salt
      /\ Salt # Newline /\ Salt # Colon
  BY <1>2
<1>5. \A t : Digest(t) # Newline /\ Digest(t) # Colon /\ Digest(t) # Word /\ Digest(t) # Salt
  BY <1>2
<1>6. \A t, v : Digest(t) = Digest(v) => t = v
  BY <1>2
<1> QED BY <1>2, <1>3, <1>4, <1>5, <1>6

\* A credential is written in units, none of them a line end, and what is left
\* of one that is cut is one, too.
LEMMA CredentialFacts ==
  ASSUME NEW c \in Credentials
  PROVE  /\ c \in Seq(Units)
         /\ \A i \in 1..Len(c) : c[i] # Newline
         /\ \A n \in 0..Len(c) : SubSeq(c, 1, n) \in Credentials
<1>1. CASE c \in Plain
  <2>1. Chars \union {Word} \subseteq Units
    BY DEF Units
  <2>2. c \in Seq(Units)
    BY <1>1, <2>1, SeqMonotonic DEF Plain
  <2>3. \A i \in 1..Len(c) : c[i] \in Chars \union {Word}
    BY <1>1 DEF Plain
  <2>4. \A i \in 1..Len(c) : c[i] # Newline
    BY <2>3, UnitFacts
  <2>5. ASSUME NEW n \in 0..Len(c) PROVE SubSeq(c, 1, n) \in Credentials
    <3>1. \A i \in 1..n : c[i] \in Chars \union {Word}
      BY <2>2, <2>3
    <3>2. SubSeq(c, 1, n) \in Plain
      BY <3>1, SubSeqProperties DEF Plain
    <3> QED BY <3>2 DEF Credentials
  <2> QED BY <2>2, <2>4, <2>5
<1>2. ASSUME NEW t \in Plain, c = <<Word, Salt>> \/ c = hash_password(t)
      PROVE  /\ c \in Seq(Units)
             /\ \A i \in 1..Len(c) : c[i] # Newline
             /\ \A n \in 0..Len(c) : SubSeq(c, 1, n) \in Credentials
  <2>1. Word \in Units /\ Salt \in Units /\ Digest(t) \in Units
    BY DEF Units
  <2>2. c = <<Word, Salt>> \/ c = <<Word, Salt, Digest(t)>>
    BY <1>2 DEF hash_password
  <2>3. c \in Seq(Units) /\ Len(c) \in {2, 3} /\ c[1] = Word /\ c[2] = Salt
        /\ (Len(c) = 3 => c[3] = Digest(t) /\ c = <<Word, Salt, Digest(t)>>)
        /\ (Len(c) = 2 => c = <<Word, Salt>>)
    <3>1. CASE c = <<Word, Salt>>
      BY <2>1, <3>1
    <3>2. CASE c = <<Word, Salt, Digest(t)>>
      BY <2>1, <3>2
    <3> QED BY <2>2, <3>1, <3>2
  <2>4. \A i \in 1..Len(c) : c[i] # Newline
    <3>0. Len(c) = 2 \/ Len(c) = 3
      BY <2>3
    <3>1. \A i \in 1..Len(c) : i = 1 \/ i = 2 \/ (i = 3 /\ Len(c) = 3)
      <4>1. CASE Len(c) = 2
        BY <4>1
      <4>2. CASE Len(c) = 3
        BY <4>2
      <4> QED BY <3>0, <4>1, <4>2
    <3> QED BY <2>3, <3>1, UnitFacts
  <2>5. ASSUME NEW n \in 0..Len(c) PROVE SubSeq(c, 1, n) \in Credentials
    <3>a. Len(c) = 2 \/ Len(c) = 3
      BY <2>3
    <3>b. n \in Nat /\ n <= Len(c)
      BY <3>a
    <3>0. \A i \in 1..n : c[i] \in Units
      <4>1. \A i \in 1..n : i \in 1..Len(c)
        BY <3>a, <3>b
      <4>2. \A i \in 1..Len(c) : c[i] \in Units
        BY <2>3
      <4> QED BY <4>1, <4>2
    <3>1. CASE n = Len(c)
      BY <1>2, <2>3, <3>1, SubSeqFull DEF Credentials
    <3>2. CASE n # Len(c) /\ n = 2
      <4>1. /\ SubSeq(c, 1, n) \in Seq(Units) /\ Len(SubSeq(c, 1, n)) = 2
            /\ \A i \in 1..2 : SubSeq(c, 1, n)[i] = c[1 + i - 1]
        BY <3>0, <3>2, SubSeqProperties
      <4>2. SubSeq(c, 1, n)[1] = Word /\ SubSeq(c, 1, n)[2] = Salt
        BY <2>3, <4>1
      <4>3. SubSeq(c, 1, n) = <<Word, Salt>>
        <5>1. <<Word, Salt>> \in Seq(Units) /\ Len(<<Word, Salt>>) = 2
              /\ <<Word, Salt>>[1] = Word /\ <<Word, Salt>>[2] = Salt
          BY <2>1
        <5>2. \A i \in 1..2 : SubSeq(c, 1, n)[i] = <<Word, Salt>>[i]
          <6>1. \A i \in 1..2 : i = 1 \/ i = 2
            OBVIOUS
          <6> QED BY <4>2, <5>1, <6>1
        <5> QED BY <4>1, <5>1, <5>2, SeqEqual
      <4> QED BY <4>3 DEF Credentials
    <3>3. CASE n <= 1
      <4>1. \A i \in 1..n : c[i] \in Chars \union {Word}
        <5>1. \A i \in 1..n : i = 1
          BY <3>3
        <5> QED BY <2>3, <5>1
      <4>2. SubSeq(c, 1, n) \in Plain
        BY <4>1, SubSeqProperties DEF Plain
      <4> QED BY <4>2 DEF Credentials
    <3>c. n = Len(c) \/ (n # Len(c) /\ n = 2) \/ n <= 1
      <4>1. CASE Len(c) = 2
        BY <3>b, <4>1
      <4>2. CASE Len(c) = 3
        BY <3>b, <4>2
      <4> QED BY <3>a, <4>1, <4>2
    <3> QED BY <3>c, <3>1, <3>2, <3>3
  <2> QED BY <2>3, <2>4, <2>5
<1>3. <<>> \in Plain
  BY DEF Plain
<1> QED BY <1>1, <1>2, <1>3 DEF Credentials

\* A line of a file has an entry from s to before e, with its first colon at c.
Entry(txt, s, c, e) ==
  /\ s \in 1..Len(txt) /\ c \in 1..Len(txt) /\ e \in 1..Len(txt) + 1
  /\ s = 1 \/ txt[s - 1] = Newline
  /\ txt[c] = Colon
  /\ e = Len(txt) + 1 \/ txt[e] = Newline
  /\ s <= c /\ c < e
  /\ \A j \in s..c - 1 : txt[j] # Colon
  /\ \A j \in s..e - 1 : txt[j] # Newline

\* The pairs of name and credential that its entries say.
Said(txt) == {<<Name(txt, m), Credential(txt, m)>> : m \in Entries(txt)}

\* What there is in Entries, and in Said.
LEMMA EntriesAre ==
  ASSUME NEW txt \in Seq(Units)
  PROVE  /\ \A m \in Entries(txt) :
              Entry(txt, m[1], m[2], m[3]) /\ m = <<m[1], m[2], m[3]>>
         /\ \A s, c, e : Entry(txt, s, c, e) => <<s, c, e>> \in Entries(txt)
<1>1. DOMAIN txt = 1..Len(txt)
  OBVIOUS
<1>2. ASSUME NEW m \in Entries(txt)
      PROVE  Entry(txt, m[1], m[2], m[3]) /\ m = <<m[1], m[2], m[3]>>
  BY <1>1 DEF Entries, Entry
<1>3. ASSUME NEW s, NEW c, NEW e, Entry(txt, s, c, e)
      PROVE  <<s, c, e>> \in Entries(txt)
  BY <1>1, <1>3 DEF Entries, Entry
<1> QED BY <1>2, <1>3

LEMMA SaidIs ==
  ASSUME NEW txt \in Seq(Units), NEW p
  PROVE  p \in Said(txt) <=>
           \E s, c, e : /\ Entry(txt, s, c, e)
                        /\ p = <<SubSeq(txt, s, c - 1), SubSeq(txt, c + 1, e - 1)>>
<1>1. ASSUME NEW m \in Entries(txt)
      PROVE  /\ Entry(txt, m[1], m[2], m[3])
             /\ Name(txt, m) = SubSeq(txt, m[1], m[2] - 1)
             /\ Credential(txt, m) = SubSeq(txt, m[2] + 1, m[3] - 1)
  BY EntriesAre DEF Name, Credential
<1>2. ASSUME NEW s, NEW c, NEW e, Entry(txt, s, c, e)
      PROVE  <<SubSeq(txt, s, c - 1), SubSeq(txt, c + 1, e - 1)>> \in Said(txt)
  <2>1. <<s, c, e>> \in Entries(txt)
    BY <1>2, EntriesAre
  <2>2. /\ Name(txt, <<s, c, e>>) = SubSeq(txt, s, c - 1)
        /\ Credential(txt, <<s, c, e>>) = SubSeq(txt, c + 1, e - 1)
    BY DEF Name, Credential
  <2> QED BY <2>1, <2>2 DEF Said
<1>3. ASSUME p \in Said(txt)
      PROVE  \E s, c, e : /\ Entry(txt, s, c, e)
                          /\ p = <<SubSeq(txt, s, c - 1), SubSeq(txt, c + 1, e - 1)>>
  <2>1. PICK m \in Entries(txt) : p = <<Name(txt, m), Credential(txt, m)>>
    BY <1>3 DEF Said
  <2> QED BY <1>1, <2>1
<1> QED BY <1>2, <1>3

\* An entry of the first of two files, if that ends with a line, is one of both
\* together, and the other way round ...
LEMMA EntryOfFirst ==
  ASSUME NEW g \in Seq(Units), NEW l \in Seq(Units), g # <<>>, g[Len(g)] = Newline,
         NEW s, NEW c, NEW e
  PROVE  Entry(g, s, c, e) <=> Entry(g \o l, s, c, e) /\ s <= Len(g)
<1> DEFINE N == Len(g)  L == Len(l)  b == g \o l
<1>1. N \in Nat /\ L \in Nat /\ N > 0 /\ g[N] = Newline /\ Len(g) = N /\ Len(b) = N + L
      /\ b \in Seq(Units)
  OBVIOUS
<1>2. \A i \in 1..N : b[i] = g[i]
  BY ConcatProperties
<1> HIDE DEF N, L, b
<1>3. ASSUME Entry(g, s, c, e) PROVE Entry(b, s, c, e) /\ s <= N
  <2>1. /\ s \in 1..N /\ c \in 1..N /\ e \in 1..N + 1
        /\ s = 1 \/ g[s - 1] = Newline
        /\ g[c] = Colon
        /\ e = N + 1 \/ g[e] = Newline
        /\ s <= c /\ c < e
        /\ \A j \in s..c - 1 : g[j] # Colon
        /\ \A j \in s..e - 1 : g[j] # Newline
    BY <1>1, <1>3 DEF Entry
  <2>2. e <= N
    <3>1. N \notin s..e - 1
      BY <1>1, <2>1
    <3> QED BY <1>1, <2>1, <3>1
  <2>3. s = 1 \/ s - 1 \in 1..N
    BY <1>1, <2>1
  <2>4. /\ s \in 1..N + L /\ c \in 1..N + L /\ e \in 1..N + L + 1
    BY <1>1, <2>1, <2>2
  <2>5. \A j \in s..e - 1 : j \in 1..N
    BY <1>1, <2>1, <2>2
  <2>6. \A j \in s..c - 1 : j \in 1..N
    BY <1>1, <2>1, <2>2
  <2>7. e \in 1..N /\ g[e] = Newline
    BY <1>1, <2>1, <2>2
  <2>8. s <= N
    BY <1>1, <2>1
  <2> QED BY <1>1, <1>2, <2>1, <2>3, <2>4, <2>5, <2>6, <2>7, <2>8 DEF Entry
<1>4. ASSUME Entry(b, s, c, e), s <= N PROVE Entry(g, s, c, e)
  <2>1. /\ s \in 1..N + L /\ c \in 1..N + L /\ e \in 1..N + L + 1
        /\ s = 1 \/ b[s - 1] = Newline
        /\ b[c] = Colon
        /\ e = N + L + 1 \/ b[e] = Newline
        /\ s <= c /\ c < e
        /\ \A j \in s..c - 1 : b[j] # Colon
        /\ \A j \in s..e - 1 : b[j] # Newline
    BY <1>1, <1>4 DEF Entry
  <2>2. e <= N
    <3>1. N \notin s..e - 1
      BY <1>1, <1>2, <2>1
    <3> QED BY <1>1, <1>4, <2>1, <3>1
  <2>3. s = 1 \/ s - 1 \in 1..N
    BY <1>1, <1>4, <2>1
  <2>4. s \in 1..N /\ c \in 1..N /\ e \in 1..N + 1 /\ e \in 1..N
    BY <1>1, <2>1, <2>2
  <2>5. \A j \in s..e - 1 : j \in 1..N
    BY <1>1, <2>1, <2>2
  <2>6. \A j \in s..c - 1 : j \in 1..N
    BY <1>1, <2>1, <2>2
  <2>7. b[e] = Newline
    BY <1>1, <2>1, <2>2
  <2> QED BY <1>1, <1>2, <2>1, <2>3, <2>4, <2>5, <2>6, <2>7 DEF Entry
<1> QED BY <1>3, <1>4 DEF N, b

\* ... and so is one of the second, further on.
LEMMA EntryOfSecond ==
  ASSUME NEW g \in Seq(Units), NEW l \in Seq(Units), g # <<>>, g[Len(g)] = Newline,
         NEW s \in Int, NEW c \in Int, NEW e \in Int
  PROVE  Entry(l, s, c, e)
           <=> Entry(g \o l, s + Len(g), c + Len(g), e + Len(g)) /\ s >= 1
<1> DEFINE N == Len(g)  L == Len(l)  b == g \o l
<1>1. N \in Nat /\ L \in Nat /\ N > 0 /\ g[N] = Newline /\ Len(l) = L /\ Len(b) = N + L
      /\ b \in Seq(Units)
  OBVIOUS
<1>2. b[N] = Newline
  BY ConcatProperties
<1>3. \A i \in 1..L : b[i + N] = l[i]
  <2> SUFFICES ASSUME NEW i \in 1..L PROVE b[i + N] = l[i]
    OBVIOUS
  <2>1. i + N \in 1..N + L /\ ~(i + N <= N) /\ (i + N) - N = i
    BY <1>1
  <2> QED BY <2>1, ConcatProperties
<1> HIDE DEF N, L, b
<1>4. ASSUME Entry(l, s, c, e) PROVE Entry(b, s + N, c + N, e + N) /\ s >= 1
  <2>1. /\ s \in 1..L /\ c \in 1..L /\ e \in 1..L + 1
        /\ s = 1 \/ l[s - 1] = Newline
        /\ l[c] = Colon
        /\ e = L + 1 \/ l[e] = Newline
        /\ s <= c /\ c < e
        /\ \A j \in s..c - 1 : l[j] # Colon
        /\ \A j \in s..e - 1 : l[j] # Newline
    BY <1>1, <1>4 DEF Entry
  <2>2. s + N \in 1..N + L /\ c + N \in 1..N + L /\ e + N \in 1..N + L + 1
        /\ s + N <= c + N /\ c + N < e + N
    BY <1>1, <2>1
  <2>3. s + N = 1 \/ b[(s + N) - 1] = Newline
    <3>1. CASE s = 1
      <4>1. (s + N) - 1 = N
        BY <1>1, <3>1
      <4> QED BY <1>2, <4>1
    <3>2. CASE s # 1
      <4>1. (s + N) - 1 = (s - 1) + N /\ s - 1 \in 1..L
        BY <1>1, <2>1, <3>2
      <4>2. b[(s - 1) + N] = l[s - 1]
        BY <1>3, <4>1
      <4> QED BY <2>1, <3>2, <4>1, <4>2
    <3> QED BY <3>1, <3>2
  <2>4. b[c + N] = Colon
    BY <1>3, <2>1
  <2>5. e + N = N + L + 1 \/ b[e + N] = Newline
    <3>1. CASE e = L + 1
      BY <1>1, <3>1
    <3>2. CASE e # L + 1
      <4>1. e \in 1..L
        BY <1>1, <2>1, <3>2
      <4> QED BY <1>3, <2>1, <3>2, <4>1
    <3> QED BY <3>1, <3>2
  <2>6. ASSUME NEW j \in s + N..(c + N) - 1 PROVE b[j] # Colon
    <3>1. j - N \in s..c - 1 /\ j - N \in 1..L /\ (j - N) + N = j
      BY <1>1, <2>1, <2>6
    <3>2. b[(j - N) + N] = l[j - N]
      BY <1>3, <3>1
    <3> QED BY <2>1, <3>1, <3>2
  <2>7. ASSUME NEW j \in s + N..(e + N) - 1 PROVE b[j] # Newline
    <3>1. j - N \in s..e - 1 /\ j - N \in 1..L /\ (j - N) + N = j
      BY <1>1, <2>1, <2>7
    <3>2. b[(j - N) + N] = l[j - N]
      BY <1>3, <3>1
    <3> QED BY <2>1, <3>1, <3>2
  <2>8. s >= 1
    BY <2>1
  <2> QED BY <1>1, <2>2, <2>3, <2>4, <2>5, <2>6, <2>7, <2>8 DEF Entry
<1>5. ASSUME Entry(b, s + N, c + N, e + N), s >= 1 PROVE Entry(l, s, c, e)
  <2>1. /\ s + N \in 1..N + L /\ c + N \in 1..N + L /\ e + N \in 1..N + L + 1
        /\ s + N = 1 \/ b[(s + N) - 1] = Newline
        /\ b[c + N] = Colon
        /\ e + N = N + L + 1 \/ b[e + N] = Newline
        /\ s + N <= c + N /\ c + N < e + N
        /\ \A j \in s + N..(c + N) - 1 : b[j] # Colon
        /\ \A j \in s + N..(e + N) - 1 : b[j] # Newline
    BY <1>1, <1>5 DEF Entry
  <2>2. s \in 1..L /\ c \in 1..L /\ e \in 1..L + 1 /\ s <= c /\ c < e
    BY <1>1, <1>5, <2>1
  <2>3. s = 1 \/ l[s - 1] = Newline
    <3> SUFFICES ASSUME s # 1 PROVE l[s - 1] = Newline
      OBVIOUS
    <3>1. (s + N) - 1 = (s - 1) + N /\ s - 1 \in 1..L /\ s + N # 1
      BY <1>1, <2>2
    <3>2. b[(s - 1) + N] = l[s - 1]
      BY <1>3, <3>1
    <3> QED BY <2>1, <3>1, <3>2
  <2>4. l[c] = Colon
    BY <1>3, <2>1, <2>2
  <2>5. e = L + 1 \/ l[e] = Newline
    <3> SUFFICES ASSUME e # L + 1 PROVE l[e] = Newline
      OBVIOUS
    <3>1. e \in 1..L /\ e + N # N + L + 1
      BY <1>1, <2>2
    <3> QED BY <1>3, <2>1, <3>1
  <2>6. ASSUME NEW j \in s..c - 1 PROVE l[j] # Colon
    <3>1. j \in 1..L /\ j + N \in s + N..(c + N) - 1
      BY <1>1, <2>2
    <3> QED BY <1>3, <2>1, <3>1
  <2>7. ASSUME NEW j \in s..e - 1 PROVE l[j] # Newline
    <3>1. j \in 1..L /\ j + N \in s + N..(e + N) - 1
      BY <1>1, <2>2
    <3> QED BY <1>3, <2>1, <3>1
  <2> QED BY <1>1, <2>2, <2>3, <2>4, <2>5, <2>6, <2>7 DEF Entry
<1> QED BY <1>4, <1>5 DEF N, b

\* What two files say together, the first being whole lines.
LEMMA SaidJoined ==
  ASSUME NEW g \in Seq(Units), NEW l \in Seq(Units), g = <<>> \/ g[Len(g)] = Newline
  PROVE  Said(g \o l) = Said(g) \union Said(l)
<1>1. CASE g = <<>>
  <2>1. g \o l = l
    BY <1>1, ConcatEmptySeq
  <2>2. \A p : p \notin Said(g)
    <3> SUFFICES ASSUME NEW p, p \in Said(g) PROVE FALSE
      OBVIOUS
    <3>1. PICK s, c, e : Entry(g, s, c, e)
      BY SaidIs
    <3>2. s \in 1..Len(g) /\ Len(g) = 0
      BY <1>1, <3>1 DEF Entry
    <3> QED BY <3>2
  <2> QED BY <2>1, <2>2
<1>2. CASE g # <<>>
  <2> DEFINE N == Len(g)  L == Len(l)  b == g \o l
  <2>1. N \in Nat /\ L \in Nat /\ b \in Seq(Units) /\ Len(b) = N + L
    OBVIOUS
  <2>2. ASSUME NEW s \in Int, NEW c \in Int, NEW e \in Int, Entry(g, s, c, e)
        PROVE  SubSeq(b, s, c - 1) = SubSeq(g, s, c - 1)
               /\ SubSeq(b, c + 1, e - 1) = SubSeq(g, c + 1, e - 1)
    <3>1. s \in 1..N /\ c \in 1..N /\ e \in 1..N + 1 /\ s <= c /\ c < e
      BY <2>2 DEF Entry
    <3>2. ASSUME NEW i \in Int, NEW j \in Int, i >= 1, j <= N
          PROVE  SubSeq(b, i, j) = SubSeq(g, i, j)
      <4>1. CASE j < i
        BY <3>2, <4>1, SubSeqEmpty
      <4>2. CASE ~(j < i)
        <5>1. i \in 1..Len(g) /\ j \in 1..Len(g)
          BY <2>1, <3>2, <4>2
        <5> QED BY <5>1, SubSeqOfConcat1
      <4> QED BY <4>1, <4>2
    <3>3. c - 1 <= N /\ c + 1 >= 1 /\ e - 1 <= N /\ s >= 1
          /\ s \in Int /\ c - 1 \in Int /\ c + 1 \in Int /\ e - 1 \in Int
      BY <2>1, <3>1
    <3> HIDE DEF N, b
    <3> QED BY <3>2, <3>3
  <2>3. ASSUME NEW s \in Int, NEW c \in Int, NEW e \in Int, Entry(l, s, c, e)
        PROVE  SubSeq(b, s + N, (c + N) - 1) = SubSeq(l, s, c - 1)
               /\ SubSeq(b, (c + N) + 1, (e + N) - 1) = SubSeq(l, c + 1, e - 1)
    <3>1. s \in 1..L /\ c \in 1..L /\ e \in 1..L + 1 /\ s <= c /\ c < e
      BY <2>3 DEF Entry
    <3>2. ASSUME NEW i \in Int, NEW j \in Int, i >= 1, j <= L
          PROVE  SubSeq(b, i + N, j + N) = SubSeq(l, i, j)
      <4>1. CASE j < i
        <5>1. j + N < i + N /\ i + N \in Int /\ j + N \in Int
          BY <2>1, <4>1
        <5> QED BY <4>1, <5>1, SubSeqEmpty
      <4>2. CASE ~(j < i)
        <5>1. i + N \in Len(g) + 1..Len(g) + Len(l) /\ j + N \in Len(g) + 1..Len(g) + Len(l)
              /\ (i + N) - Len(g) = i /\ (j + N) - Len(g) = j
          BY <2>1, <3>2, <4>2
        <5>2. SubSeq(g \o l, i + N, j + N) = SubSeq(l, (i + N) - Len(g), (j + N) - Len(g))
          BY <5>1, SubSeqOfConcat2
        <5> QED BY <5>1, <5>2
      <4> QED BY <4>1, <4>2
    <3>3. c - 1 <= L /\ c + 1 >= 1 /\ e - 1 <= L /\ s >= 1
          /\ s \in Int /\ c - 1 \in Int /\ c + 1 \in Int /\ e - 1 \in Int
      BY <2>1, <3>1
    <3>4. (c + N) - 1 = (c - 1) + N /\ (c + N) + 1 = (c + 1) + N /\ (e + N) - 1 = (e - 1) + N
      BY <2>1
    <3> HIDE DEF N, L, b
    <3> QED BY <3>2, <3>3, <3>4
  <2> HIDE DEF N, L, b
  <2>4. ASSUME NEW p, p \in Said(g) PROVE p \in Said(b)
    <3>1. PICK s, c, e : /\ Entry(g, s, c, e)
                         /\ p = <<SubSeq(g, s, c - 1), SubSeq(g, c + 1, e - 1)>>
      BY <2>4, SaidIs
    <3>2. Entry(b, s, c, e)
      BY <1>2, <3>1, EntryOfFirst DEF b
    <3>0. s \in Int /\ c \in Int /\ e \in Int
      BY <3>1 DEF Entry
    <3>3. SubSeq(b, s, c - 1) = SubSeq(g, s, c - 1)
          /\ SubSeq(b, c + 1, e - 1) = SubSeq(g, c + 1, e - 1)
      BY <2>2, <3>0, <3>1
    <3>4. p = <<SubSeq(b, s, c - 1), SubSeq(b, c + 1, e - 1)>>
      BY <3>1, <3>3
    <3> QED BY <2>1, <3>2, <3>4, SaidIs
  <2>5. ASSUME NEW p, p \in Said(l) PROVE p \in Said(b)
    <3>1. PICK s, c, e : /\ Entry(l, s, c, e)
                         /\ p = <<SubSeq(l, s, c - 1), SubSeq(l, c + 1, e - 1)>>
      BY <2>5, SaidIs
    <3>2. s \in Int /\ c \in Int /\ e \in Int
      BY <3>1 DEF Entry
    <3>3. Entry(b, s + N, c + N, e + N)
      BY <1>2, <3>1, <3>2, EntryOfSecond DEF b, N
    <3>4. p = <<SubSeq(b, s + N, (c + N) - 1), SubSeq(b, (c + N) + 1, (e + N) - 1)>>
      BY <2>3, <3>1, <3>2
    <3> QED BY <2>1, <3>3, <3>4, SaidIs
  <2>6. ASSUME NEW p, p \in Said(b) PROVE p \in Said(g) \union Said(l)
    <3>1. PICK s, c, e : /\ Entry(b, s, c, e)
                         /\ p = <<SubSeq(b, s, c - 1), SubSeq(b, c + 1, e - 1)>>
      BY <2>1, <2>6, SaidIs
    <3>2. s \in Int /\ c \in Int /\ e \in Int
      BY <3>1 DEF Entry
    <3>3. CASE s <= N
      <4>1. Entry(g, s, c, e)
        BY <1>2, <3>1, <3>3, EntryOfFirst DEF b, N
      <4>2. SubSeq(b, s, c - 1) = SubSeq(g, s, c - 1)
            /\ SubSeq(b, c + 1, e - 1) = SubSeq(g, c + 1, e - 1)
        BY <2>2, <3>2, <4>1
      <4>3. p = <<SubSeq(g, s, c - 1), SubSeq(g, c + 1, e - 1)>>
        BY <3>1, <4>2
      <4>4. p \in Said(g)
        BY <4>1, <4>3, SaidIs
      <4> QED BY <4>4
    <3>4. CASE ~(s <= N)
      <4>1. /\ s - N \in Int /\ c - N \in Int /\ e - N \in Int /\ s - N >= 1
            /\ (s - N) + N = s /\ (c - N) + N = c /\ (e - N) + N = e
        BY <2>1, <3>2, <3>4
      <4>2. Entry(l, s - N, c - N, e - N)
        <5>1. Entry(b, (s - N) + N, (c - N) + N, (e - N) + N)
          BY <3>1, <4>1
        <5> QED BY <1>2, <4>1, <5>1, EntryOfSecond DEF b, N
      <4>3. /\ SubSeq(b, s, c - 1) = SubSeq(l, s - N, (c - N) - 1)
            /\ SubSeq(b, c + 1, e - 1) = SubSeq(l, (c - N) + 1, (e - N) - 1)
        <5>1. /\ SubSeq(b, (s - N) + N, ((c - N) + N) - 1) = SubSeq(l, s - N, (c - N) - 1)
              /\ SubSeq(b, ((c - N) + N) + 1, ((e - N) + N) - 1) = SubSeq(l, (c - N) + 1, (e - N) - 1)
          BY <2>3, <4>1, <4>2
        <5> QED BY <4>1, <5>1
      <4>4. p = <<SubSeq(l, s - N, (c - N) - 1), SubSeq(l, (c - N) + 1, (e - N) - 1)>>
        BY <3>1, <4>3
      <4>5. p \in Said(l)
        BY <4>2, <4>4, SaidIs
      <4> QED BY <4>5
    <3> QED BY <3>3, <3>4
  <2> QED BY <2>4, <2>5, <2>6 DEF b
<1> QED BY <1>1, <1>2

\* A file of one line that has no colon says nothing ...
LEMMA SaidNothing ==
  ASSUME NEW l \in Seq(Units), \A i \in 1..Len(l) : l[i] # Colon
  PROVE  Said(l) = {}
<1> SUFFICES ASSUME NEW p, p \in Said(l) PROVE FALSE
  OBVIOUS
<1>1. PICK s, c, e : Entry(l, s, c, e)
  BY SaidIs
<1> QED BY <1>1 DEF Entry

\* ... and one that has says the name before it and what follows it.
LEMMA SaidOne ==
  ASSUME NEW l \in Seq(Units), NEW k \in 1..Len(l), NEW z \in k + 1..Len(l) + 1,
         l[k] = Colon, \A i \in 1..k - 1 : l[i] # Colon,
         \A i \in 1..z - 1 : l[i] # Newline,
         z = Len(l) + 1 \/ (z = Len(l) /\ l[z] = Newline)
  PROVE  Said(l) = {<<SubSeq(l, 1, k - 1), SubSeq(l, k + 1, z - 1)>>}
<1> DEFINE L == Len(l)
<1>0. L \in Nat /\ k \in Int /\ z \in Int /\ 1 <= k /\ k <= L /\ k < z /\ z <= L + 1
  OBVIOUS
<1>1. Entry(l, 1, k, z)
  <2>1. 1 \in 1..L /\ z \in 1..L + 1 /\ 1 <= k
    BY <1>0
  <2>2. z = L + 1 \/ l[z] = Newline
    OBVIOUS
  <2> QED BY <1>0, <2>1, <2>2 DEF Entry
<1>2. ASSUME NEW s, NEW c, NEW e, Entry(l, s, c, e)
      PROVE  s = 1 /\ c = k /\ e = z
  <2>1. /\ s \in 1..L /\ c \in 1..L /\ e \in 1..L + 1
        /\ s = 1 \/ l[s - 1] = Newline
        /\ l[c] = Colon
        /\ e = L + 1 \/ l[e] = Newline
        /\ s <= c /\ c < e
        /\ \A j \in s..c - 1 : l[j] # Colon
        /\ \A j \in s..e - 1 : l[j] # Newline
    BY <1>2 DEF Entry
  <2>2. s = 1
    <3> SUFFICES ASSUME s # 1 PROVE FALSE
      OBVIOUS
    <3>1. s - 1 \in 1..z - 1
      BY <1>0, <2>1
    <3> QED BY <2>1, <3>1
  <2>3. c = k
    <3>1. ~(c < k)
      <4> SUFFICES ASSUME c < k PROVE FALSE
        OBVIOUS
      <4>1. c \in 1..k - 1
        BY <1>0, <2>1
      <4> QED BY <2>1, <4>1
    <3>2. ~(k < c)
      <4> SUFFICES ASSUME k < c PROVE FALSE
        OBVIOUS
      <4>1. k \in s..c - 1
        BY <1>0, <2>1, <2>2
      <4> QED BY <2>1, <4>1
    <3> QED BY <1>0, <2>1, <3>1, <3>2
  <2>4. e = z
    <3>1. ~(e < z)
      <4> SUFFICES ASSUME e < z PROVE FALSE
        OBVIOUS
      <4>1. e \in 1..z - 1 /\ e # L + 1
        BY <1>0, <2>1
      <4> QED BY <2>1, <4>1
    <3>2. ~(z < e)
      <4> SUFFICES ASSUME z < e PROVE FALSE
        OBVIOUS
      <4>1. z # L + 1 /\ z \in s..e - 1
        BY <1>0, <2>1, <2>2
      <4>2. l[z] = Newline
        BY <4>1
      <4> QED BY <2>1, <4>1, <4>2
    <3> QED BY <1>0, <2>1, <3>1, <3>2
  <2> QED BY <2>2, <2>3, <2>4
<1> DEFINE x == <<SubSeq(l, 1, k - 1), SubSeq(l, k + 1, z - 1)>>
<1>3. x \in Said(l)
  BY <1>1, SaidIs
<1>4. ASSUME NEW p, p \in Said(l) PROVE p = x
  <2>1. PICK s, c, e : /\ Entry(l, s, c, e)
                       /\ p = <<SubSeq(l, s, c - 1), SubSeq(l, c + 1, e - 1)>>
    BY <1>4, SaidIs
  <2>2. s = 1 /\ c = k /\ e = z
    BY <1>2, <2>1
  <2> QED BY <2>1, <2>2
<1> QED BY <1>3, <1>4

\* A line, position by position.
LEMMA LineFacts ==
  ASSUME NEW u \in Users, NEW x \in Credentials
  PROVE  /\ Line(u, x) \in Seq(Units)
         /\ Len(u) \in Nat /\ Len(x) \in Nat
         /\ Len(Line(u, x)) = Len(u) + Len(x) + 2
         /\ \A i \in 1..Len(u) : Line(u, x)[i] = u[i] /\ u[i] # Colon /\ u[i] # Newline
         /\ Line(u, x)[Len(u) + 1] = Colon
         /\ \A i \in 1..Len(x) : Line(u, x)[Len(u) + 1 + i] = x[i] /\ x[i] # Newline
         /\ Line(u, x)[Len(u) + Len(x) + 2] = Newline
<1>1. u \in Seq(Chars) /\ Chars \subseteq Units
  BY TextFacts DEF Units
<1>2. u \in Seq(Units)
  BY <1>1, SeqMonotonic
<1>3. \A i \in 1..Len(u) : u[i] # Colon /\ u[i] # Newline
  BY <1>1, UnitFacts
<1>4. x \in Seq(Units) /\ \A i \in 1..Len(x) : x[i] # Newline
  BY CredentialFacts
<1>5. Colon \in Units /\ Newline \in Units
  BY DEF Units
<1>6. <<Colon>> \in Seq(Units) /\ Len(<<Colon>>) = 1 /\ <<Colon>>[1] = Colon
      /\ <<Newline>> \in Seq(Units) /\ Len(<<Newline>>) = 1 /\ <<Newline>>[1] = Newline
  BY <1>5
<1> DEFINE U == Len(u)  X == Len(x)  a == u \o <<Colon>>  b == a \o x  c == b \o <<Newline>>
<1>7. Line(u, x) = c
  BY DEF Line
<1>8. U \in Nat /\ X \in Nat
  BY <1>2, <1>4
<1>9. a \in Seq(Units) /\ Len(a) = U + 1 /\ a[U + 1] = Colon /\ \A i \in 1..U : a[i] = u[i]
  <2>1. a \in Seq(Units) /\ Len(a) = U + 1
        /\ \A i \in 1..U + 1 : a[i] = IF i <= U THEN u[i] ELSE <<Colon>>[i - U]
    BY <1>2, <1>6, ConcatProperties
  <2>2. U + 1 \in 1..U + 1 /\ ~(U + 1 <= U) /\ (U + 1) - U = 1
    BY <1>8
  <2>3. \A i \in 1..U : i \in 1..U + 1 /\ i <= U
    BY <1>8
  <2> HIDE DEF a, U
  <2> QED BY <1>6, <2>1, <2>2, <2>3
<1>10. b \in Seq(Units) /\ Len(b) = U + 1 + X
       /\ (\A i \in 1..U + 1 : b[i] = a[i]) /\ \A i \in 1..X : b[U + 1 + i] = x[i]
  <2> HIDE DEF a, U, X
  <2>1. b \in Seq(Units) /\ Len(b) = U + 1 + X
        /\ \A i \in 1..U + 1 + X : b[i] = IF i <= U + 1 THEN a[i] ELSE x[i - (U + 1)]
    <3>1. a \o x \in Seq(Units) /\ Len(a \o x) = Len(a) + Len(x)
          /\ \A i \in 1..Len(a) + Len(x) : (a \o x)[i] = IF i <= Len(a) THEN a[i] ELSE x[i - Len(a)]
      BY <1>4, <1>9, ConcatProperties
    <3>2. Len(a) = U + 1 /\ Len(x) = X
      BY <1>9 DEF X
    <3> QED BY <3>1, <3>2
  <2>2. \A i \in 1..X : U + 1 + i \in 1..U + 1 + X /\ ~(U + 1 + i <= U + 1) /\ (U + 1 + i) - (U + 1) = i
    BY <1>8
  <2>3. \A i \in 1..U + 1 : i \in 1..U + 1 + X /\ i <= U + 1
    BY <1>8
  <2> HIDE DEF b
  <2> QED BY <2>1, <2>2, <2>3
<1>11. c \in Seq(Units) /\ Len(c) = U + X + 2
       /\ (\A i \in 1..U + 1 + X : c[i] = b[i]) /\ c[U + X + 2] = Newline
  <2> HIDE DEF b, U, X
  <2>1. c \in Seq(Units) /\ Len(c) = (U + 1 + X) + 1
        /\ \A i \in 1..(U + 1 + X) + 1 : c[i] = IF i <= U + 1 + X THEN b[i] ELSE <<Newline>>[i - (U + 1 + X)]
    BY <1>6, <1>10, ConcatProperties
  <2>2. U + X + 2 = (U + 1 + X) + 1 /\ U + X + 2 \in 1..(U + 1 + X) + 1
        /\ ~(U + X + 2 <= U + 1 + X) /\ (U + X + 2) - (U + 1 + X) = 1
    BY <1>8
  <2>3. \A i \in 1..U + 1 + X : i \in 1..(U + 1 + X) + 1 /\ i <= U + 1 + X
    BY <1>8
  <2> HIDE DEF c
  <2> QED BY <1>6, <2>1, <2>2, <2>3
<1>12. \A i \in 1..U : i \in 1..U + 1 /\ i \in 1..U + 1 + X
  BY <1>8
<1>13. U + 1 \in 1..U + 1 + X /\ U + 1 \in 1..U + 1
  BY <1>8
<1>14. \A i \in 1..X : U + 1 + i \in 1..U + 1 + X
  BY <1>8
<1> HIDE DEF U, X, a, b, c
<1>15. \A i \in 1..U : c[i] = u[i]
  BY <1>9, <1>10, <1>11, <1>12
<1>16. c[U + 1] = Colon
  BY <1>9, <1>10, <1>11, <1>13
<1>17. \A i \in 1..X : c[U + 1 + i] = x[i]
  BY <1>10, <1>11, <1>14
<1> QED BY <1>3, <1>4, <1>7, <1>8, <1>11, <1>15, <1>16, <1>17 DEF U, X

\* The first n elements of a sequence.
LEMMA Prefix ==
  ASSUME NEW S, NEW s \in Seq(S), NEW n \in 0..Len(s)
  PROVE  /\ SubSeq(s, 1, n) \in Seq(S) /\ Len(SubSeq(s, 1, n)) = n
         /\ \A i \in 1..n : SubSeq(s, 1, n)[i] = s[i]
<1>1. n \in Nat /\ \A i \in 1..n : i \in 1..Len(s)
  OBVIOUS
<1>2. /\ SubSeq(s, 1, n) \in Seq(S)
      /\ Len(SubSeq(s, 1, n)) = IF 1 <= n THEN n - 1 + 1 ELSE 0
      /\ \A i \in 1..n - 1 + 1 : SubSeq(s, 1, n)[i] = s[1 + i - 1]
  BY <1>1, SubSeqProperties
<1>3. n - 1 + 1 = n /\ (\A i \in 1..n : 1 + i - 1 = i) /\ (~(1 <= n) => n = 0)
  BY <1>1
<1> QED BY <1>2, <1>3

\* A line says its user and credential; cut, it says nothing, or the user with
\* what is left of the credential.
LEMMA LineSays ==
  ASSUME NEW u \in Users, NEW x \in Credentials
  PROVE  /\ Said(Line(u, x)) = {<<u, x>>}
         /\ \A n \in 0..Len(Line(u, x)) :
              \/ Said(SubSeq(Line(u, x), 1, n)) = {}
              \/ \E m \in 0..Len(x) :
                   Said(SubSeq(Line(u, x), 1, n)) = {<<u, SubSeq(x, 1, m)>>}
<1> DEFINE l == Line(u, x)  U == Len(u)  X == Len(x)
<1>1. /\ l \in Seq(Units) /\ U \in Nat /\ X \in Nat /\ Len(l) = U + X + 2
      /\ \A i \in 1..U : l[i] = u[i] /\ u[i] # Colon /\ u[i] # Newline
      /\ l[U + 1] = Colon
      /\ \A i \in 1..X : l[U + 1 + i] = x[i] /\ x[i] # Newline
      /\ l[U + X + 2] = Newline
  BY LineFacts
<1>2. x \in Seq(Units) /\ u \in Seq(Units)
  <2>1. u \in Seq(Chars) /\ Chars \subseteq Units
    BY TextFacts DEF Units
  <2> QED BY <2>1, SeqMonotonic, CredentialFacts
<1>3. Len(u) = U /\ Len(x) = X
  OBVIOUS
<1> HIDE DEF l, U, X
<1>4. ASSUME NEW i \in 1..U + X + 1 PROVE l[i] # Newline
  <2>1. CASE i \in 1..U
    BY <1>1, <2>1
  <2>2. CASE i = U + 1
    BY <1>1, <2>2, UnitFacts
  <2>3. CASE i > U + 1
    <3>1. i - (U + 1) \in 1..X /\ U + 1 + (i - (U + 1)) = i
      BY <1>1, <2>3
    <3>2. l[U + 1 + (i - (U + 1))] # Newline
      BY <1>1, <3>1
    <3> QED BY <3>1, <3>2
  <2> QED BY <1>1, <2>1, <2>2, <2>3
\* What the first n units say, the line end not counted.
<1>5. ASSUME NEW n \in 0..U + X + 2, n > U, NEW z \in 1..n + 1,
             z = IF n = U + X + 2 THEN n ELSE n + 1
      PROVE  Said(SubSeq(l, 1, n)) = {<<u, SubSeq(x, 1, z - U - 2)>>}
  <2> DEFINE p == SubSeq(l, 1, n)
  <2>0. n \in Nat /\ z \in Nat
    BY <1>1
  <2>1. p \in Seq(Units) /\ Len(p) = n /\ \A i \in 1..n : p[i] = l[i]
    BY <1>1, Prefix
  <2>2. U + 1 \in 1..n /\ z \in (U + 1) + 1..n + 1 /\ z <= U + X + 2
    BY <1>1, <1>5, <2>0
  <2> HIDE DEF p
  <2>3. p[U + 1] = Colon /\ \A i \in 1..(U + 1) - 1 : p[i] # Colon
    <3>1. \A i \in 1..(U + 1) - 1 : i \in 1..n /\ i \in 1..U
      BY <1>1, <1>5, <2>0
    <3> QED BY <1>1, <2>1, <2>2, <3>1
  <2>4. \A i \in 1..z - 1 : p[i] # Newline
    <3>1. \A i \in 1..z - 1 : i \in 1..n /\ i \in 1..U + X + 1
      BY <1>1, <1>5, <2>0
    <3> QED BY <1>4, <2>1, <3>1
  <2>5. z = n + 1 \/ (z = n /\ p[z] = Newline)
    <3>1. CASE n = U + X + 2
      <4>1. z = n /\ n \in 1..n
        BY <1>1, <1>5, <3>1
      <4> QED BY <1>1, <2>1, <3>1, <4>1
    <3>2. CASE n # U + X + 2
      BY <1>5, <3>2
    <3> QED BY <3>1, <3>2
  <2>6. Said(p) = {<<SubSeq(p, 1, (U + 1) - 1), SubSeq(p, (U + 1) + 1, z - 1)>>}
    BY <2>1, <2>2, <2>3, <2>4, <2>5, SaidOne
  <2>7. SubSeq(p, 1, (U + 1) - 1) = u
    <3>1. \A i \in 1..U : p[i] = u[i]
      <4>1. \A i \in 1..U : i \in 1..n
        BY <1>1, <1>5, <2>0
      <4> QED BY <1>1, <2>1, <4>1
    <3>2. (U + 1) - 1 = U /\ U \in 0..Len(p)
      BY <1>1, <1>5, <2>0, <2>1
    <3>3. SubSeq(p, 1, U) \in Seq(Units) /\ Len(SubSeq(p, 1, U)) = U
          /\ \A i \in 1..U : SubSeq(p, 1, U)[i] = p[i]
      BY <2>1, <3>2, Prefix
    <3>5. \A i \in 1..U : SubSeq(p, 1, U)[i] = u[i]
      BY <3>1, <3>3
    <3>6. SubSeq(p, 1, U) = u
      BY <1>2, <1>3, <3>3, <3>5, SeqEqual
    <3> QED BY <3>2, <3>6
  <2>8. SubSeq(p, (U + 1) + 1, z - 1) = SubSeq(x, 1, z - U - 2)
    <3> DEFINE m == z - U - 2  q == SubSeq(p, (U + 1) + 1, z - 1)
    <3>1. m \in Int /\ 0 <= m /\ m <= X /\ (U + 1) + 1 \in Int /\ z - 1 \in Int
      BY <1>1, <2>0, <2>2
    <3>2. \A i \in (U + 1) + 1..z - 1 : i \in 1..n
      BY <1>1, <1>5, <2>0
    <3>3. \A i \in (U + 1) + 1..z - 1 : p[i] \in Units
      BY <2>1, <3>2
    <3>4. /\ q \in Seq(Units)
          /\ Len(q) = IF (U + 1) + 1 <= z - 1 THEN (z - 1) - ((U + 1) + 1) + 1 ELSE 0
          /\ \A i \in 1..(z - 1) - ((U + 1) + 1) + 1 : q[i] = p[((U + 1) + 1) + i - 1]
      BY <3>1, <3>3, SubSeqProperties
    <3>5. /\ (z - 1) - ((U + 1) + 1) + 1 = m
          /\ (~((U + 1) + 1 <= z - 1) => m = 0)
          /\ \A i \in 1..m : ((U + 1) + 1) + i - 1 = U + 1 + i
      BY <1>1, <2>0, <3>1
    <3>6. \A i \in 1..m : U + 1 + i \in 1..n /\ i \in 1..X
      BY <1>1, <1>5, <2>0, <2>2, <3>1
    <3> HIDE DEF m, q
    <3>7. Len(q) = m /\ \A i \in 1..m : q[i] = x[i]
      BY <1>1, <2>1, <3>4, <3>5, <3>6
    <3>8. m \in 0..Len(x)
      BY <1>3, <3>1
    <3>9. SubSeq(x, 1, m) \in Seq(Units) /\ Len(SubSeq(x, 1, m)) = m
          /\ \A i \in 1..m : SubSeq(x, 1, m)[i] = x[i]
      BY <1>2, <3>8, Prefix
    <3>11. \A i \in 1..m : q[i] = SubSeq(x, 1, m)[i]
      BY <3>7, <3>9
    <3>12. q = SubSeq(x, 1, m)
      BY <3>4, <3>7, <3>9, <3>11, SeqEqual
    <3> QED BY <3>12 DEF q, m
  <2> QED BY <2>6, <2>7, <2>8 DEF p
<1>6. ASSUME NEW n \in 0..U + X + 2, ~(n > U) PROVE Said(SubSeq(l, 1, n)) = {}
  <2>0. n \in Nat /\ n <= U
    BY <1>1, <1>6
  <2>1. \A i \in 1..n : i \in 1..U /\ i \in 1..U + X + 2
    BY <1>1, <2>0
  <2>3. SubSeq(l, 1, n) \in Seq(Units) /\ Len(SubSeq(l, 1, n)) = n
        /\ \A i \in 1..n : SubSeq(l, 1, n)[i] = l[i]
    BY <1>1, Prefix
  <2>7. \A i \in 1..n : l[i] # Colon
    BY <1>1, <2>1
  <2>8. \A i \in 1..Len(SubSeq(l, 1, n)) : SubSeq(l, 1, n)[i] # Colon
    BY <2>3, <2>7
  <2> QED BY <2>3, <2>8, SaidNothing
<1>7. Said(l) = {<<u, x>>}
  <2> DEFINE w == U + X + 2
  <2>1. SubSeq(l, 1, w) = l
    BY <1>1, SubSeqFull
  <2>2. /\ w \in 0..U + X + 2 /\ w > U /\ w \in 1..w + 1 /\ w - U - 2 = X
        /\ w = IF w = U + X + 2 THEN w ELSE w + 1
    BY <1>1
  <2> HIDE DEF w
  <2>3. Said(SubSeq(l, 1, w)) = {<<u, SubSeq(x, 1, w - U - 2)>>}
    BY <1>5, <2>2
  <2>4. SubSeq(x, 1, X) = x
    BY <1>2, <1>3, SubSeqFull
  <2> QED BY <2>1, <2>2, <2>3, <2>4
<1>8. ASSUME NEW n \in 0..U + X + 2
      PROVE  \/ Said(SubSeq(l, 1, n)) = {}
             \/ \E m \in 0..X : Said(SubSeq(l, 1, n)) = {<<u, SubSeq(x, 1, m)>>}
  <2>1. CASE ~(n > U)
    BY <1>6, <2>1
  <2>2. CASE n > U
    <3> DEFINE z == IF n = U + X + 2 THEN n ELSE n + 1
    <3>1. z \in 1..n + 1 /\ z - U - 2 \in 0..X
      BY <1>1, <2>2
    <3>2. z = IF n = U + X + 2 THEN n ELSE n + 1
      OBVIOUS
    <3> HIDE DEF z
    <3>3. Said(SubSeq(l, 1, n)) = {<<u, SubSeq(x, 1, z - U - 2)>>}
      BY <1>5, <2>2, <3>1, <3>2
    <3> QED BY <3>1, <3>3
  <2> QED BY <2>1, <2>2
<1> QED BY <1>1, <1>7, <1>8 DEF l, X

\* A prefix of two sequences together.
LEMMA PrefixOfTwo ==
  ASSUME NEW S, NEW g \in Seq(S), NEW l \in Seq(S), NEW n \in 0..Len(g) + Len(l)
  PROVE  /\ n <= Len(g) => SubSeq(g \o l, 1, n) = SubSeq(g, 1, n)
         /\ n > Len(g) => /\ n - Len(g) \in 0..Len(l)
                          /\ SubSeq(g \o l, 1, n) = g \o SubSeq(l, 1, n - Len(g))
<1> DEFINE b == g \o l  N == Len(g)  L == Len(l)
<1>1. N \in Nat /\ L \in Nat /\ b \in Seq(S) /\ Len(b) = N + L /\ n \in 0..Len(b)
      /\ \A i \in 1..N + L : b[i] = IF i <= N THEN g[i] ELSE l[i - N]
  BY ConcatProperties
<1>2. SubSeq(b, 1, n) \in Seq(S) /\ Len(SubSeq(b, 1, n)) = n
      /\ \A i \in 1..n : SubSeq(b, 1, n)[i] = b[i]
  BY <1>1, Prefix
<1> HIDE DEF b
<1>3. ASSUME n <= N PROVE SubSeq(b, 1, n) = SubSeq(g, 1, n)
  <2>1. n \in 0..Len(g)
    BY <1>1, <1>3
  <2>2. SubSeq(g, 1, n) \in Seq(S) /\ Len(SubSeq(g, 1, n)) = n
        /\ \A i \in 1..n : SubSeq(g, 1, n)[i] = g[i]
    BY <2>1, Prefix
  <2>3. \A i \in 1..n : b[i] = g[i]
    <3>1. \A i \in 1..n : i \in 1..N + L /\ i <= N
      BY <1>1, <1>3
    <3> QED BY <1>1, <3>1
  <2>4. \A i \in 1..n : SubSeq(b, 1, n)[i] = SubSeq(g, 1, n)[i]
    BY <1>2, <2>2, <2>3
  <2> QED BY <1>2, <2>2, <2>4, SeqEqual
<1>4. ASSUME n > N
      PROVE  n - N \in 0..L /\ SubSeq(b, 1, n) = g \o SubSeq(l, 1, n - N)
  <2> DEFINE k == n - N  t == SubSeq(l, 1, k)  c == g \o t
  <2>1. k \in 0..L /\ n = N + k
    BY <1>1, <1>4
  <2> HIDE DEF k
  <2>2. t \in Seq(S) /\ Len(t) = k /\ \A i \in 1..k : t[i] = l[i]
    BY <2>1, Prefix
  <2> HIDE DEF t, N
  <2>3. c \in Seq(S) /\ Len(c) = N + k
        /\ \A i \in 1..N + k : c[i] = IF i <= N THEN g[i] ELSE t[i - N]
    <3>1. c \in Seq(S) /\ Len(c) = Len(g) + Len(t)
          /\ \A i \in 1..Len(g) + Len(t) : c[i] = IF i <= Len(g) THEN g[i] ELSE t[i - Len(g)]
      BY <2>2, ConcatProperties
    <3> QED BY <2>2, <3>1 DEF N
  <2> HIDE DEF c
  <2>4. ASSUME NEW i \in 1..n PROVE SubSeq(b, 1, n)[i] = c[i]
    <3>1. i \in 1..N + L /\ i \in 1..N + k
      BY <1>1, <2>1
    <3>2. CASE i <= N
      BY <1>1, <1>2, <2>3, <3>1, <3>2
    <3>3. CASE ~(i <= N)
      <4>1. i - N \in 1..k
        BY <1>1, <2>1, <3>3
      <4> QED BY <1>1, <1>2, <2>2, <2>3, <3>1, <3>3, <4>1
    <3> QED BY <3>2, <3>3
  <2>5. SubSeq(b, 1, n) = c
    BY <1>2, <2>1, <2>3, <2>4, SeqEqual
  <2> QED BY <2>1, <2>5 DEF k, t, c
<1> QED BY <1>3, <1>4 DEF b, N

-----------------------------------------------------------------------------
\* The users of D, each with their credential of d, ...
Whole(D, d) == {<<u, d[u]>> : u \in D}

\* ... and some of them, the credential of one more being cut.
Part(P, D, d) ==
  \E E \in SUBSET D :
    \/ P = Whole(E, d)
    \/ \E v \in D \ E : \E m \in 0..Len(d[v]) :
         P = Whole(E, d) \union {<<v, SubSeq(d[v], 1, m)>>}

\* A file of whole lines that are those of the users of D.
Lines(g, D, d) ==
  /\ g \in Seq(Units)
  /\ g = <<>> \/ g[Len(g)] = Newline
  /\ Said(g) = Whole(D, d)
  /\ \A n \in 0..Len(g) : Part(Said(SubSeq(g, 1, n)), D, d)

\* An empty file, and a file with one more line.
LEMMA NoLines ==
  ASSUME NEW d PROVE Lines(<<>>, {}, d)
<1>1. <<>> \in Seq(Units) /\ Len(<<>>) = 0 /\ Whole({}, d) = {}
  BY DEF Whole
<1>2. Said(<<>>) = {}
  <2>1. \A i \in 1..Len(<<>>) : <<>>[i] # Colon
    BY <1>1
  <2> QED BY <1>1, <2>1, SaidNothing
<1>3. SubSeq(<<>>, 1, 0) = <<>>
  BY <1>1, SubSeqEmpty
<1>4. \A n \in 0..0 : n = 0
  OBVIOUS
<1>5. Part({}, {}, d)
  BY <1>1 DEF Part
<1> QED BY <1>1, <1>2, <1>3, <1>4, <1>5 DEF Lines

LEMMA OneLineMore ==
  ASSUME NEW g, NEW D, NEW d, Lines(g, D, d),
         NEW u \in Users \ D, d[u] \in Credentials
  PROVE  Lines(g \o Line(u, d[u]), D \union {u}, d)
<1> DEFINE l == Line(u, d[u])  b == g \o l  F == D \union {u}
<1>1. g \in Seq(Units) /\ (g = <<>> \/ g[Len(g)] = Newline) /\ Said(g) = Whole(D, d)
      /\ \A n \in 0..Len(g) : Part(Said(SubSeq(g, 1, n)), D, d)
  BY DEF Lines
<1>2. l \in Seq(Units) /\ Len(l) \in Nat /\ Len(l) > 0 /\ l[Len(l)] = Newline
  BY LineFacts
<1>3. /\ Said(l) = {<<u, d[u]>>}
      /\ \A n \in 0..Len(l) :
           \/ Said(SubSeq(l, 1, n)) = {}
           \/ \E m \in 0..Len(d[u]) : Said(SubSeq(l, 1, n)) = {<<u, SubSeq(d[u], 1, m)>>}
  BY LineSays
<1>4. Whole(F, d) = Whole(D, d) \union {<<u, d[u]>>}
  BY DEF Whole
<1> HIDE DEF l
<1>5. b \in Seq(Units) /\ Len(b) = Len(g) + Len(l) /\ b[Len(b)] = Newline
  <2>1. b \in Seq(Units) /\ Len(b) = Len(g) + Len(l)
        /\ \A i \in 1..Len(g) + Len(l) : b[i] = IF i <= Len(g) THEN g[i] ELSE l[i - Len(g)]
    BY <1>1, <1>2, ConcatProperties
  <2>2. Len(g) + Len(l) \in 1..Len(g) + Len(l) /\ ~(Len(g) + Len(l) <= Len(g))
        /\ (Len(g) + Len(l)) - Len(g) = Len(l)
    BY <1>1, <1>2
  <2> HIDE DEF b
  <2> QED BY <1>2, <2>1, <2>2
<1>6. Said(b) = Whole(F, d)
  BY <1>1, <1>2, <1>3, <1>4, SaidJoined
<1>7. ASSUME NEW n \in 0..Len(b) PROVE Part(Said(SubSeq(b, 1, n)), F, d)
  <2>0. n \in Nat /\ Len(g) \in Nat /\ n \in 0..Len(g) + Len(l)
    BY <1>1, <1>5
  <2>1. CASE n <= Len(g)
    <3>1. SubSeq(b, 1, n) = SubSeq(g, 1, n) /\ n \in 0..Len(g)
      BY <1>1, <1>2, <2>0, <2>1, PrefixOfTwo
    <3>2. Part(Said(SubSeq(g, 1, n)), D, d)
      BY <1>1, <3>1
    <3> QED BY <3>1, <3>2 DEF Part
  <2>2. CASE n > Len(g)
    <3> DEFINE k == n - Len(g)
    <3>1. k \in 0..Len(l) /\ SubSeq(b, 1, n) = g \o SubSeq(l, 1, k)
      BY <1>1, <1>2, <2>0, <2>2, PrefixOfTwo
    <3> HIDE DEF k
    <3>2. SubSeq(l, 1, k) \in Seq(Units)
      BY <1>2, <3>1, Prefix
    <3>3. Said(SubSeq(b, 1, n)) = Whole(D, d) \union Said(SubSeq(l, 1, k))
      BY <1>1, <3>1, <3>2, SaidJoined
    <3>4. CASE Said(SubSeq(l, 1, k)) = {}
      BY <3>3, <3>4 DEF Part
    <3>5. CASE \E m \in 0..Len(d[u]) : Said(SubSeq(l, 1, k)) = {<<u, SubSeq(d[u], 1, m)>>}
      <4>1. D \in SUBSET F /\ u \in F \ D
        OBVIOUS
      <4> HIDE DEF F
      <4> QED BY <3>3, <3>5, <4>1 DEF Part
    <3> QED BY <1>3, <3>1, <3>4, <3>5
  <2> QED BY <2>0, <2>1, <2>2
<1> HIDE DEF b, F
<1>8. Lines(b, F, d)
  BY <1>5, <1>6, <1>7 DEF Lines
<1> QED BY <1>8 DEF b, l, F

\* A dict of users is a function from some names to credentials.
LEMMA DictFacts ==
  ASSUME NEW d
  PROVE  d \in Dicts <=>
           DOMAIN d \subseteq Users /\ d \in [DOMAIN d -> Credentials]
BY DEF Dicts

\* What is written of a dict is its lines.
LEMMA ContentIsLines ==
  ASSUME NEW d \in Dicts
  PROVE  Lines(Content(d), DOMAIN d, d)
<1> DEFINE N == Len(Names)
           p == [i \in 1..N |->
                   IF Names[i] \in DOMAIN d THEN Line(Names[i], d[Names[i]]) ELSE <<>>]
           Before(k) == {u \in DOMAIN d : \E i \in 1..k : Names[i] = u}
<1>1. N \in Nat /\ Names \in Seq(Users) /\ Users = {Names[i] : i \in 1..N}
      /\ \A i, j \in 1..N : Names[i] = Names[j] => i = j
  BY RegistryAssumption DEF IsInjective, Users, ToSet
<1>2. DOMAIN d \subseteq Users /\ \A u \in DOMAIN d : d[u] \in Credentials
  BY DictFacts
<1>3. Before(0) = {} /\ Before(N) = DOMAIN d
  <2>1. 1..0 = {}
    OBVIOUS
  <2> QED BY <1>1, <1>2, <2>1
<1>4. Content(d) = FlattenSeq(p)
  BY DEF Content
<1>5. \A i \in 1..N : p[i] \in Seq(Units)
  <2> SUFFICES ASSUME NEW i \in 1..N PROVE p[i] \in Seq(Units)
    OBVIOUS
  <2>1. CASE Names[i] \in DOMAIN d
    <3>1. Line(Names[i], d[Names[i]]) \in Seq(Units)
      BY <1>2, <2>1, LineFacts
    <3> QED BY <2>1, <3>1
  <2>2. CASE Names[i] \notin DOMAIN d
    <3>1. p[i] = <<>>
      BY <2>2
    <3>2. <<>> \in Seq(Units)
      OBVIOUS
    <3> HIDE DEF p
    <3> QED BY <3>1, <3>2
  <2> QED BY <2>1, <2>2
<1>6. p \in Seq(Seq(Units)) /\ Len(p) = N
  BY <1>1, <1>5
<1>7. ASSUME NEW g, NEW k \in 0..N, k # N, Lines(g, Before(k), d)
      PROVE  Lines(g \o p[k + 1], Before(k + 1), d)
  <2>1. k + 1 \in 1..N /\ k \in Nat /\ 1..k + 1 = (1..k) \union {k + 1} /\ k + 1 \notin 1..k
    BY <1>1, <1>7
  <2>2. CASE Names[k + 1] \in DOMAIN d
    <3> DEFINE u == Names[k + 1]
    <3>1. p[k + 1] = Line(u, d[u]) /\ d[u] \in Credentials /\ u \in Users
      BY <1>2, <2>1, <2>2
    <3>2. u \notin Before(k)
      <4>1. \A i \in 1..k : i \in 1..N /\ i # k + 1
        BY <1>1, <2>1
      <4> QED BY <1>1, <2>1, <4>1
    <3>3. Before(k + 1) = Before(k) \union {u}
      BY <2>1, <2>2
    <3> HIDE DEF u, p, Before
    <3>4. u \in Users \ Before(k)
      BY <3>1, <3>2
    <3>5. Lines(g \o Line(u, d[u]), Before(k) \union {u}, d)
      BY <1>7, <3>1, <3>4, OneLineMore
    <3> QED BY <3>1, <3>3, <3>5
  <2>3. CASE Names[k + 1] \notin DOMAIN d
    <3>1. p[k + 1] = <<>>
      BY <2>1, <2>3
    <3>2. Before(k + 1) = Before(k)
      BY <2>1, <2>3
    <3>3. g \in Seq(Units)
      BY <1>7 DEF Lines
    <3>4. g \o <<>> = g
      BY <3>3, ConcatEmptySeq
    <3> QED BY <1>7, <3>1, <3>2, <3>4
  <2> QED BY <2>2, <2>3
<1> HIDE DEF p, Before
<1>8. Lines(<<>>, Before(0), d)
  BY <1>3, NoLines
<1>9. CASE N = 0
  <2>1. p = <<>>
    BY <1>6, <1>9
  <2>2. FlattenSeq(<<>>) = <<>>
    <3>1. Len(<<>>) = 0 
      OBVIOUS
    <3> QED BY <3>1 DEF FlattenSeq
  <2> QED BY <1>3, <1>4, <1>8, <1>9, <2>1, <2>2
<1>10. CASE N # 0
  <2>1. N > 0
    BY <1>1, <1>10
  <2>2. PICK f : /\ f = [i \in 1..Len(p) |-> IF i = 1 THEN p[i] ELSE f[i-1] \o p[i]]
                 /\ FlattenSeq(p) = f[Len(p)]
    BY <1>6, <2>1, FlattenDefined
  <2>3. \A i \in 1..N : f[i] = IF i = 1 THEN p[i] ELSE f[i-1] \o p[i]
    <3>1. f = [i \in 1..N |-> IF i = 1 THEN p[i] ELSE f[i-1] \o p[i]]
      BY <1>6, <2>2
    <3> QED BY <3>1
  <2> DEFINE T == {k \in 0..N : k = 0 \/ Lines(f[k], Before(k), d)}
  <2>4. \A k : k \in T <=> k \in 0..N /\ (k = 0 \/ Lines(f[k], Before(k), d))
    OBVIOUS
  <2> HIDE DEF T
  <2>5. ASSUME NEW k \in 0..N, k \in T, k # N PROVE k + 1 \in T
    <3>1. k + 1 \in 1..N /\ k + 1 \in 0..N /\ (k + 1) - 1 = k
      BY <1>1, <2>5
    <3>2. CASE k = 0
      <4>1. Lines(<<>> \o p[k + 1], Before(k + 1), d)
        BY <1>7, <1>8, <2>5, <3>2
      <4>2. p[k + 1] \in Seq(Units)
        BY <1>6, <3>1
      <4>3. <<>> \o p[k + 1] = p[k + 1]
        BY <4>2, ConcatEmptySeq
      <4>4. f[k + 1] = p[k + 1]
        BY <2>3, <3>1, <3>2
      <4> QED BY <2>4, <3>1, <4>1, <4>3, <4>4
    <3>3. CASE k # 0
      <4>1. Lines(f[k], Before(k), d)
        BY <2>4, <2>5, <3>3
      <4>2. f[k + 1] = f[(k + 1) - 1] \o p[k + 1]
        <5>1. k + 1 # 1
          BY <2>5, <3>3
        <5> QED BY <2>3, <3>1, <5>1
      <4>3. f[k + 1] = f[k] \o p[k + 1]
        BY <3>1, <4>2
      <4>4. Lines(f[k] \o p[k + 1], Before(k + 1), d)
        BY <1>7, <2>5, <4>1
      <4> QED BY <2>4, <3>1, <4>3, <4>4
    <3> QED BY <3>2, <3>3
  <2>6. 0 \in T /\ N \in 0..N
    BY <1>1, <2>4
  <2>7. 0..N \subseteq T
    BY <1>1, <2>5, <2>6, Upwards
  <2>8. Lines(f[N], Before(N), d)
    BY <1>10, <2>4, <2>6, <2>7
  <2> QED BY <1>3, <1>4, <1>6, <2>2, <2>8
<1> QED BY <1>9, <1>10

\* What is read of a file is what its entries say.
LEMMA LoadedIsSaid ==
  ASSUME NEW txt \in Seq(Units)
  PROVE  /\ DOMAIN load_users(txt) = {p[1] : p \in Said(txt)}
         /\ \A u \in DOMAIN load_users(txt) : <<u, load_users(txt)[u]>> \in Said(txt)
<1> DEFINE E == Entries(txt)
<1>1. DOMAIN load_users(txt) = {Name(txt, m) : m \in E}
  BY DEF load_users
<1>2. Said(txt) = {<<Name(txt, m), Credential(txt, m)>> : m \in E}
  BY DEF Said
<1>3. {Name(txt, m) : m \in E} = {p[1] : p \in Said(txt)}
  <2>1. ASSUME NEW m \in E
        PROVE  <<Name(txt, m), Credential(txt, m)>>[1] = Name(txt, m)
    OBVIOUS
  <2>2. \A m \in E : <<Name(txt, m), Credential(txt, m)>> \in Said(txt)
    BY <1>2
  <2>3. \A p \in Said(txt) : \E m \in E : p[1] = Name(txt, m)
    BY <1>2, <2>1
  <2> HIDE DEF E
  <2> QED BY <2>1, <2>2, <2>3
<1>4. ASSUME NEW u \in {Name(txt, m) : m \in E}
      PROVE  \E m \in E : /\ Name(txt, m) = u
                          /\ \A k \in E : Name(txt, k) = u => k[1] <= m[1]
  <2> DEFINE M == {m \in E : Name(txt, m) = u}
             T == {Len(txt) - m[1] : m \in M}
  <2>1. \A m \in E : m[1] \in Int /\ m[1] <= Len(txt)
    BY EntriesAre DEF Entry
  <2>2. M # {} /\ M \subseteq E
    BY <1>4
  <2>3. T # {} /\ T \in SUBSET Nat
    BY <2>1, <2>2
  <2>4. (\A m \in M : Len(txt) - m[1] \in T) /\ \A t \in T : \E m \in M : t = Len(txt) - m[1]
    OBVIOUS
  <2> HIDE DEF T
  <2>5. PICK t \in T : \A k \in T : t <= k
    BY <2>3, Least
  <2>6. PICK m \in M : t = Len(txt) - m[1]
    BY <2>4
  <2>7. ASSUME NEW k \in M PROVE k[1] <= m[1]
    <3>1. Len(txt) - m[1] <= Len(txt) - k[1]
      BY <2>4, <2>5, <2>6
    <3>2. k[1] \in Int /\ m[1] \in Int /\ Len(txt) \in Int
      BY <2>1, <2>2
    <3> QED BY <3>1, <3>2
  <2> QED BY <2>7
<1>5. ASSUME NEW u \in DOMAIN load_users(txt)
      PROVE  <<u, load_users(txt)[u]>> \in Said(txt)
  <2> DEFINE Q(m) == /\ Name(txt, m) = u
                     /\ \A k \in Entries(txt) : Name(txt, k) = u => k[1] <= m[1]
             m == CHOOSE m \in Entries(txt) : Q(m)
  <2>1. m \in E /\ Name(txt, m) = u
    <3>1. \E x \in Entries(txt) : Q(x)
      BY <1>1, <1>4, <1>5
    <3> HIDE DEF Q
    <3>2. m \in Entries(txt) /\ Q(m)
      BY <3>1
    <3> QED BY <3>2 DEF Q
  <2>2. load_users(txt)[u] = Credential(txt, m)
    BY <1>1, <1>5 DEF load_users
  <2> HIDE DEF m
  <2> QED BY <1>2, <2>1, <2>2
<1> QED BY <1>1, <1>3, <1>5

\* What is read of a file that was cut anywhere, and of the whole.
LEMMA ReadBack ==
  ASSUME NEW d \in Dicts, NEW n \in 0..Len(Content(d))
  PROVE  /\ load_users(SubSeq(Content(d), 1, n)) \in Dicts
         /\ Torn(load_users(SubSeq(Content(d), 1, n)), d)
         /\ n = Len(Content(d)) => load_users(SubSeq(Content(d), 1, n)) = d
<1> DEFINE f == SubSeq(Content(d), 1, n)  r == load_users(f)  D == DOMAIN d
<1>1. Lines(Content(d), D, d)
  BY ContentIsLines
<1>2. Content(d) \in Seq(Units) /\ Said(Content(d)) = Whole(D, d) /\ Part(Said(f), D, d)
  BY <1>1 DEF Lines
<1>3. f \in Seq(Units)
  BY <1>2, Prefix
<1>4. DOMAIN r = {p[1] : p \in Said(f)} /\ \A u \in DOMAIN r : <<u, r[u]>> \in Said(f)
  BY <1>3, LoadedIsSaid
<1>5. D \subseteq Users /\ d \in [D -> Credentials]
  BY DictFacts
<1>6. r = [u \in DOMAIN r |-> r[u]]
  BY DEF load_users
<1> HIDE DEF f, r, D
\* What the cut file says of a user is what the dict has, or the start of it.
<1>7. \E v :
        /\ \A u \in DOMAIN r : /\ u \in D
                               /\ \/ r[u] = d[u]
                                  \/ u = v /\ \E m \in 0..Len(d[u]) : r[u] = SubSeq(d[u], 1, m)
  <2>1. PICK E \in SUBSET D :
          \/ Said(f) = Whole(E, d)
          \/ \E v \in D \ E : \E m \in 0..Len(d[v]) :
               Said(f) = Whole(E, d) \union {<<v, SubSeq(d[v], 1, m)>>}
    BY <1>2 DEF Part
  <2>2. \A u, x : <<u, x>> \in Whole(E, d) => u \in E /\ x = d[u]
    BY DEF Whole
  <2>3. CASE Said(f) = Whole(E, d)
    BY <1>4, <2>2, <2>3
  <2>4. CASE \E v \in D \ E : \E m \in 0..Len(d[v]) :
               Said(f) = Whole(E, d) \union {<<v, SubSeq(d[v], 1, m)>>}
    <3>0. PICK v \in D \ E : \E m \in 0..Len(d[v]) :
            Said(f) = Whole(E, d) \union {<<v, SubSeq(d[v], 1, m)>>}
      BY <2>4
    <3>1. PICK m \in 0..Len(d[v]) : Said(f) = Whole(E, d) \union {<<v, SubSeq(d[v], 1, m)>>}
      BY <3>0
    <3>2. ASSUME NEW u \in DOMAIN r
          PROVE  /\ u \in D
                 /\ \/ r[u] = d[u]
                    \/ u = v /\ \E k \in 0..Len(d[u]) : r[u] = SubSeq(d[u], 1, k)
      <4>1. <<u, r[u]>> \in Whole(E, d) \/ <<u, r[u]>> = <<v, SubSeq(d[v], 1, m)>>
        BY <1>4, <3>1
      <4>2. <<u, r[u]>> = <<v, SubSeq(d[v], 1, m)>> => u = v /\ r[u] = SubSeq(d[v], 1, m)
        OBVIOUS
      <4> QED BY <2>2, <3>1, <4>1, <4>2
    <3> QED BY <3>2
  <2> QED BY <2>1, <2>3, <2>4
<1>8. PICK v : \A u \in DOMAIN r :
         /\ u \in D
         /\ \/ r[u] = d[u]
            \/ u = v /\ \E m \in 0..Len(d[u]) : r[u] = SubSeq(d[u], 1, m)
  BY <1>7
<1>9. ASSUME NEW u \in DOMAIN r PROVE r[u] \in Credentials /\ IsPrefix(r[u], d[u])
  <2>1. d[u] \in Credentials /\ d[u] \in Seq(Units)
    BY <1>5, <1>8, CredentialFacts
  <2>2. \E m \in 0..Len(d[u]) : r[u] = SubSeq(d[u], 1, m)
    <3>1. SubSeq(d[u], 1, Len(d[u])) = d[u] /\ Len(d[u]) \in 0..Len(d[u])
      BY <2>1, SubSeqFull
    <3> QED BY <1>8, <3>1
  <2>3. PICK m \in 0..Len(d[u]) : r[u] = SubSeq(d[u], 1, m)
    BY <2>2
  <2>4. r[u] \in Credentials
    BY <2>1, <2>3, CredentialFacts
  <2>5. r[u] \in Seq(Units) /\ Len(r[u]) = m /\ m <= Len(d[u])
    BY <2>1, <2>3, Prefix
  <2>6. SubSeq(r[u], 1, Len(r[u])) = r[u]
    BY <2>5, SubSeqFull
  <2> QED BY <2>3, <2>4, <2>5, <2>6 DEF IsPrefix
<1>10. r \in Dicts
  <2>1. DOMAIN r \subseteq Users
    BY <1>5, <1>8
  <2>2. r \in [DOMAIN r -> Credentials]
    BY <1>6, <1>9
  <2> QED BY <2>1, <2>2, DictFacts
<1>11. Torn(r, d)
  BY <1>8, <1>9 DEF Torn, D
<1>12. ASSUME n = Len(Content(d)) PROVE r = d
  <2>1. f = Content(d)
    BY <1>2, <1>12, SubSeqFull DEF f
  <2>2. Said(f) = {<<u, d[u]>> : u \in D}
    BY <1>2, <2>1 DEF Whole
  <2>3. DOMAIN r = D
    <3>1. \A u : <<u, d[u]>>[1] = u
      OBVIOUS
    <3>2. \A u \in D : <<u, d[u]>> \in Said(f)
      BY <2>2
    <3>3. \A p \in Said(f) : p[1] \in D
      BY <2>2, <3>1
    <3> QED BY <1>4, <3>1, <3>2, <3>3
  <2>4. \A u \in D : r[u] = d[u]
    BY <1>4, <2>2, <2>3
  <2> QED BY <1>5, <1>6, <2>3, <2>4
<1> QED BY <1>10, <1>11, <1>12 DEF r, f

\* Writing the next part after the first gives the start of the whole.
LEMMA NextPart ==
  ASSUME NEW S, NEW s \in Seq(S), NEW w \in 0..Len(s), NEW n \in w..Len(s)
  PROVE  Overwrite(SubSeq(s, 1, w), w, SubSeq(s, w + 1, n)) = SubSeq(s, 1, n)
<1> DEFINE a == SubSeq(s, 1, w)  b == SubSeq(s, w + 1, n)  c == SubSeq(s, 1, n)
<1>1. w \in Nat /\ n \in Nat /\ w <= n /\ n \in 0..Len(s) /\ n <= Len(s)
  OBVIOUS
<1>2. a \in Seq(S) /\ Len(a) = w /\ \A i \in 1..w : a[i] = s[i]
  BY Prefix
<1>3. c \in Seq(S) /\ Len(c) = n /\ \A i \in 1..n : c[i] = s[i]
  BY <1>1, Prefix
<1>4. CASE w = n
  <2>1. b = <<>>
    BY <1>1, <1>4, SubSeqEmpty
  <2> QED BY <1>4, <2>1 DEF Overwrite
<1>5. CASE w # n
  <2>1. b \in Seq(S) /\ Len(b) = n - w /\ \A i \in 1..n - w : b[i] = s[w + i]
    <3>1. \A i \in w + 1..n : i \in 1..Len(s)
      BY <1>1
    <3>2. \A i \in w + 1..n : s[i] \in S
      BY <3>1
    <3>3. /\ b \in Seq(S)
          /\ Len(b) = IF w + 1 <= n THEN n - (w + 1) + 1 ELSE 0
          /\ \A i \in 1..n - (w + 1) + 1 : b[i] = s[(w + 1) + i - 1]
      BY <1>1, <3>2, SubSeqProperties
    <3>4. w + 1 <= n /\ n - (w + 1) + 1 = n - w /\ \A i \in 1..n - w : (w + 1) + i - 1 = w + i
      BY <1>1, <1>5
    <3> HIDE DEF b
    <3> QED BY <3>3, <3>4
  <2>2. b # <<>> /\ w + Len(b) = n /\ ~(Len(a) > w + Len(b))
    BY <1>1, <1>2, <1>5, <2>1
  <2> HIDE DEF a, b, c
  <2> DEFINE o == [i \in 1..n |-> IF i > w /\ i <= n THEN b[i - w]
                                  ELSE IF i <= Len(a) THEN a[i] ELSE Nul]
  <2>3. Overwrite(a, w, b) = o
    BY <2>2 DEF Overwrite
  <2>4. ASSUME NEW i \in 1..n PROVE o[i] = c[i]
    <3>1. CASE i > w
      <4>1. i - w \in 1..n - w /\ w + (i - w) = i /\ i <= n
        BY <1>1, <3>1
      <4>2. o[i] = b[i - w]
        BY <3>1, <4>1
      <4> HIDE DEF o
      <4> QED BY <1>3, <2>1, <4>1, <4>2
    <3>2. CASE ~(i > w)
      <4>1. i \in 1..w /\ i <= Len(a)
        BY <1>1, <1>2, <3>2
      <4>2. o[i] = a[i]
        BY <3>2, <4>1
      <4> HIDE DEF o
      <4> QED BY <1>2, <1>3, <4>1, <4>2
    <3> QED BY <3>1, <3>2
  <2>5. c = [i \in 1..n |-> c[i]]
    BY <1>3
  <2>6. o = [i \in 1..n |-> o[i]]
    OBVIOUS
  <2> HIDE DEF o
  <2>7. o = c
    BY <2>4, <2>5, <2>6
  <2> QED BY <2>3, <2>7 DEF a, b, c
<1> QED BY <1>4, <1>5

\* A command makes a dict of a dict.
LEMMA UpdatedIsDict ==
  ASSUME NEW d \in Dicts, NEW c \in Commands
  PROVE  Updated(c, d) \in Dicts
<1>1. DOMAIN d \subseteq Users /\ d \in [DOMAIN d -> Credentials]
  BY DictFacts
<1>2. \A t \in Plain : hash_password(t) \in Credentials
  BY DEF Credentials
<1>3. CASE c.name = "add"
  <2>1. c.user \in Users /\ c.password \in Passwords
    BY <1>3 DEF Commands
  <2>2. hash_password(c.password) \in Credentials
    BY <1>2, <2>1, TextFacts
  <2>3. Updated(c, d) = [u \in DOMAIN d \union {c.user} |->
                           IF u = c.user THEN hash_password(c.password) ELSE d[u]]
    BY <1>3 DEF Updated
  <2>4. Updated(c, d) \in [DOMAIN d \union {c.user} -> Credentials]
    BY <1>1, <2>2, <2>3
  <2> QED BY <1>1, <2>1, <2>4 DEF Dicts
<1>4. CASE c.name = "remove"
  <2>1. Updated(c, d) = [u \in DOMAIN d \ {c.user} |-> d[u]]
    BY <1>4 DEF Updated, Restrict
  <2>2. Updated(c, d) \in [DOMAIN d \ {c.user} -> Credentials]
    BY <1>1, <2>1
  <2> QED BY <1>1, <2>2 DEF Dicts
<1>5. CASE c.name = "migrate"
  <2>1. Updated(c, d) = [u \in DOMAIN d |->
                           IF Hashed(d[u]) THEN d[u] ELSE hash_password(d[u])]
    BY <1>5 DEF Updated
  <2>2. ASSUME NEW u \in DOMAIN d, ~Hashed(d[u]) PROVE d[u] \in Plain
    <3>1. d[u] \in Credentials
      BY <1>1
    <3>2. Hashed(<<Word, Salt>>)
      BY DEF Hashed
    <3>3. \A t : Hashed(hash_password(t))
      BY DEF Hashed, hash_password
    <3> QED BY <2>2, <3>1, <3>2, <3>3 DEF Credentials
  <2>3. Updated(c, d) \in [DOMAIN d -> Credentials]
    BY <1>1, <1>2, <2>1, <2>2
  <2> QED BY <1>1, <2>3 DEF Dicts
<1> QED BY <1>3, <1>4, <1>5 DEF Commands

\* What lets a client in: the password that a credential stands for.
LEMMA Verdict ==
  ASSUME NEW x \in Credentials, NEW p
  PROVE  verify_password(p, x) = "yes" <=>
           p = Given(x) /\ IF Hashed(x) THEN Given(x) # x ELSE ASCII(x)
<1>1. CASE x \in Plain
  <2>1. ~Hashed(x)
    <3>1. \A i \in 1..Len(x) : x[i] # Salt
      BY <1>1, UnitFacts DEF Plain
    <3>2. Len(x) \in Nat
      BY <1>1 DEF Plain
    <3> QED BY <3>1, <3>2 DEF Hashed
  <2>2. x # <<Word, Salt>> /\ x # hash_password(p)
    <3>1. Hashed(<<Word, Salt>>) /\ Hashed(hash_password(p))
      BY DEF Hashed, hash_password
    <3> QED BY <2>1, <3>1
  <2>3. Given(x) = x
    BY <2>1 DEF Given
  <2>4. verify_password(p, x) = "yes" <=> p = x /\ ASCII(x)
    <3>1. CASE ASCII(p) /\ ASCII(x) /\ p = x
      BY <2>1, <2>2, <3>1 DEF verify_password
    <3>2. CASE ASCII(p) /\ ASCII(x) /\ p # x
      <4>1. verify_password(p, x) = "no"
        BY <2>1, <2>2, <3>2 DEF verify_password
      <4> QED BY <3>2, <4>1
    <3>3. CASE ~(ASCII(p) /\ ASCII(x))
      <4>1. ~(ASCII(p) /\ p = x)
        BY <3>3
      <4>2. verify_password(p, x) = "raises"
        BY <2>1, <2>2, <3>3, <4>1 DEF verify_password
      <4> QED BY <4>1, <4>2
    <3> QED BY <3>1, <3>2, <3>3
  <2> QED BY <2>1, <2>3, <2>4
<1>2. CASE x = <<Word, Salt>>
  <2>1. Hashed(x) /\ Len(x) # 3 /\ x # hash_password(p)
    BY <1>2 DEF Hashed, hash_password
  <2>2. Given(x) = x
    BY <2>1 DEF Given
  <2>3. verify_password(p, x) = "raises"
    BY <1>2, <2>1 DEF verify_password
  <2> QED BY <2>1, <2>2, <2>3
<1>3. ASSUME NEW t \in Plain, x = hash_password(t)
      PROVE  verify_password(p, x) = "yes" <=>
               p = Given(x) /\ IF Hashed(x) THEN Given(x) # x ELSE ASCII(x)
  <2>1. x = <<Word, Salt, Digest(t)>>
    BY <1>3 DEF hash_password
  <2>2. Len(x) = 3 /\ Hashed(x) /\ x[2] = Salt /\ x[3] = Digest(t)
    BY <2>1 DEF Hashed
  <2>3. Given(x) = t
    BY <2>2, UnitFacts DEF Given
  <2>4. t # x
    <3>1. \A i \in 1..Len(t) : t[i] # Salt
      BY UnitFacts DEF Plain
    <3> QED BY <2>2, <3>1
  <2>5. x = hash_password(p) <=> p = t
    <3>1. hash_password(p)[3] = Digest(p)
      BY DEF hash_password
    <3>2. x = hash_password(p) => Digest(p) = Digest(t)
      BY <2>2, <3>1
    <3> QED BY <1>3, <3>2, UnitFacts
  <2>6. x # <<Word, Salt>>
    BY <2>2
  <2>7. CASE p = t
    <3>1. verify_password(p, x) = "yes"
      BY <2>2, <2>5, <2>6, <2>7 DEF verify_password
    <3> QED BY <2>2, <2>3, <2>4, <2>7, <3>1
  <2>8. CASE p # t
    <3>1. verify_password(p, x) = "no"
      BY <2>2, <2>5, <2>6, <2>8 DEF verify_password
    <3> QED BY <2>3, <2>8, <3>1
  <2> QED BY <2>7, <2>8
<1> QED BY <1>1, <1>2, <1>3 DEF Credentials

\* The logins that a dict lets in are those it stands for.
LEMMA LoginsAreUsable ==
  ASSUME NEW d \in Dicts
  PROVE  Logins(d) = Usable(d)
<1> DEFINE Good(x) == IF Hashed(x) THEN Given(x) # x ELSE ASCII(x)
           R == Passwords \union {Given(d[u]) : u \in DOMAIN d}
<1>1. \A u \in DOMAIN d : d[u] \in Credentials
  BY DictFacts
<1>2. \A u \in DOMAIN d : \A p :
        verify_password(p, d[u]) = "yes" <=> p = Given(d[u]) /\ Good(d[u])
  BY <1>1, Verdict
<1>3. Logins(d) = {l \in (DOMAIN d) \X R : verify_password(l[2], d[l[1]]) = "yes"}
  BY DEF Logins
<1>4. Usable(d) = {<<u, Given(d[u])>> : u \in {v \in DOMAIN d : Good(d[v])}}
  BY DEF Usable
<1> HIDE DEF Good
<1>5. ASSUME NEW l \in Logins(d) PROVE l \in Usable(d)
  <2>1. l \in (DOMAIN d) \X R /\ verify_password(l[2], d[l[1]]) = "yes"
    BY <1>3
  <2> HIDE DEF R
  <2>2. l[1] \in DOMAIN d /\ l = <<l[1], l[2]>>
    BY <2>1
  <2>3. l[2] = Given(d[l[1]]) /\ Good(d[l[1]])
    BY <1>2, <2>1, <2>2
  <2> QED BY <1>4, <2>2, <2>3
<1>6. ASSUME NEW l \in Usable(d) PROVE l \in Logins(d)
  <2>1. PICK u \in DOMAIN d : Good(d[u]) /\ l = <<u, Given(d[u])>>
    BY <1>4
  <2>2. l[1] = u /\ l[2] = Given(d[u]) /\ Given(d[u]) \in R
    BY <2>1
  <2>3. verify_password(l[2], d[l[1]]) = "yes"
    BY <1>2, <2>1, <2>2
  <2> HIDE DEF R
  <2>4. l \in (DOMAIN d) \X R
    BY <2>1, <2>2
  <2> QED BY <1>3, <2>3, <2>4
<1> QED BY <1>5, <1>6
-----------------------------------------------------------------------------
(* The registry, one command at a time *)

\* Commands run one after the other.
OneAtATime == \A a, b \in Admins : a = b

RegistryTypes ==
  /\ admin_pc \in [Admins -> {"idle", "loaded", "opened"}]
  /\ command \in [Admins -> Commands \union {NoCommand}]
  /\ users \in [Admins -> Dicts]
  /\ written \in [Admins -> Nat]
  /\ commands \in 0..MaxCommands
  /\ registry \in Dicts
  /\ whole \in BOOLEAN

\* A command holds what the registry will be; the file is the start of its
\* lines while it writes them, and says the registry when none does.
RegistryInv ==
  /\ RegistryTypes
  /\ \A a \in Admins :
       /\ admin_pc[a] = "idle" => users[a] = Nobody
       /\ admin_pc[a] # "idle" => /\ command[a] \in Commands
                                  /\ users[a] = Updated(command[a], registry)
       /\ written[a] <= Len(Content(users[a]))
       /\ admin_pc[a] # "opened" => written[a] = 0
       /\ admin_pc[a] = "opened" =>
            users_file = SubSeq(Content(users[a]), 1, written[a])
  /\ Opened = {} => load_users(users_file) = registry
  /\ OnlyGranted

\* What a whole dict is written as is read back.
LEMMA ContentFacts ==
  ASSUME NEW d \in Dicts
  PROVE  Content(d) \in Seq(Units) /\ Len(Content(d)) \in Nat
         /\ load_users(Content(d)) = d
<1> DEFINE C == Content(d)  f == SubSeq(C, 1, Len(C))
<1>1. C \in Seq(Units)
  BY ContentIsLines DEF Lines
<1>2. Len(C) \in 0..Len(C) /\ f = C
  BY <1>1, SubSeqFull
<1>3. load_users(f) = d
  BY <1>2, ReadBack
<1> HIDE DEF C, f
<1>4. Len(C) \in Nat /\ load_users(C) = d
  BY <1>1, <1>2, <1>3
<1> QED BY <1>1, <1>4 DEF C

LEMMA NobodyIsDict == Nobody \in Dicts
<1>1. DOMAIN Nobody = {} /\ Nobody = [u \in {} |-> u]
  BY DEF Nobody
<1>2. Nobody \in [{} -> Credentials]
  BY <1>1
<1> QED BY <1>2 DEF Dicts

\* Whether a command is at its file.
LEMMA OpenedIs ==
  ASSUME OneAtATime, NEW a \in Admins
  PROVE  /\ admin_pc[a] # "opened" => Opened = {} /\ Result = registry
         /\ admin_pc[a] = "opened" => Opened = {a} /\ Result = Updated(command[a], registry)
<1>1. \A b \in Admins : b = a
  BY DEF OneAtATime
<1>2. CASE admin_pc[a] # "opened"
  BY <1>1, <1>2 DEF Opened, Result
<1>3. CASE admin_pc[a] = "opened"
  <2>1. Opened = {a}
    BY <1>1, <1>3 DEF Opened
  <2>2. (CHOOSE b \in Opened : TRUE) = a
    BY <2>1
  <2> QED BY <2>1, <2>2, <1>3 DEF Result
<1> QED BY <1>2, <1>3

\* The inductive steps, an action at a time.
LEMMA RegistryInitInv == RegistryInit => RegistryInv
<1> SUFFICES ASSUME RegistryInit PROVE RegistryInv
  OBVIOUS
<1>1. FirstUsers \in Dicts
  <2>1. PICK D \in SUBSET Users : FirstUsers \in [D -> Passwords]
    BY RegistryAssumption
  <2>2. Passwords \subseteq Credentials
    BY TextFacts DEF Credentials
  <2>3. FirstUsers \in [D -> Credentials]
    BY <2>1, <2>2
  <2> QED BY <2>3 DEF Dicts
<1>2. users_file = Content(FirstUsers) /\ load_users(users_file) = registry
      /\ USERS = registry /\ registry = FirstUsers
  BY <1>1, ContentFacts DEF RegistryInit
<1>3. RegistryTypes
  BY <1>1, NobodyIsDict, RegistryAssumption DEF RegistryInit, RegistryTypes
<1>4. \A a \in Admins : 0 <= Len(Content(Nobody))
  BY NobodyIsDict, ContentFacts
<1>5. \A a \in Admins : admin_pc[a] = "idle" /\ users[a] = Nobody /\ written[a] = 0
  BY DEF RegistryInit
<1>6. OnlyGranted
  <2>1. whole /\ due = Usable(FirstUsers) /\ Logins(USERS) = Usable(FirstUsers)
    BY <1>1, <1>2, LoginsAreUsable DEF RegistryInit
  <2> QED BY <2>1 DEF OnlyGranted
<1> QED BY <1>2, <1>3, <1>4, <1>5, <1>6 DEF RegistryInv

\* What a proxy that starts lets in, if a command is at its file or if none is.
LEMMA TornGrants ==
  ASSUME NEW r \in Dicts, NEW d \in Dicts, Torn(r, d),
         NEW l \in Logins(r) \ Usable(d), NEW k \in Logins(r) \ Usable(d)
  PROVE  l[1] = k[1]
<1>1. ASSUME NEW m \in Logins(r) \ Usable(d)
      PROVE  m[1] \in DOMAIN r /\ r[m[1]] # d[m[1]]
  <2>1. m \in Usable(r)
    BY LoginsAreUsable
  <2>2. PICK u \in DOMAIN r : /\ m = <<u, Given(r[u])>>
                              /\ IF Hashed(r[u]) THEN Given(r[u]) # r[u] ELSE ASCII(r[u])
    BY <2>1 DEF Usable
  <2>3. u \in DOMAIN d
    BY DEF Torn
  <2>4. r[u] # d[u]
    <3> SUFFICES ASSUME r[u] = d[u] PROVE m \in Usable(d)
      OBVIOUS
    <3> QED BY <2>2, <2>3 DEF Usable
  <2>5. m[1] = u
    BY <2>2
  <2> QED BY <2>4, <2>5
<1> QED BY <1>1 DEF Torn

LEMMA StartStep == RegistryInv /\ OneAtATime /\ start => RegistryInv'
<1> SUFFICES ASSUME RegistryInv, OneAtATime, start PROVE RegistryInv'
  OBVIOUS
<1>1. /\ USERS' = load_users(users_file) /\ due' = Usable(Result) /\ whole' = (Opened = {})
      /\ UNCHANGED <<users_file, admin_pc, command, users, written, commands, registry>>
  BY DEF start, command_vars
<1>2. RegistryTypes'
  BY <1>1 DEF RegistryInv, RegistryTypes
<1>3. Opened' = Opened
  BY <1>1 DEF Opened
<1>4. OnlyGranted'
  <2>1. CASE Opened = {}
    <3>1. USERS' = registry /\ Result = registry /\ registry \in Dicts
      BY <1>1, <2>1 DEF RegistryInv, RegistryTypes, Result
    <3>2. Logins(USERS') = due'
      BY <1>1, <3>1, LoginsAreUsable
    <3> QED BY <1>1, <2>1, <3>2 DEF OnlyGranted, Logins
  <2>2. CASE Opened # {}
    <3>1. PICK a \in Admins : admin_pc[a] = "opened"
      BY <2>2 DEF Opened
    <3>2. /\ users[a] \in Dicts /\ users[a] = Result
          /\ written[a] \in 0..Len(Content(users[a]))
          /\ users_file = SubSeq(Content(users[a]), 1, written[a])
      <4>1. Result = Updated(command[a], registry)
        BY <3>1, OpenedIs
      <4>2. users[a] \in Dicts /\ written[a] \in Nat
        BY <3>1 DEF RegistryInv, RegistryTypes
      <4>3. Len(Content(users[a])) \in Nat
        BY <4>2, ContentFacts
      <4> QED BY <3>1, <4>1, <4>2, <4>3 DEF RegistryInv
    <3>3. USERS' \in Dicts /\ Torn(USERS', Result) /\ Result \in Dicts
      BY <1>1, <3>2, ReadBack
    <3>4. ASSUME NEW l \in Logins(USERS') \ due', NEW k \in Logins(USERS') \ due'
          PROVE  l[1] = k[1]
      BY <1>1, <3>3, <3>4, TornGrants
    <3> QED BY <1>1, <2>2, <3>4 DEF OnlyGranted, Logins
  <2> QED BY <2>1, <2>2
<1> QED BY <1>1, <1>2, <1>3, <1>4 DEF RegistryInv

LEMMA LoadStep ==
  RegistryInv /\ OneAtATime /\ (\E a \in Admins : load(a)) => RegistryInv'
<1> SUFFICES ASSUME RegistryInv, OneAtATime, NEW a \in Admins, load(a) PROVE RegistryInv'
  OBVIOUS
<1>1. \A b \in Admins : b = a
  BY DEF OneAtATime
<1>2. /\ admin_pc[a] = "idle" /\ commands < MaxCommands
      /\ admin_pc' = [admin_pc EXCEPT ![a] = "loaded"]
      /\ commands' = commands + 1
      /\ UNCHANGED <<users_file, written, registry, USERS, due, whole>>
  BY DEF load, proxy_vars
<1>3. Opened = {} /\ load_users(users_file) = registry /\ registry \in Dicts
  BY <1>2, OpenedIs DEF RegistryInv, RegistryTypes
<1>4. PICK c \in Commands : /\ command' = [command EXCEPT ![a] = c]
                            /\ users' = [users EXCEPT ![a] = Updated(c, registry)]
  BY <1>3 DEF load
<1>5. Updated(c, registry) \in Dicts
  BY <1>3, UpdatedIsDict
<1>6. Len(Content(Updated(c, registry))) \in Nat
  BY <1>5, ContentFacts
<1>7. RegistryTypes'
  BY <1>2, <1>4, <1>5, RegistryAssumption DEF RegistryInv, RegistryTypes
<1>8. admin_pc'[a] = "loaded" /\ command'[a] = c /\ users'[a] = Updated(c, registry)
      /\ written'[a] = 0
  BY <1>2, <1>4 DEF RegistryInv, RegistryTypes
<1>9. Opened' = {}
  BY <1>1, <1>8 DEF Opened
<1>10. OnlyGranted'
  BY <1>2 DEF RegistryInv, OnlyGranted, Logins
<1>11. Updated(c, registry)' = Updated(c, registry')
  BY <1>2 DEF Updated
<1> QED BY <1>1, <1>2, <1>3, <1>6, <1>7, <1>8, <1>9, <1>10 DEF RegistryInv

LEMMA SaveStep ==
  RegistryInv /\ OneAtATime /\ (\E a \in Admins : save(a)) => RegistryInv'
<1> SUFFICES ASSUME RegistryInv, OneAtATime, NEW a \in Admins, save(a) PROVE RegistryInv'
  OBVIOUS
<1>1. \A b \in Admins : b = a
  BY DEF OneAtATime
<1>2. /\ admin_pc[a] = "loaded" /\ admin_pc' = [admin_pc EXCEPT ![a] = "opened"]
      /\ users_file' = <<>>
      /\ UNCHANGED <<command, users, written, commands, registry, USERS, due, whole>>
  BY DEF save, proxy_vars
<1>3. RegistryTypes'
  BY <1>2 DEF RegistryInv, RegistryTypes
<1>4. admin_pc'[a] = "opened" /\ written[a] = 0 /\ Opened' = {a}
  BY <1>1, <1>2 DEF RegistryInv, RegistryTypes, Opened
<1>5. SubSeq(Content(users[a]), 1, 0) = <<>>
  <2>1. Content(users[a]) \in Seq(Units)
    BY ContentFacts DEF RegistryInv, RegistryTypes
  <2> QED BY <2>1, SubSeqEmpty
<1>6. OnlyGranted'
  BY <1>2 DEF RegistryInv, OnlyGranted, Logins
<1> QED BY <1>1, <1>2, <1>3, <1>4, <1>5, <1>6 DEF RegistryInv

\* What a command puts in the file up to a unit of its lines.
LEMMA PutIs ==
  ASSUME RegistryInv, NEW a \in Admins, admin_pc[a] = "opened",
         NEW n \in written[a]..Len(Content(users[a]))
  PROVE  Put(a, n) = SubSeq(Content(users[a]), 1, n)
<1>1. /\ users[a] \in Dicts /\ written[a] \in Nat
      /\ users_file = SubSeq(Content(users[a]), 1, written[a])
      /\ written[a] <= Len(Content(users[a]))
  BY DEF RegistryInv, RegistryTypes
<1>2. Content(users[a]) \in Seq(Units) /\ Len(Content(users[a])) \in Nat
  BY <1>1, ContentFacts
<1>3. written[a] \in 0..Len(Content(users[a]))
  BY <1>1, <1>2
<1> QED BY <1>1, <1>2, <1>3, NextPart DEF Put

LEMMA FlushStep ==
  RegistryInv /\ OneAtATime /\ (\E a \in Admins : flush(a)) => RegistryInv'
<1> SUFFICES ASSUME RegistryInv, OneAtATime, NEW a \in Admins, flush(a) PROVE RegistryInv'
  OBVIOUS
<1>1. \A b \in Admins : b = a
  BY DEF OneAtATime
<1>2. /\ admin_pc[a] = "opened"
      /\ UNCHANGED <<admin_pc, command, users, commands, registry, USERS, due, whole>>
  BY DEF flush, proxy_vars
<1>3. PICK n \in written[a] + 1..Len(Content(users[a])) :
        users_file' = Put(a, n) /\ written' = [written EXCEPT ![a] = n]
  BY DEF flush
<1>4. written[a] \in Nat /\ Len(Content(users[a])) \in Nat /\ users[a] \in Dicts
  BY ContentFacts DEF RegistryInv, RegistryTypes
<1>5. n \in written[a]..Len(Content(users[a])) /\ n \in Nat /\ n <= Len(Content(users[a]))
  BY <1>4
<1>6. users_file' = SubSeq(Content(users[a]), 1, n)
  BY <1>2, <1>3, <1>5, PutIs
<1>7. RegistryTypes'
  BY <1>2, <1>3, <1>5 DEF RegistryInv, RegistryTypes
<1>8. written'[a] = n
  BY <1>3 DEF RegistryInv, RegistryTypes
<1>9. Opened' = {a}
  BY <1>1, <1>2 DEF Opened
<1>10. OnlyGranted'
  BY <1>2 DEF RegistryInv, OnlyGranted, Logins
<1> QED BY <1>1, <1>2, <1>5, <1>6, <1>7, <1>8, <1>9, <1>10 DEF RegistryInv

\* A command ends: the registry is then what the file says.
LEMMA EndStep ==
  ASSUME RegistryInv, OneAtATime, NEW a \in Admins, Ends(a),
         registry' \in Dicts, load_users(users_file') = registry'
  PROVE  RegistryInv'
<1>1. \A b \in Admins : b = a
  BY DEF OneAtATime
<1>2. /\ admin_pc' = [admin_pc EXCEPT ![a] = "idle"]
      /\ command' = [command EXCEPT ![a] = NoCommand]
      /\ users' = [users EXCEPT ![a] = Nobody]
      /\ written' = [written EXCEPT ![a] = 0]
      /\ UNCHANGED <<commands, USERS, due, whole>>
  BY DEF Ends, proxy_vars
<1>3. RegistryTypes'
  BY <1>2, NobodyIsDict DEF RegistryInv, RegistryTypes
<1>4. admin_pc'[a] = "idle" /\ users'[a] = Nobody /\ written'[a] = 0
  BY <1>2 DEF RegistryInv, RegistryTypes
<1>5. 0 <= Len(Content(Nobody))
  BY NobodyIsDict, ContentFacts
<1>6. OnlyGranted'
  BY <1>2 DEF RegistryInv, OnlyGranted, Logins
<1>7. (load_users(users_file) = registry)'
  BY DEF load_users, Entries, Name, Credential
<1> QED BY <1>1, <1>3, <1>4, <1>5, <1>6, <1>7 DEF RegistryInv

LEMMA WriteStep ==
  RegistryInv /\ OneAtATime /\ (\E a \in Admins : write(a)) => RegistryInv'
<1> SUFFICES ASSUME RegistryInv, OneAtATime, NEW a \in Admins, write(a) PROVE RegistryInv'
  OBVIOUS
<1> DEFINE C == Content(users[a])
<1>1. admin_pc[a] = "opened" /\ users_file' = Put(a, Len(C)) /\ Ends(a)
      /\ registry' = Updated(command[a], registry)
  BY DEF write
<1>2. /\ users[a] \in Dicts /\ users[a] = registry'
      /\ written[a] \in Nat /\ written[a] <= Len(C)
  BY <1>1 DEF RegistryInv, RegistryTypes
<1>3. C \in Seq(Units) /\ Len(C) \in Nat /\ load_users(C) = users[a]
  BY <1>2, ContentFacts
<1>4. Len(C) \in written[a]..Len(C)
  BY <1>2, <1>3
<1>5. users_file' = SubSeq(C, 1, Len(C))
  BY <1>1, <1>4, PutIs
<1>6. users_file' = C
  BY <1>3, <1>5, SubSeqFull
<1> QED BY <1>1, <1>2, <1>3, <1>6, EndStep

LEMMA KillStep ==
  RegistryInv /\ OneAtATime /\ (\E a \in Admins : kill(a)) => RegistryInv'
<1> SUFFICES ASSUME RegistryInv, OneAtATime, NEW a \in Admins, kill(a) PROVE RegistryInv'
  OBVIOUS
<1>1. admin_pc[a] # "idle" /\ users_file' = users_file /\ Ends(a)
      /\ registry' = IF admin_pc[a] = "opened" THEN load_users(users_file) ELSE registry
  BY DEF kill
<1>2. CASE admin_pc[a] = "opened"
  <2>1. /\ users[a] \in Dicts /\ written[a] \in Nat /\ written[a] <= Len(Content(users[a]))
        /\ users_file = SubSeq(Content(users[a]), 1, written[a])
    BY <1>2 DEF RegistryInv, RegistryTypes
  <2>2. written[a] \in 0..Len(Content(users[a]))
    BY <2>1, ContentFacts
  <2>3. load_users(users_file) \in Dicts
    BY <2>1, <2>2, ReadBack
  <2> QED BY <1>1, <1>2, <2>3, EndStep
<1>3. CASE admin_pc[a] # "opened"
  <2>1. load_users(users_file) = registry /\ registry \in Dicts
    BY <1>3, OpenedIs DEF RegistryInv, RegistryTypes
  <2> QED BY <1>1, <1>3, <2>1, EndStep
<1> QED BY <1>2, <1>3

LEMMA RegistryStep == RegistryInv /\ OneAtATime /\ [RegistryNext]_registry_vars => RegistryInv'
<1> SUFFICES ASSUME RegistryInv, OneAtATime, [RegistryNext]_registry_vars PROVE RegistryInv'
  OBVIOUS
<1>1. CASE start
  BY <1>1, StartStep
<1>2. CASE \E a \in Admins : Command(a)
  BY <1>2, LoadStep, SaveStep, FlushStep, WriteStep, KillStep DEF Command
<1>3. CASE UNCHANGED registry_vars
  <2>1. UNCHANGED <<users_file, admin_pc, command, users, written, commands, registry,
                    USERS, due, whole>>
    BY <1>3 DEF registry_vars, command_vars, proxy_vars
  <2>2. RegistryTypes' /\ OnlyGranted' /\ Opened' = Opened
    BY <2>1 DEF RegistryInv, RegistryTypes, OnlyGranted, Logins, Opened
  <2> QED BY <2>1, <2>2 DEF RegistryInv
<1> QED BY <1>1, <1>2, <1>3 DEF RegistryNext

LEMMA SerialHolds == RegistryInv /\ OneAtATime => Serial
<1> SUFFICES ASSUME RegistryInv, OneAtATime, Opened # {}
             PROVE  Torn(load_users(users_file), Result)
  BY DEF Serial, RegistryInv
<1>1. PICK a \in Admins : admin_pc[a] = "opened"
  BY DEF Opened
<1>2. Result = users[a]
  BY <1>1, OpenedIs DEF RegistryInv
<1>3. /\ users[a] \in Dicts /\ written[a] \in Nat /\ written[a] <= Len(Content(users[a]))
      /\ users_file = SubSeq(Content(users[a]), 1, written[a])
  BY <1>1 DEF RegistryInv, RegistryTypes
<1>4. written[a] \in 0..Len(Content(users[a]))
  BY <1>3, ContentFacts
<1> QED BY <1>2, <1>3, <1>4, ReadBack

LEMMA RegistryTypesHold == RegistryInv => RegistryTypeOK
<1> SUFFICES ASSUME RegistryInv PROVE RegistryTypeOK
  OBVIOUS
<1>1. \A a \in Admins : users[a] \in Dicts /\ DOMAIN users[a] \subseteq Users
  BY DictFacts DEF RegistryInv, RegistryTypes
<1>2. \A a \in Admins : written[a] \in 0..Len(Content(users[a]))
  BY <1>1, ContentFacts DEF RegistryInv, RegistryTypes
<1> QED BY <1>1, <1>2 DEF RegistryInv, RegistryTypes, RegistryTypeOK

LEMMA AlwaysRegistryInv == RegistrySpec /\ OneAtATime => []RegistryInv
<1>1. OneAtATime /\ RegistryInv /\ [RegistryNext]_registry_vars => RegistryInv'
  BY RegistryStep
<1>2. OneAtATime => []OneAtATime
  OBVIOUS
<1> QED BY <1>1, <1>2, RegistryInitInv, PTL DEF RegistrySpec

\* With one command at a time, the file says between commands what those so far
\* have made of the registry.  While one is at its file, or was killed there, all
\* that the file says is the start of what it should, for all users, passwords
\* and buffers.
THEOREM CommandsAreSerial == Spec /\ OneAtATime => []Serial
<1>1. RegistryInv /\ OneAtATime => Serial
  BY SerialHolds
<1>2. OneAtATime => []OneAtATime
  OBVIOUS
<1> QED BY <1>1, <1>2, AccessImplementsRegistry, AlwaysRegistryInv, PTL

\* With one command at a time, the proxy lets in whom the registry had when it
\* started and nobody else, but for one user if a command was then at its file.
THEOREM NobodyElseIsLetIn == Spec /\ OneAtATime => []OnlyGranted
<1>1. RegistryInv => OnlyGranted
  BY DEF RegistryInv
<1> QED BY <1>1, AccessImplementsRegistry, AlwaysRegistryInv, PTL

\* Both type invariants, that of the registry for one command at a time.
THEOREM TypesAreCorrect == Spec /\ OneAtATime => []TypeOK
<1>1. RegistryTypeOK /\ FilterTypeOK => TypeOK
  BY DEF TypeOK
<1> QED BY <1>1, RegistryTypesHold, AccessImplementsRegistry, AlwaysRegistryInv,
           LockIsHeldByOne, PTL
=============================================================================
