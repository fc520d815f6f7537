------------------------------- MODULE Filter -------------------------------
(***************************************************************************)
(* src/filter.py: the blocklist.  Workers judge hosts by the two tables in *)
(* memory while others call reload_blocklist, which nothing in src/ does,  *)
(* and an editor replaces or removes the file.                             *)
(*                                                                         *)
(* A name is a sequence of labels, the top-level one last.  What           *)
(* ipaddress makes of a text is data of the entry or the host: a set with  *)
(* its network or address, given by its leading bits, or an empty set.     *)
(***************************************************************************)
EXTENDS Integers, SequencesExt, FiniteSets

CONSTANTS
  Workers,       \* threads that call is_blocked
  Reloaders,     \* threads that call reload_blocklist
  Lower,         \* str.lower, for the labels
  Hosts,         \* [labels, address]: the hosts asked for
  Versions,      \* contents of the file: sets of [labels, network], or Absent
  Absent,        \* no file
  FirstVersion,
  MaxEdits,      \* bound: changes of the file
  MaxReloads     \* bound: calls of reload_blocklist

Labels == DOMAIN Lower
Ranges == [version : {4, 6}, bits : Seq({0, 1})]

ASSUME FilterAssumption ==
  /\ Workers \intersect Reloaders = {}
  /\ Lower \in [Labels -> Labels] /\ \A l \in Labels : Lower[Lower[l]] = Lower[l]
  /\ Hosts \subseteq [labels : Seq(Labels), address : SUBSET Ranges]
  /\ \A v \in Versions \ {Absent} : \A e \in v :
       /\ e \in [labels : Seq(Labels), network : SUBSET Ranges]
       /\ e.network = {} => e.labels # <<>>
  /\ FirstVersion \in Versions /\ Absent \in Versions
  /\ MaxEdits \in Nat /\ MaxReloads \in Nat

VARIABLES
  contents,           \* the file's contents so far, the last is there now
  blocked_domains,    \* _blocked_domains
  blocked_networks,   \* _blocked_networks
  lock,               \* _lock: who holds it, in a set
  reloads,            \* calls of reload_blocklist
  reload_pc,          \* where each reload stands
  parsed_tables,      \* what _parse_blocklist returned to it
  read_at,            \* observer: the position in contents of what it parsed
  at,                 \* where each worker stands in is_blocked
  host,               \* what it was asked
  in_force,           \* observer: the position in contents of the list loaded last
  judged,             \* observer: the one in force when the worker took the lock
  since               \* observer: the one there was when the reload was called

tables == <<blocked_domains, blocked_networks>>
judging == <<at, host, judged>>
loading == <<reloads, reload_pc, parsed_tables, read_at, since>>
filter_vars == <<contents, tables, lock, in_force, judging, loading>>

file == Last(contents)
NoHost == [labels |-> <<>>, address |-> {}]

lower(labels) == [i \in DOMAIN labels |-> Lower[labels[i]]]

-----------------------------------------------------------------------------
(* Loading *)

\* _parse_blocklist: what is no network is a name; nothing without a file.
parse(version) ==
  LET entries == IF version = Absent THEN {} ELSE version
  IN  [domains  |-> {lower(e.labels) : e \in {d \in entries : d.network = {}}},
       networks |-> UNION {e.network : e \in entries}]

\* Unguarded_take(t): the lock is not taken.
Unguarded_take(t) == UNCHANGED lock

take(t) == lock = {} /\ lock' = {t}
release(t) == lock' = lock \ {t}

FilterInit ==
  /\ contents = <<FirstVersion>>
  /\ blocked_domains = parse(file).domains
  /\ blocked_networks = parse(file).networks
  /\ lock = {}
  /\ reloads = 0
  /\ reload_pc = [r \in Reloaders |-> "idle"]
  /\ parsed_tables = [r \in Reloaders |-> parse(Absent)]
  /\ read_at = [r \in Reloaders |-> 1]
  /\ since = [r \in Reloaders |-> 1]
  /\ at = [w \in Workers |-> "idle"]
  /\ host = [w \in Workers |-> NoHost]
  /\ judged = [w \in Workers |-> 1]
  /\ in_force = 1

\* The module is imported again; the file stays.
import ==
  /\ blocked_domains' = parse(file).domains
  /\ blocked_networks' = parse(file).networks
  /\ lock' = {}
  /\ reload_pc' = [r \in Reloaders |-> "idle"]
  /\ parsed_tables' = [r \in Reloaders |-> parse(Absent)]
  /\ read_at' = [r \in Reloaders |-> 1]
  /\ since' = [r \in Reloaders |-> 1]
  /\ at' = [w \in Workers |-> "idle"]
  /\ host' = [w \in Workers |-> NoHost]
  /\ judged' = [w \in Workers |-> 1]
  /\ in_force' = Len(contents)
  /\ UNCHANGED <<contents, reloads>>

\* reload_blocklist is called; it waits for the lock.
reload_blocklist(r) ==
  /\ reload_pc[r] \in {"idle", "loaded"} /\ reloads < MaxReloads
  /\ reloads' = reloads + 1
  /\ reload_pc' = [reload_pc EXCEPT ![r] = "waiting"]
  /\ since' = [since EXCEPT ![r] = Len(contents)]
  /\ UNCHANGED <<contents, tables, lock, in_force, judging, parsed_tables, read_at>>

parsed(r) ==
  /\ reload_pc' = [reload_pc EXCEPT ![r] = "parsed"]
  /\ parsed_tables' = [parsed_tables EXCEPT ![r] = parse(file)]
  /\ read_at' = [read_at EXCEPT ![r] = Len(contents)]

\* os.path.exists: without a file the tables become empty.
exists(r) ==
  /\ reload_pc[r] = "waiting"
  /\ take(r)
  /\ IF file = Absent
     THEN parsed(r)
     ELSE /\ reload_pc' = [reload_pc EXCEPT ![r] = "exists"]
          /\ UNCHANGED <<parsed_tables, read_at>>
  /\ UNCHANGED <<contents, tables, in_force, judging, since, reloads>>

\* The file is opened and read.
read(r) ==
  /\ reload_pc[r] = "exists" /\ file # Absent
  /\ parsed(r)
  /\ UNCHANGED <<contents, tables, lock, in_force, judging, since, reloads>>

\* Keeping_read_error: the lock is not released.
Keeping_read_error(r) ==
  /\ reload_pc[r] = "exists" /\ file = Absent
  /\ reload_pc' = [reload_pc EXCEPT ![r] = "idle"]
  /\ UNCHANGED <<contents, tables, lock, in_force, judging, parsed_tables, read_at, since, reloads>>

\* It has been removed meanwhile: FileNotFoundError reaches the caller, and the
\* tables stay.
read_error(r) ==
  /\ reload_pc[r] = "exists" /\ file = Absent
  /\ reload_pc' = [reload_pc EXCEPT ![r] = "idle"]
  /\ release(r)
  /\ UNCHANGED <<contents, tables, in_force, judging, parsed_tables, read_at, since, reloads>>

\* The two globals are assigned, one after the other.
assign_domains(r) ==
  /\ reload_pc[r] = "parsed"
  /\ blocked_domains' = parsed_tables[r].domains
  /\ in_force' = read_at[r]
  /\ reload_pc' = [reload_pc EXCEPT ![r] = "half"]
  /\ UNCHANGED <<contents, blocked_networks, lock, judging, parsed_tables, read_at, since, reloads>>

assign_networks(r) ==
  /\ reload_pc[r] = "half"
  /\ blocked_networks' = parsed_tables[r].networks
  /\ reload_pc' = [reload_pc EXCEPT ![r] = "loaded"]
  /\ release(r)
  /\ UNCHANGED <<contents, blocked_domains, in_force, judging, parsed_tables, read_at, since, reloads>>

-----------------------------------------------------------------------------
(* is_blocked *)

\* The name itself, or host.endswith("." + blocked).
domain_match(labels) ==
  \E d \in blocked_domains : IsSuffix(d, labels)

network_match(addresses) ==
  \E a \in addresses, n \in blocked_networks :
    a.version = n.version /\ IsPrefix(n.bits, a.bits)

\* is_blocked(h) is called; it waits for the lock.
ask(w, h) ==
  /\ at[w] \in {"idle", "blocked", "passed"}
  /\ host' = [host EXCEPT ![w] = [h EXCEPT !.labels = lower(h.labels)]]
  /\ at' = [at EXCEPT ![w] = "waiting"]
  /\ UNCHANGED <<contents, tables, lock, in_force, judged, loading>>

check_domains(w) ==
  /\ at[w] = "waiting"
  /\ judged' = [judged EXCEPT ![w] = in_force]
  /\ IF domain_match(host[w].labels)
     THEN at' = [at EXCEPT ![w] = "blocked"] /\ lock = {} /\ UNCHANGED lock
     ELSE at' = [at EXCEPT ![w] = "domains"] /\ take(w)
  /\ UNCHANGED <<contents, tables, in_force, host, loading>>

check_networks(w) ==
  /\ at[w] = "domains"
  /\ release(w)
  /\ at' = [at EXCEPT ![w] = IF network_match(host[w].address) THEN "blocked" ELSE "passed"]
  /\ UNCHANGED <<contents, tables, in_force, host, judged, loading>>

\* The editor replaces the file, or removes it.
edit ==
  /\ Len(contents) <= MaxEdits
  /\ \E v \in Versions \ {file} : contents' = Append(contents, v)
  /\ UNCHANGED <<tables, lock, in_force, judging, loading>>

Reload(r) ==
  \/ reload_blocklist(r) \/ exists(r) \/ read(r) \/ read_error(r)
  \/ assign_domains(r) \/ assign_networks(r)

IsBlocked(w) == check_domains(w) \/ check_networks(w)

FilterNext ==
  \/ edit \/ import
  \/ \E r \in Reloaders : Reload(r)
  \/ \E w \in Workers : IsBlocked(w) \/ \E h \in Hosts : ask(w, h)

FilterSpec == FilterInit /\ [][FilterNext]_filter_vars
-----------------------------------------------------------------------------
(* Properties *)

\* The entry covers the host: its name or a parent of it, whatever the case of
\* the letters, or a network that has its address.
Covers(e, h) ==
  \/ /\ e.network = {}
     /\ \E i \in 1..Len(h.labels) :
          lower(SubSeq(h.labels, i, Len(h.labels))) = lower(e.labels)
  \/ \E n \in e.network, a \in h.address :
       /\ a.version = n.version
       /\ \A i \in DOMAIN n.bits : i \in DOMAIN a.bits /\ a.bits[i] = n.bits[i]

Blocked(version, h) == version # Absent /\ \E e \in version : Covers(e, h)

\* Besides the types: one thread at most is between taking and releasing the
\* lock, and the lock is held by that one, whatever fails in between.
FilterTypeOK ==
  /\ contents \in Seq(Versions)
  /\ {blocked_domains} \union {parsed_tables[r].domains : r \in Reloaders}
       \subseteq {parse(v).domains : v \in Versions}
  /\ lock = {r \in Reloaders : reload_pc[r] \in {"exists", "parsed", "half"}}
                \union {w \in Workers : at[w] = "domains"}
  /\ reload_pc \in [Reloaders -> {"idle", "waiting", "exists", "parsed", "half", "loaded"}]
  /\ at \in [Workers -> {"idle", "waiting", "domains", "blocked", "passed"}]
  /\ Cardinality(lock) <= 1
  /\ {in_force} \union {judged[w] : w \in Workers} \subseteq DOMAIN contents

\* A verdict is what one content of the file says of the host, the one in force
\* when the worker took the lock: never that of two lists mixed, however
\* reloads, edits and removals fall between its two checks.
VerdictOfOneVersion ==
  \A w \in Workers :
    at[w] \in {"blocked", "passed"} =>
      (at[w] = "blocked") = Blocked(contents[judged[w]], host[w])

\* After a reload that returned, the list in force is the one that was there
\* when it was called or a later one: a reload that began earlier and ends
\* later does not bring an older list back.
ReloadTakesEffect ==
  \A r \in Reloaders : reload_pc[r] = "loaded" => in_force >= since[r]
=============================================================================
