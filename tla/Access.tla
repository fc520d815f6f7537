------------------------------- MODULE Access -------------------------------
(***************************************************************************)
(* The two files an operator changes while the proxy runs, and the two     *)
(* checks of handle_client that rest on them: _check_auth goes by the      *)
(* users.txt of the last start (UserRegistry), is_blocked by the blocklist *)
(* of the last load (Filter).                                              *)
(***************************************************************************)
EXTENDS UserRegistry, Filter

CONSTANTS
  Requests,     \* [user, password, host]: what clients ask for
  MaxChanges    \* bound: edits, reloads and twice the commands

ASSUME RequestAssumption == \A q \in Requests : q.host \in Hosts

vars == <<registry_vars, filter_vars>>

Init == RegistryInit /\ FilterInit

Changes == 2 * commands + reloads + Len(contents) - 1

manage_users(a) ==
  /\ \/ load(a) /\ Changes + 2 <= MaxChanges
     \/ save(a) \/ flush(a) \/ write(a) \/ kill(a)
  /\ UNCHANGED filter_vars

edit_blocklist == Changes < MaxChanges /\ edit /\ UNCHANGED registry_vars

\* A request that passes _check_auth is judged by is_blocked; any other is
\* answered and forgotten.
handle_client(w) ==
  \/ /\ \E q \in Requests :
          <<q.user, q.password>> \in Logins(USERS) /\ ask(w, q.host)
     /\ UNCHANGED registry_vars
  \/ IsBlocked(w) /\ UNCHANGED registry_vars

reload(r) ==
  /\ \/ reload_blocklist(r) /\ Changes < MaxChanges
     \/ exists(r) \/ read(r) \/ read_error(r) \/ assign_domains(r) \/ assign_networks(r)
  /\ UNCHANGED registry_vars

\* The modules are imported: both files are read, and what ran is gone.
restart ==
  /\ start
  /\ import

Next ==
  \/ \E a \in Admins : manage_users(a)
  \/ edit_blocklist
  \/ \E w \in Workers : handle_client(w)
  \/ \E r \in Reloaders : reload(r)
  \/ restart

Spec == Init /\ [][Next]_vars

\* The type invariants of the two; that of Filter says who holds the lock.
TypeOK == RegistryTypeOK /\ FilterTypeOK
=============================================================================
