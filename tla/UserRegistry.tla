---------------------------- MODULE UserRegistry ----------------------------
(***************************************************************************)
(* Who may use the proxy: the commands of tools/manage_users.py read,      *)
(* change and rewrite config/users.txt, which handler.py reads once, when  *)
(* the proxy starts.  A command may be killed anywhere, its lines may      *)
(* reach the file in parts, and two commands may overlap.                  *)
(*                                                                         *)
(* users.txt is a sequence of units: the characters of names and of        *)
(* plaintext passwords, and the pieces of a hash.  Names have no blanks,   *)
(* ":" or "#"; the comment lines at the head of every file written are     *)
(* left out, and a missing file reads as an empty one.                     *)
(***************************************************************************)
EXTENDS Integers, SequencesExt

CONSTANTS
  Names,         \* the user names, sequences of characters, in their order
  Passwords,     \* sequences of characters
  NonASCII,      \* the characters that are not ASCII
  Admins,        \* the commands that may run at the same time
  FirstUsers,    \* what users.txt says to begin with
  Buffer,        \* units that are written to the file when it is closed
  MaxCommands    \* bound: commands that change the file

\* The units; a character is a pair <<"char", _>>.
Newline == <<"newline">>
Colon == <<"colon">>
Nul == <<"nul">>
Word == <<"word">>                     \* "pbkdf2"
Salt == <<"salt">>                     \* "$iterations$salt$"
Digest(text) == <<"digest", text>>

Users == ToSet(Names)
IsText(s) == s \in Seq(ToSet(s)) /\ \A x \in ToSet(s) : x[1] = "char"

ASSUME RegistryAssumption ==
  /\ Names \in Seq(Users) /\ IsInjective(Names)
  /\ \A s \in Users \union Passwords : IsText(s)
  /\ \E D \in SUBSET Users : FirstUsers \in [D -> Passwords]
  /\ Buffer \in Nat /\ MaxCommands \in Nat

Commands ==
  [name : {"add"}, user : Users, password : Passwords]
    \union [name : {"remove"}, user : Users] \union [name : {"migrate"}]

VARIABLES
  users_file,    \* users.txt
  admin_pc,      \* where each command stands
  command,       \* what it was asked to do
  users,         \* the dict it loaded and changed
  written,       \* units of it that have reached the file
  commands,      \* commands started
  USERS,         \* the proxy's, of its last start
  registry,      \* observer: what the commands make, one after the other
  due,           \* observer: the logins in force when the proxy started
  whole          \* observer: no command was at its file then

proxy_vars == <<USERS, due, whole>>
command_vars == <<admin_pc, command, users, written, commands>>
registry_vars == <<users_file, command_vars, registry, proxy_vars>>

-----------------------------------------------------------------------------
(* auth.py *)

hash_password(text) == <<Word, Salt, Digest(text)>>

\* stored.startswith("pbkdf2$")
Hashed(stored) == Len(stored) >= 2 /\ stored[1] = Word /\ stored[2] = Salt

ASCII(text) == ToSet(text) \intersect NonASCII = {}

\* "raises": a derived key cannot be of length 0, and compare_digest takes no
\* str that is not ASCII.  A digest that is cut still knows its password and
\* is taken for the whole.
verify_password(plain, stored) ==
  CASE stored = hash_password(plain) -> "yes"
    [] stored = <<Word, Salt>> -> "raises"
    [] ~Hashed(stored) /\ ~(ASCII(plain) /\ ASCII(stored)) -> "raises"
    [] ~Hashed(stored) /\ ASCII(plain) /\ plain = stored -> "yes"
    [] OTHER -> "no"

\* The entries of a file: where its line begins, the line's first colon, and
\* where it ends, the last line with the file or not.
Entries(file) ==
  {m \in {i \in DOMAIN file : i = 1 \/ file[i - 1] = Newline}
           \X {c \in DOMAIN file : file[c] = Colon}
           \X {e \in 1..Len(file) + 1 : e = Len(file) + 1 \/ file[e] = Newline} :
     /\ m[1] <= m[2] /\ m[2] < m[3]
     /\ \A j \in m[1]..m[2] - 1 : file[j] # Colon
     /\ \A j \in m[1]..m[3] - 1 : file[j] # Newline}

Name(file, m) == SubSeq(file, m[1], m[2] - 1)
Credential(file, m) == SubSeq(file, m[2] + 1, m[3] - 1)

\* A later line replaces an earlier one of the same user.
load_users(file) ==
  [u \in {Name(file, m) : m \in Entries(file)} |->
     Credential(file, CHOOSE m \in Entries(file) :
       /\ Name(file, m) = u
       /\ \A k \in Entries(file) : Name(file, k) = u => k[1] <= m[1])]

\* The password that a credential stands for, if it stands for one at all.
Given(stored) ==
  IF Len(stored) = 3 /\ Hashed(stored) /\ stored[3][1] = "digest" THEN stored[3][2] ELSE stored

\* _check_auth: the logins that a dict of users lets in; whatever else a client
\* tries is no user's password.
Logins(dict) ==
  {l \in (DOMAIN dict) \X (Passwords \union {Given(dict[u]) : u \in DOMAIN dict}) :
     verify_password(l[2], dict[l[1]]) = "yes"}

\* The logins that a dict stands for: all but those of a hash that was cut, and
\* of a plaintext password that is not ASCII until it is migrated.
Usable(dict) ==
  {<<u, Given(dict[u])>> :
     u \in {v \in DOMAIN dict : IF Hashed(dict[v]) THEN Given(dict[v]) # dict[v]
                                ELSE ASCII(dict[v])}}

-----------------------------------------------------------------------------
(* manage_users.py *)

Line(u, credential) == u \o <<Colon>> \o credential \o <<Newline>>

\* The lines of a dict, sorted by name.
Content(dict) ==
  FlattenSeq([i \in 1..Len(Names) |->
    IF Names[i] \in DOMAIN dict THEN Line(Names[i], dict[Names[i]]) ELSE <<>>])

\* A file after some units were written at an offset, which may be beyond its
\* end.
Overwrite(file, at, units) ==
  IF units = <<>> THEN file
  ELSE [i \in 1..(IF Len(file) > at + Len(units) THEN Len(file) ELSE at + Len(units)) |->
          IF i > at /\ i <= at + Len(units) THEN units[i - at]
          ELSE IF i <= Len(file) THEN file[i] ELSE Nul]

\* What a command makes of a dict.
Updated(c, dict) ==
  CASE c.name = "add" -> [u \in DOMAIN dict \union {c.user} |->
                            IF u = c.user THEN hash_password(c.password) ELSE dict[u]]
    [] c.name = "remove" -> Restrict(dict, DOMAIN dict \ {c.user})
    [] OTHER -> [u \in DOMAIN dict |->
                   IF Hashed(dict[u]) THEN dict[u] ELSE hash_password(dict[u])]

\* remove exits when there is no such user, migrate saves when it has work.
Saves(c, dict) ==
  CASE c.name = "add" -> TRUE
    [] c.name = "remove" -> c.user \in DOMAIN dict
    [] OTHER -> \E u \in DOMAIN dict : ~Hashed(dict[u])

Opened == {a \in Admins : admin_pc[a] = "opened"}

\* The registry once the command that is at its file has ended.
Result ==
  IF Opened = {} THEN registry ELSE Updated(command[CHOOSE a \in Opened : TRUE], registry)

NoCommand == [name |-> "none"]
Nobody == <<>>

RegistryInit ==
  /\ users_file = Content(FirstUsers)
  /\ admin_pc = [a \in Admins |-> "idle"]
  /\ command = [a \in Admins |-> NoCommand]
  /\ users = [a \in Admins |-> Nobody]
  /\ written = [a \in Admins |-> 0]
  /\ commands = 0
  /\ USERS = load_users(users_file)
  /\ registry = FirstUsers
  /\ due = Usable(FirstUsers)
  /\ whole = TRUE

\* cmd_*: load_users, and the change made to the dict.  A bound: no command is
\* begun on a file in which overlapping ones have left other names.
load(a) ==
  /\ admin_pc[a] = "idle" /\ commands < MaxCommands
  /\ DOMAIN load_users(users_file) \subseteq Users
  /\ \E c \in Commands :
       /\ Saves(c, load_users(users_file))
       /\ command' = [command EXCEPT ![a] = c]
       /\ users' = [users EXCEPT ![a] = Updated(c, load_users(users_file))]
  /\ admin_pc' = [admin_pc EXCEPT ![a] = "loaded"]
  /\ commands' = commands + 1
  /\ UNCHANGED <<users_file, written, registry, proxy_vars>>

\* Untruncated_save: the file is opened without being truncated.
Untruncated_save(a) ==
  /\ admin_pc[a] = "loaded"
  /\ admin_pc' = [admin_pc EXCEPT ![a] = "opened"]
  /\ UNCHANGED <<users_file, command, users, written, commands, registry, proxy_vars>>

\* _save_users: open(USERS_FILE, "w").
save(a) ==
  /\ admin_pc[a] = "loaded"
  /\ admin_pc' = [admin_pc EXCEPT ![a] = "opened"]
  /\ users_file' = <<>>
  /\ UNCHANGED <<command, users, written, commands, registry, proxy_vars>>

\* The file after the command's units up to the n-th have been written, each
\* command at an offset of its own.
Put(a, n) == Overwrite(users_file, written[a], SubSeq(Content(users[a]), written[a] + 1, n))

\* More than the buffer holds reaches the file in parts, cut anywhere.
flush(a) ==
  /\ admin_pc[a] = "opened" /\ Len(Content(users[a])) > Buffer
  /\ \E n \in written[a] + 1..Len(Content(users[a])) :
       /\ users_file' = Put(a, n)
       /\ written' = [written EXCEPT ![a] = n]
  /\ UNCHANGED <<admin_pc, command, users, commands, registry, proxy_vars>>

\* The command has ended.
Ends(a) ==
  /\ admin_pc' = [admin_pc EXCEPT ![a] = "idle"]
  /\ command' = [command EXCEPT ![a] = NoCommand]
  /\ users' = [users EXCEPT ![a] = Nobody]
  /\ written' = [written EXCEPT ![a] = 0]
  /\ UNCHANGED <<commands, proxy_vars>>

\* The file is closed: the rest of the lines is written.
write(a) ==
  /\ admin_pc[a] = "opened"
  /\ users_file' = Put(a, Len(Content(users[a])))
  /\ registry' = Updated(command[a], registry)
  /\ Ends(a)

\* The command is killed, or fails, and the file stays as it is.
kill(a) ==
  /\ admin_pc[a] # "idle"
  /\ registry' = IF admin_pc[a] = "opened" THEN load_users(users_file) ELSE registry
  /\ Ends(a)
  /\ UNCHANGED users_file

\* Merging_start: the users of before stay in the dict.
Merging_start ==
  /\ USERS' = load_users(users_file) @@ USERS
  /\ due' = Usable(Result)
  /\ whole' = (Opened = {})
  /\ UNCHANGED <<users_file, command_vars, registry>>

\* The proxy starts, or starts again.
start ==
  /\ USERS' = load_users(users_file)
  /\ due' = Usable(Result)
  /\ whole' = (Opened = {})
  /\ UNCHANGED <<users_file, command_vars, registry>>

Command(a) == load(a) \/ save(a) \/ flush(a) \/ write(a) \/ kill(a)

RegistryNext == start \/ \E a \in Admins : Command(a)

RegistrySpec == RegistryInit /\ [][RegistryNext]_registry_vars
-----------------------------------------------------------------------------
(* Properties *)

RegistryTypeOK ==
  /\ admin_pc \in [Admins -> {"idle", "loaded", "opened"}]
  /\ command \in [Admins -> Commands \union {NoCommand}]
  /\ \A a \in Admins :
       /\ DOMAIN users[a] \subseteq Users
       /\ written[a] \in 0..Len(Content(users[a]))
       /\ admin_pc[a] # "opened" => written[a] = 0
  /\ commands \in 0..MaxCommands
  /\ whole \in BOOLEAN

\* The users of a dict are some of another's, with a credential each that
\* begins as it should; one of them at most is cut.
Torn(dict, full) ==
  /\ DOMAIN dict \subseteq DOMAIN full
  /\ \A u \in DOMAIN dict : IsPrefix(dict[u], full[u])
  /\ \A u, v \in DOMAIN dict : dict[u] # full[u] /\ dict[v] # full[v] => u = v

\* Commands run one after the other keep a registry: between commands the file
\* says what those so far have made of it, the credentials of all other users
\* included.  While one is at its file, wherever its lines are cut, there is
\* nobody in the file who should not be, and all but one of those who are have
\* the credentials that they should.  (This is of one command at a time: two
\* write over each other, and the end of a longer line may become a user.)
Serial ==
  IF Opened = {} THEN load_users(users_file) = registry
  ELSE Torn(load_users(users_file), Result)

\* The proxy lets in whom the registry had when it started, and nobody else; in
\* the middle of a command some of them, and perhaps one by what is left of a
\* credential.  (This, too, is of one command at a time; and whom the registry
\* has with a plaintext password beyond ASCII is not let in, see Usable.)
OnlyGranted ==
  IF whole THEN Logins(USERS) = due
  ELSE \A l, k \in Logins(USERS) \ due : l[1] = k[1]
=============================================================================
