------------------------------ MODULE MCAccess ------------------------------
(* Two users, one of them with a password that is not ASCII, both not yet   *)
(* migrated; lists that a mix of any two would tell apart.                   *)
EXTENDS Access

CONSTANTS a1, r1, r2

Text(x) == <<<<"char", x>>>>
Al == Text("a")
Bo == Text("b")
First_password == Text("p")
Second_password == Text("q")

MCNames == <<Al, Bo>>
MCPasswords == {First_password, Second_password}
MCNonASCII == {<<"char", "q">>}
MCFirstUsers == Al :> First_password @@ Bo :> Second_password

MCLower == [l \in {"Ads", "ads", "org", "shop", "192", "10", "1"} |-> IF l = "Ads" THEN "ads" ELSE l]

Domain(labels) == [labels |-> labels, network |-> {}]
Network(bits) == [labels |-> <<>>, network |-> {[version |-> 4, bits |-> bits]}]
Called(labels) == [labels |-> labels, address |-> {}]
Address(labels, bits) == [labels |-> labels, address |-> {[version |-> 4, bits |-> bits]}]

First == {Domain(<<"Ads", "org">>), Network(<<1>>)}
Second == {Domain(<<"shop">>), Network(<<0, 1, 1>>)}
MCVersions == {First, Second, Absent}

MCHosts ==
  {Called(<<"shop", "Ads", "org">>),
   Address(<<"192", "1">>, <<1, 0, 1>>), Address(<<"10", "1">>, <<0, 1, 1>>)}

MCRequests ==
  {[user |-> Al, password |-> First_password, host |-> h] : h \in MCHosts}
    \union {[user |-> Bo, password |-> First_password, host |-> h] : h \in MCHosts}

Symmetry == Permutations({r1, r2})
=============================================================================
