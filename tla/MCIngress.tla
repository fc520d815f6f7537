----------------------------- MODULE MCIngress -----------------------------
(* Requests that vary in where they go, and requests that vary in what they *)
(* carry.                                                                    *)
EXTENDS Ingress

\* The names and ports that Request tells apart.
Q == INSTANCE Request WITH Clients <- {}, client <- message, pc <- stage

Nothing == [n \in Q!Names |-> <<>>]

Lines(n, values) == [Nothing EXCEPT ![n] = values]

HostHeaders ==
  {<<>>} \union
  {<<a>> : a \in [host : {"name", "bare", "bracketed", "empty"},
                  port : {Q!BadPort, Q!NoPort, 443, 8080}]}

Targets ==
  {[form |-> "absolute", scheme |-> s, host |-> h, port |-> p] :
     s \in {"http", "https"}, h \in {"name", "bracketed", "empty"},
     p \in {Q!BadPort, Q!NoPort, 80, 443, 8080}}
  \union
  {[form |-> "authority", host |-> h, port |-> p] :
     h \in {"name", "bare", "bracketed", "empty"}, p \in {Q!BadPort, Q!NoPort, 443}}
  \union
  {[form |-> "origin"], [form |-> "malformed"]}

Going ==
  {[method |-> m, target |-> t, lines |-> Lines("host", h), sent |-> 0] :
     m \in {"GET", "CONNECT"}, t \in Targets, h \in HostHeaders}

Lengths == {<<>>, <<NoLength>>, <<1>>, <<3>>, <<1, 3>>, <<3, 1>>}

Carrying ==
  {[method |-> m,
    target |-> [form |-> "absolute", scheme |-> "http", host |-> "name", port |-> 8080],
    lines  |-> [Nothing EXCEPT !["content-length"] = l,
                               !["transfer-encoding"] = e,
                               !["connection"] = c,
                               !["x-forwarded-for"] = x,
                               !["via"] = k,
                               !["cookie"] = k],
    sent   |-> s] :
     m \in {"GET", "POST"}, l \in Lengths, e \in {<<>>, <<"chunked">>},
     c \in {<<>>, <<"keep-alive">>}, k \in {<<>>, <<"a", "b">>}, s \in 0..4,
     x \in {<<>>, <<<<"first">>>>, <<<<"first">>, <<"second">>>>}}

MCMessages == Going \union Carrying
=============================================================================
