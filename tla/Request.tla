------------------------------ MODULE Request ------------------------------
(***************************************************************************)
(* What a client asks for and what the origin is sent: parse_http_request  *)
(* of src/parser.py and _build_outbound_request of src/forwarder.py, over  *)
(* what recv_http_request read of the body.  Ingress has the reading and   *)
(* the specification.                                                      *)
(*                                                                         *)
(* A header block is, for every name, the sequence of the values of its    *)
(* lines.  Bodies are counted.  A host is a class of names: an ordinary    *)
(* "name", an IPv6 literal "bare" or "bracketed", the "empty" name, or one *)
(* that a split in the wrong place has "mangled".                          *)
(***************************************************************************)
EXTENDS Integers, SequencesExt

CONSTANT Clients    \* the requests considered

NoPort == 0         \* an authority without a port
BadPort == -1       \* one whose port is not a number
NoLength == -1      \* a Content-Length that is not a positive number
Hosts == {"name", "bare", "bracketed", "empty", "mangled"}
Authorities == [host : Hosts, port : {BadPort, NoPort, 1, 80, 443, 8080}]
ClientAddress == "client"

\* Three of the nine names stand for all of them.
HOP_BY_HOP_HEADERS == {"connection", "proxy-authorization", "transfer-encoding"}
Names == HOP_BY_HOP_HEADERS
           \union {"host", "content-length", "x-forwarded-for", "via", "cookie"}

Forms == {"absolute", "authority", "origin", "malformed"}

\* Requests that this abstraction can tell apart.
IsRequest(m) ==
  /\ DOMAIN m.lines = Names
  /\ m.lines["host"] \in Seq(Authorities)
  /\ m.lines["content-length"] \in Seq(Int)
  /\ m.lines["x-forwarded-for"] \in Seq(Seq(STRING))
  /\ \A n \in HOP_BY_HOP_HEADERS \union {"via", "cookie"} : m.lines[n] \in Seq(STRING)
  /\ m.target.form \in Forms
  /\ m.target.form \in {"absolute", "authority"} =>
       [host |-> m.target.host, port |-> m.target.port] \in Authorities
  /\ m.sent \in Nat

VARIABLES
  client,     \* the request as the client sent it
  pc,         \* where handle_client stands
  body,       \* bytes after the header that recv_http_request returned
  parsed,     \* parse_http_request's dict
  outbound    \* what _build_outbound_request made

Outcomes == {"closed", "rejected", "raised", "tunnel", "sent"}
NoRequest == [method |-> "none"]

Init ==
  /\ client \in Clients
  /\ pc = "receive"
  /\ body = 0
  /\ parsed = NoRequest
  /\ outbound = NoRequest

-----------------------------------------------------------------------------
(* parse_http_request *)

\* _extract_content_length: the first line that has the name.
extract_content_length ==
  LET values == client.lines["content-length"]
  IN  IF values = <<>> THEN NoLength ELSE Head(values)

\* recv_http_request returns with n bytes of the body.
receive(n) ==
  /\ pc = "receive"
  /\ body' = n
  /\ pc' = "parse"
  /\ UNCHANGED <<client, parsed, outbound>>

\* headers: a later line replaces an earlier one.
headers ==
  [n \in {m \in Names : client.lines[m] # <<>>} |-> Last(client.lines[n])]

content_length ==
  IF "content-length" \in DOMAIN headers THEN headers["content-length"] ELSE NoLength

\* host, port = a.rsplit(":", 1); int(port): the result, or nothing when one of
\* the two raises ValueError.
Split(a) ==
  IF a.port > NoPort THEN {a}
  ELSE IF a.host = "bare" /\ a.port = NoPort THEN {[host |-> "mangled", port |-> 1]}
  ELSE {}

\* An authority taken as a name as it stands.
Unsplit(a) == [host |-> IF a.port = NoPort THEN a.host ELSE "mangled", port |-> 80]

\* The Host header: split when that gives a port, else a name as it stands.
HostHeader ==
  UNION {IF Split(headers[n]) # {} THEN Split(headers[n]) ELSE {Unsplit(headers[n])} :
           n \in {"host"} \intersect DOMAIN headers}

DefaultPort(scheme) == IF scheme = "https" THEN 443 ELSE 80

\* urlparse(target): hostname is without brackets.
FromURI(target) ==
  [host |-> IF target.host = "bracketed" THEN "bare" ELSE target.host,
   port |-> IF target.port = NoPort THEN DefaultPort(target.scheme) ELSE target.port]

\* The destination, in a set that is empty when there is none.
destination ==
  CASE client.method = "CONNECT" /\ client.target.form = "authority" ->
         Split(client.target)
    [] client.method # "CONNECT" /\ client.target.form = "absolute" ->
         {FromURI(client.target)}
    [] client.method # "CONNECT" /\ client.target.form # "absolute" ->
         HostHeader
    [] OTHER -> {}

Raises ==
  client.method # "CONNECT" /\ client.target.form = "absolute" /\ client.target.port = BadPort

Keep == UNCHANGED <<client, body, outbound>>

parse_raises ==
  /\ pc = "parse" /\ Raises
  /\ pc' = "raised"
  /\ UNCHANGED parsed /\ Keep

\* None: no request line, or no host.
parse_none ==
  /\ pc = "parse" /\ ~Raises
  /\ client.target.form = "malformed" \/ (\A d \in destination : d.host = "empty")
  /\ pc' = "rejected"
  /\ UNCHANGED parsed /\ Keep

parse ==
  /\ pc = "parse" /\ ~Raises
  /\ client.target.form # "malformed"
  /\ \E d \in destination :
       /\ d.host # "empty"
       /\ parsed' = [method |-> client.method, host |-> d.host, port |-> d.port,
                     headers |-> headers, content_length |-> content_length,
                     body |-> body]
  /\ pc' = IF client.method = "CONNECT" THEN "tunnel" ELSE "build"
  /\ Keep
-----------------------------------------------------------------------------
(* _build_outbound_request *)

\* Portless_HostLine: the Host line never has a port.
Portless_HostLine == [host |-> parsed.host, port |-> NoPort]

HostLine ==
  [host |-> parsed.host, port |-> IF parsed.port \in {80, 443} THEN NoPort ELSE parsed.port]

\* Unstripped_copied: the hop-by-hop headers are copied, too.
Unstripped_copied(n) ==
  IF n \in DOMAIN parsed.headers \ {"host"} THEN <<parsed.headers[n]>> ELSE <<>>

\* The line the loop over the headers copies.
copied(n) ==
  IF n \in DOMAIN parsed.headers \ (HOP_BY_HOP_HEADERS \union {"host"})
  THEN <<parsed.headers[n]>> ELSE <<>>

\* handle_client has set client_ip.
forwarded_for ==
  IF "x-forwarded-for" \in DOMAIN parsed.headers
  THEN Append(parsed.headers["x-forwarded-for"], ClientAddress) ELSE <<ClientAddress>>

\* The lines the builder adds of its own.
added(n) ==
  IF n = "host" THEN <<HostLine>>
  ELSE IF n = "connection" THEN <<"close">>
  ELSE IF n = "x-forwarded-for" THEN <<forwarded_for>>
  ELSE IF n = "via" THEN <<"proxy">>
  ELSE <<>>

\* Posted_body: only the methods that have one are sent with a body.
Posted_body == IF parsed.method \in {"POST", "PUT", "PATCH"} THEN parsed.body ELSE 0

forwarded_body ==
  IF parsed.method \in {"POST", "PUT", "PATCH"} \/ parsed.content_length > 0
  THEN parsed.body ELSE 0

build_outbound_request ==
  /\ pc = "build"
  /\ outbound' = [method |-> parsed.method,
                  lines |-> [n \in Names |-> copied(n) \o added(n)],
                  body |-> forwarded_body]
  /\ pc' = "sent"
  /\ UNCHANGED <<client, body, parsed>>

Handle ==
  \/ parse_raises \/ parse_none \/ parse
  \/ build_outbound_request

-----------------------------------------------------------------------------
(* Properties *)

TypeOK ==
  /\ pc \in {"receive", "parse", "build"} \union Outcomes
  /\ body \in 0..client.sent
  /\ pc \in {"build", "tunnel"} =>
       /\ [host |-> parsed.host, port |-> parsed.port] \in Authorities
       /\ parsed.host # "empty" /\ parsed.port > NoPort
  /\ pc = "sent" => outbound.body \in 0..body /\ DOMAIN outbound.lines = Names

\* The port an origin understands when the Host line has none.
ImpliedPort ==
  IF client.target.form = "absolute" THEN DefaultPort(client.target.scheme) ELSE 80

\* The Host line is one line and names what the proxy connects to, an IPv6
\* literal in its brackets and the implied port left out or not.
NamesDestination ==
  /\ Len(outbound.lines["host"]) = 1
  /\ LET h == outbound.lines["host"][1]
     IN  /\ h.host = (IF parsed.host = "bare" THEN "bracketed" ELSE parsed.host)
         /\ IF h.port = NoPort THEN parsed.port = ImpliedPort ELSE h.port = parsed.port

\* An origin that goes by the Host line arrives where the proxy connected to,
\* whatever the client's own Host header said, for names and all ports but
\* the two the builder takes for implied ones.
HostNamesDestination ==
  pc = "sent" /\ parsed.host = "name"
    /\ (parsed.port \in {80, 443} => parsed.port = ImpliedPort)
  => NamesDestination

\* What becomes of every header but Host: the origin sees no hop-by-hop line of
\* the client's; of any other name it sees one of the client's lines, however
\* many there were, and after it, for the two names that the builder has a line
\* of its own for, that line too.  Who reads the last X-Forwarded-For line
\* reads the client's chain and then its address, unless the chain came in
\* several lines.
HeadersPass ==
  pc = "sent" =>
    \A n \in Names \ {"host"} :
      LET from == client.lines[n]
          to   == outbound.lines[n]
          own  == IF n \in {"x-forwarded-for", "via"} THEN 1 ELSE 0
      IN  /\ n \in HOP_BY_HOP_HEADERS =>
               to = (IF n = "connection" THEN <<"close">> ELSE <<>>)
          /\ n \notin HOP_BY_HOP_HEADERS =>
               /\ Len(to) = (IF from = <<>> THEN 0 ELSE 1) + own
               /\ from # <<>> => Head(to) \in ToSet(from)
          /\ n = "via" => Last(to) = "proxy"
          /\ n = "x-forwarded-for" =>
               /\ from = <<>> => Last(to) = <<ClientAddress>>
               /\ Len(from) = 1 => Last(to) = Append(Head(from), ClientAddress)

\* A Content-Length that is not positive delimits no body.
Positive(length) == IF length > 0 THEN length ELSE 0

\* Bytes the origin expects after the header.
Announced ==
  IF outbound.lines["content-length"] = <<>> THEN 0
  ELSE Positive(Head(outbound.lines["content-length"]))

\* What each stage has made of the request: the strengthening that makes the
\* three inductive.
Handled ==
  /\ pc \in {"build", "tunnel", "sent"} =>
       /\ [host |-> parsed.host, port |-> parsed.port] \in Authorities
       /\ parsed.host # "empty" /\ parsed.port > NoPort
       /\ parsed.headers = headers
       /\ parsed.content_length = content_length
       /\ parsed.body = body
  /\ pc = "sent" =>
       /\ outbound.lines = [n \in Names |-> copied(n) \o added(n)]
       /\ outbound.body = forwarded_body
=============================================================================
