------------------------------ MODULE Ingress ------------------------------
(***************************************************************************)
(* A request from the client's socket to the origin's: recv_http_request   *)
(* (Receiver), then parse_http_request and _build_outbound_request         *)
(* (Request) on the bytes that it returned.                                *)
(***************************************************************************)
EXTENDS Receiver, Sequences

CONSTANT Messages    \* the requests considered

VARIABLES
  message,      \* the request as the client sends it
  stage,        \* where handle_client stands
  body,         \* bytes after the header that it has
  parsed,       \* parse_http_request's dict
  outbound      \* what _build_outbound_request made

message_vars == <<message, stage, body, parsed, outbound>>
ingress_vars == <<vars, message_vars>>

R == INSTANCE Request WITH Clients <- Messages, client <- message, pc <- stage

ASSUME MessagesAssumption == \A m \in Messages : R!IsRequest(m)

\* A client that sends the message: the body follows a whole header.
IngressInit ==
  /\ R!Init
  /\ Init
  /\ client.length = R!extract_content_length
  /\ message.sent = IF client.header \in 1..client.sent THEN client.sent - client.header ELSE 0

reading == Next /\ UNCHANGED message_vars

\* handle_client: nothing was received.
nothing_received ==
  /\ stage = "receive" /\ pc = "done" /\ result = "empty"
  /\ stage' = "closed"
  /\ UNCHANGED <<vars, message, body, parsed, outbound>>

\* parse_http_request finds no terminator: 400.
no_header ==
  /\ stage = "receive" /\ pc = "done" /\ result = "incomplete"
  /\ stage' = "rejected"
  /\ UNCHANGED <<vars, message, body, parsed, outbound>>

\* raw.split(HEADER_TERMINATOR, 1)
received ==
  /\ pc = "done" /\ result = "request"
  /\ R!receive(data - client.header)
  /\ UNCHANGED vars

handling == R!Handle /\ UNCHANGED vars

IngressNext == reading \/ nothing_received \/ no_header \/ received \/ handling

IngressSpec == IngressInit /\ [][IngressNext]_ingress_vars

\* As in Receiver.
FairIngressSpec == IngressSpec /\ WF_ingress_vars(IngressNext)
-----------------------------------------------------------------------------
(* Properties *)

\* An origin that goes by the Host line arrives where the proxy connected to
\* (see Request); the parsed request has a destination and its parts their types.
HostNamesDestination == R!TypeOK /\ R!HostNamesDestination

\* The origin sees no hop-by-hop header of the client's and one line of every
\* other, two where the builder adds its own (see Request).
HeadersPass == R!HeadersPass

\* The reader goes by the first Content-Length line, the parser and the builder
\* by the last; whatever the two say, however TCP cut the request, and unless
\* the client's connection failed: the origin is announced what the last says
\* and is sent at least what the first says and no more than the client did, so
\* that where the two lines agree a client that keeps to them has its body
\* framed.  Where they disagree the origin is sent what one line says and
\* announced what the other does.
BodyFramed ==
  stage = "sent" /\ ~cut =>
    LET first == R!Positive(R!extract_content_length)
        last  == R!Positive(R!content_length)
    IN  /\ R!Announced = last
        /\ first > 0 /\ last > 0 => outbound.body \in first..message.sent
        /\ first = last /\ message.sent = first => outbound.body = R!Announced

\* The strengthening that makes them inductive: the client's three lengths go
\* together, and what the parser was given is what the reader returned.
MessageInv ==
  /\ message \in Messages
  /\ client.length = R!extract_content_length
  /\ message.sent = IF client.header \in 1..client.sent THEN client.sent - client.header ELSE 0
  /\ stage \in {"parse", "build", "raised", "tunnel", "sent"} =>
       pc = "done" /\ result = "request" /\ body = data - client.header

\* The reader has kept to its limits, and each stage to what it was given.
IngressInv == IInv /\ MessageInv /\ R!TypeOK /\ R!Handled
=============================================================================
