------------------------------ MODULE Receiver ------------------------------
(***************************************************************************)
(* src/parser.py: recv_http_request reads one request from a client        *)
(* socket, and parse_http_request answers None without a complete header.  *)
(*                                                                         *)
(* Bytes are counted, not looked at.  What a client sends is its header's  *)
(* length with the terminator (0 when it never sends one), the value of    *)
(* Content-Length and the bytes it sends in all; TCP may cut them          *)
(* anywhere, and every recv may time out or be reset.                      *)
(***************************************************************************)
EXTENDS Integers

CONSTANTS
  BUFFER_SIZE,
  MAX_HEADER_SIZE,
  MaxHeader,    \* bound: longest header sent
  MaxLength,    \* bound: largest Content-Length
  MaxSent       \* bound: most bytes sent

ASSUME ReceiverAssumption ==
  /\ BUFFER_SIZE \in Nat \ {0}
  /\ MAX_HEADER_SIZE \in Nat
  /\ MaxHeader \in Nat /\ MaxLength \in Nat /\ MaxSent \in Nat

VARIABLES
  client,       \* what this client sends
  pc,           \* where recv_http_request stands
  data,         \* len(data)
  remaining,    \* bytes of the body still to be read
  result,       \* what it returned
  header_read,  \* observer: len(data) when the header was complete
  cut           \* observer: a recv raised OSError or returned b""

vars == <<client, pc, data, remaining, result, header_read, cut>>

NoLength == -1    \* no Content-Length, or one that is not a number
Clients == [header : 0..MaxHeader, length : NoLength..MaxLength, sent : 0..MaxSent]
\* b"", bytes that parse_http_request answers None for, bytes with a header.
Results == {"none", "empty", "incomplete", "request"}
PCs == {"header", "body", "done"}

Init ==
  /\ client \in Clients
  /\ pc = "header"
  /\ data = 0
  /\ remaining = 0
  /\ result = "none"
  /\ header_read = 0
  /\ cut = FALSE

\* HEADER_TERMINATOR in data, for the first n bytes.
Terminated(n) == client.header > 0 /\ n >= client.header

\* The bytes one recv(limit) may return.
Chunks(limit) == {n \in 1..limit : data + n <= client.sent}

Return(r) == pc' = "done" /\ result' = r

-----------------------------------------------------------------------------
(* Phase 1: the header *)

\* Unlimited_too_long: the size of the header is not tested.
Unlimited_too_long(n) == FALSE

too_long(n) == n > MAX_HEADER_SIZE

\* More header bytes are needed and may be read.
Reading == pc = "header" /\ ~Terminated(data) /\ ~too_long(data)

recv_header ==
  /\ Reading
  /\ \E n \in Chunks(BUFFER_SIZE) : data' = data + n
  /\ UNCHANGED <<client, pc, remaining, result, header_read, cut>>

header_too_long ==
  /\ pc = "header" /\ ~Terminated(data) /\ too_long(data)
  /\ Return("empty")
  /\ UNCHANGED <<client, data, remaining, header_read, cut>>

\* recv raises OSError or returns b"" before the terminator.
header_cut ==
  /\ Reading
  /\ Return(IF data = 0 THEN "empty" ELSE "incomplete")
  /\ cut' = TRUE
  /\ UNCHANGED <<client, data, remaining, header_read>>

-----------------------------------------------------------------------------
(* Phase 2: the body *)

\* The bytes of the body that the header's last recv did not bring.
header_complete ==
  /\ pc = "header" /\ Terminated(data)
  /\ header_read' = data
  /\ IF client.length > 0 /\ client.length > data - client.header
     THEN /\ remaining' = client.length - (data - client.header)
          /\ pc' = "body"
          /\ UNCHANGED result
     ELSE Return("request") /\ UNCHANGED remaining
  /\ UNCHANGED <<client, data, cut>>

\* Greedy_body_limit: recv(BUFFER_SIZE), whatever remains.
Greedy_body_limit == BUFFER_SIZE

\* min(BUFFER_SIZE, remaining)
body_limit == IF BUFFER_SIZE < remaining THEN BUFFER_SIZE ELSE remaining

\* Single_recv_body: one recv for the body, not a loop.
Single_recv_body ==
  /\ pc = "body"
  /\ \E n \in Chunks(body_limit) :
       /\ data' = data + n
       /\ remaining' = remaining - n
       /\ Return("request")
  /\ UNCHANGED <<client, header_read, cut>>

recv_body ==
  /\ pc = "body"
  /\ \E n \in Chunks(body_limit) :
       /\ data' = data + n
       /\ remaining' = remaining - n
       /\ IF remaining - n > 0 THEN UNCHANGED <<pc, result>> ELSE Return("request")
  /\ UNCHANGED <<client, header_read, cut>>

\* Waiting_body_cut: an OSError is ignored and recv is called again.
Waiting_body_cut ==
  /\ pc = "body"
  /\ cut' = TRUE
  /\ UNCHANGED <<client, pc, data, remaining, result, header_read>>

\* recv raises OSError or returns b"" before the end of the body.
body_cut ==
  /\ pc = "body"
  /\ Return("request")
  /\ cut' = TRUE
  /\ UNCHANGED <<client, data, remaining, header_read>>

Next ==
  \/ recv_header \/ header_too_long \/ header_cut
  \/ header_complete
  \/ recv_body \/ body_cut

Spec == Init /\ [][Next]_vars

\* The worker keeps running, and a recv waits for 30 s at most.
FairSpec == Spec /\ WF_vars(Next)

-----------------------------------------------------------------------------
(* Properties *)

TypeOK ==
  /\ client \in Clients
  /\ pc \in PCs
  /\ data \in 0..client.sent
  /\ remaining \in 0..MaxLength
  /\ result \in Results
  /\ header_read \in 0..client.sent
  /\ cut \in BOOLEAN

\* No client makes the proxy hold more than the limit and one buffer before
\* its header is complete, and a header longer than that is never accepted.
HeaderBound ==
  /\ pc = "header" => data <= MAX_HEADER_SIZE + BUFFER_SIZE
  /\ result = "request" => client.header <= MAX_HEADER_SIZE + BUFFER_SIZE

\* What is returned as a request is its header and its whole body and nothing
\* more, however TCP cuts it, except for what the header's last recv brought
\* beyond the body and for a body that the client cut short.
BodyExact ==
  result = "request" /\ client.length > 0 =>
    LET whole == client.header + client.length
    IN  data = whole \/ (data > whole /\ data = header_read) \/ (data < whole /\ cut)

\* The strengthening that makes the two inductive: what is read and what
\* remains add up, and a header not yet complete is within the limit.
ReadInv ==
  /\ pc = "header" => data <= MAX_HEADER_SIZE + BUFFER_SIZE
  /\ pc = "header" => result = "none"
  /\ pc # "header" /\ result \in {"none", "request"} =>
       /\ client.header <= MAX_HEADER_SIZE + BUFFER_SIZE
       /\ client.header > 0 /\ client.header <= header_read /\ header_read <= data
  /\ pc = "body" =>
       /\ result = "none" /\ remaining > 0
       /\ client.length > 0 /\ data + remaining = client.header + client.length
  /\ pc = "done" => result # "none"

\* However the client's bytes are cut, the reader has kept to its two limits.
IInv == TypeOK /\ ReadInv /\ BodyExact

\* Whatever a client sends or does not send, its worker gets on: the header is
\* bounded by MAX_HEADER_SIZE, the body by Content-Length.
ReceiveEnds == <>(pc = "done")
=============================================================================
