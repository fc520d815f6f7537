---------------------------- MODULE IngressProofs ----------------------------
(***************************************************************************)
(* That recv_http_request keeps to its limits, for every buffer size and   *)
(* header limit and whatever a client sends, and that what it read is what *)
(* the origin is sent, for every set of requests: the Host line, the other *)
(* lines and the body.                                                     *)
(***************************************************************************)
EXTENDS Ingress, TLAPS

\* A request's lengths are numbers the prover can calculate with.
LEMMA ClientNumbers ==
  ASSUME TypeOK
  PROVE  /\ client.header \in Nat /\ client.sent \in Nat /\ client.length \in Int
         /\ client.length <= MaxLength
         /\ data \in Nat /\ data <= client.sent
         /\ remaining \in Nat /\ header_read \in Nat /\ header_read <= client.sent
<1>1. client.header \in 0..MaxHeader /\ client.length \in NoLength..MaxLength
      /\ client.sent \in 0..MaxSent
  BY DEF TypeOK, Clients
<1>2. NoLength \in Int
  BY DEF NoLength
<1> QED BY <1>1, <1>2, ReceiverAssumption DEF TypeOK

\* Nothing is read when recv_http_request starts.
LEMMA InitInvariant == Init => IInv
<1> SUFFICES ASSUME Init PROVE IInv
  OBVIOUS
<1>1. 0 \in 0..client.sent /\ 0 \in 0..MaxLength
  <2>1. client.sent \in 0..MaxSent
    BY DEF Init, Clients
  <2> QED BY <2>1, ReceiverAssumption
<1>2. TypeOK
  BY <1>1 DEF Init, TypeOK, PCs, Results
<1>3. ReadInv /\ BodyExact
  BY ReceiverAssumption DEF Init, ReadInv, BodyExact
<1> QED BY <1>2, <1>3 DEF IInv

\* Phase 1 never reads more than one buffer beyond the limit.
LEMMA HeaderStep ==
  ASSUME IInv, recv_header \/ header_too_long \/ header_cut
  PROVE  IInv'
<1> USE ClientNumbers, ReceiverAssumption DEF IInv
<1>1. CASE recv_header
  <2> USE <1>1 DEF recv_header, Reading, too_long, Chunks
  <2>1. TypeOK'
    BY DEF TypeOK
  <2>2. ReadInv'
    BY DEF ReadInv
  <2>3. BodyExact'
    BY DEF ReadInv, BodyExact
  <2> QED BY <2>1, <2>2, <2>3
<1>2. CASE header_too_long
  <2> USE <1>2 DEF header_too_long, Return
  <2>1. TypeOK'
    BY DEF TypeOK, PCs, Results
  <2>2. ReadInv' /\ BodyExact'
    BY DEF ReadInv, BodyExact
  <2> QED BY <2>1, <2>2
<1>3. CASE header_cut
  <2> USE <1>3 DEF header_cut, Return
  <2>1. TypeOK'
    BY DEF TypeOK, PCs, Results
  <2>2. ReadInv' /\ BodyExact'
    BY DEF ReadInv, BodyExact
  <2> QED BY <2>1, <2>2
<1> QED BY <1>1, <1>2, <1>3

\* At the end of the header, what was read and what remains add up.
LEMMA CompleteStep ==
  ASSUME IInv, header_complete
  PROVE  IInv'
<1> USE ClientNumbers, ReceiverAssumption DEF IInv, header_complete, Terminated
<1>1. CASE client.length > 0 /\ client.length > data - client.header
  <2>1. remaining' = client.length - (data - client.header) /\ pc' = "body"
        /\ result' = result
    BY <1>1
  <2>2. remaining' \in 0..MaxLength
    BY <1>1, <2>1
  <2>3. TypeOK'
    BY <2>1, <2>2 DEF TypeOK, PCs
  <2>4. ReadInv'
    BY <1>1, <2>1 DEF ReadInv
  <2>5. BodyExact'
    BY <2>1 DEF ReadInv, BodyExact
  <2> QED BY <2>3, <2>4, <2>5
<1>2. CASE ~(client.length > 0 /\ client.length > data - client.header)
  <2>1. remaining' = remaining /\ pc' = "done" /\ result' = "request"
    BY <1>2 DEF Return
  <2>2. TypeOK'
    BY <2>1 DEF TypeOK, PCs, Results
  <2>3. ReadInv'
    BY <2>1 DEF ReadInv
  <2>4. BodyExact'
    BY <1>2, <2>1 DEF BodyExact
  <2> QED BY <2>2, <2>3, <2>4
<1> QED BY <1>1, <1>2

\* Phase 2 reads no byte beyond the body.
LEMMA BodyStep ==
  ASSUME IInv, recv_body \/ body_cut
  PROVE  IInv'
<1> USE ClientNumbers, ReceiverAssumption DEF IInv
<1>1. CASE recv_body
  <2>1. PICK n \in Chunks(body_limit) :
          /\ data' = data + n
          /\ remaining' = remaining - n
          /\ IF remaining - n > 0 THEN UNCHANGED <<pc, result>> ELSE Return("request")
    BY <1>1 DEF recv_body
  <2>2. n \in Nat /\ n >= 1 /\ n <= remaining /\ data + n <= client.sent
    BY <2>1 DEF Chunks, body_limit
  <2>3. pc = "body" /\ UNCHANGED <<client, header_read, cut>>
    BY <1>1 DEF recv_body
  <2>4. data' \in 0..client.sent /\ remaining' \in 0..MaxLength
    BY <2>1, <2>2 DEF TypeOK
  <2>5. CASE remaining - n > 0
    <3>1. pc' = "body" /\ result' = result
      BY <2>1, <2>3, <2>5
    <3>2. TypeOK'
      BY <2>3, <2>4, <3>1 DEF TypeOK, PCs
    <3>3. ReadInv'
      BY <2>1, <2>2, <2>3, <2>5, <3>1 DEF ReadInv
    <3>4. BodyExact'
      BY <2>3, <3>1 DEF ReadInv, BodyExact
    <3> QED BY <3>2, <3>3, <3>4
  <2>6. CASE ~(remaining - n > 0)
    <3>1. pc' = "done" /\ result' = "request" /\ remaining' = 0 /\ n = remaining
      BY <2>1, <2>2, <2>6 DEF Return
    <3>2. TypeOK'
      BY <2>3, <2>4, <3>1 DEF TypeOK, PCs, Results
    <3>3. ReadInv'
      BY <2>1, <2>2, <2>3, <3>1 DEF ReadInv
    <3>4. BodyExact'
      BY <2>1, <2>3, <3>1 DEF ReadInv, BodyExact
    <3> QED BY <3>2, <3>3, <3>4
  <2> QED BY <2>5, <2>6
<1>2. CASE body_cut
  <2> USE <1>2 DEF body_cut, Return
  <2>1. TypeOK'
    BY DEF TypeOK, PCs, Results
  <2>2. ReadInv'
    BY DEF ReadInv
  <2>3. BodyExact'
    BY DEF ReadInv, BodyExact
  <2> QED BY <2>1, <2>2, <2>3
<1> QED BY <1>1, <1>2

\* The inductive invariant holds throughout.
THEOREM ReceiverInvariant == Spec => []IInv
<1>1. IInv /\ [Next]_vars => IInv'
  <2> SUFFICES ASSUME IInv, [Next]_vars PROVE IInv'
    OBVIOUS
  <2>1. CASE recv_header \/ header_too_long \/ header_cut
    BY <2>1, HeaderStep
  <2>2. CASE header_complete
    BY <2>2, CompleteStep
  <2>3. CASE recv_body \/ body_cut
    BY <2>3, BodyStep
  <2>4. CASE UNCHANGED vars
    BY <2>4 DEF vars, IInv, TypeOK, ReadInv, BodyExact
  <2> QED BY <2>1, <2>2, <2>3, <2>4 DEF Next
<1> QED BY InitInvariant, <1>1, PTL DEF Spec

\* What is read and what remains are within their bounds: the reader never
\* asks for more than the body still lacks.
THEOREM ReceiverTypeCorrect == Spec => []TypeOK
<1>1. IInv => TypeOK
  BY DEF IInv
<1> QED BY ReceiverInvariant, <1>1, PTL

\* No client makes the proxy hold more than MAX_HEADER_SIZE and one buffer of
\* an incomplete header, and no longer header is accepted.
THEOREM HeaderIsBounded == Spec => []HeaderBound
<1>1. IInv => HeaderBound
  BY DEF IInv, ReadInv, HeaderBound
<1> QED BY ReceiverInvariant, <1>1, PTL

\* A returned request is its header and its whole body, unless it was cut.
THEOREM BodyIsExact == Spec => []BodyExact
<1>1. IInv => BodyExact
  BY DEF IInv
<1> QED BY ReceiverInvariant, <1>1, PTL
-----------------------------------------------------------------------------
(* The request, through all stages *)

\* What a client may send is of the types the model tells apart.
LEMMA MessageFacts ==
  ASSUME MessageInv
  PROVE  /\ R!IsRequest(message)
         /\ DOMAIN message.lines = R!Names
         /\ message.lines["host"] \in Seq(R!Authorities)
         /\ message.lines["content-length"] \in Seq(Int)
         /\ message.sent \in Nat
<1>1. R!IsRequest(message)
  BY MessagesAssumption DEF MessageInv
<1> QED BY <1>1 DEF R!IsRequest

\* The dict has the last line of every name that has one.
LEMMA HeaderFacts ==
  ASSUME NEW n \in R!Names
  PROVE  /\ n \in DOMAIN R!headers <=> message.lines[n] # <<>>
         /\ n \in DOMAIN R!headers =>
              R!headers[n] = message.lines[n][Len(message.lines[n])]
BY DEF R!headers, R!Last

\* Where nothing happens to the request, what was made of it stands.
LEMMA MessageStands ==
  ASSUME UNCHANGED message_vars
  PROVE  /\ R!TypeOK' = R!TypeOK
         /\ R!Handled' = R!Handled
<1> USE DEF message_vars
<1>1. R!headers' = R!headers
  BY DEF R!headers
<1>2. R!content_length' = R!content_length
  BY <1>1 DEF R!content_length
<1>3. R!forwarded_body' = R!forwarded_body
  BY DEF R!forwarded_body
<1>4. \A n \in R!Names : R!copied(n)' = R!copied(n) /\ R!added(n)' = R!added(n)
  BY DEF R!copied, R!added, R!HostLine, R!forwarded_for
<1>5. [n \in R!Names |-> R!copied(n) \o R!added(n)]' = [n \in R!Names |-> R!copied(n) \o R!added(n)]
  BY <1>4
<1>6. R!Handled' = R!Handled
  BY <1>1, <1>2, <1>3, <1>5 DEF R!Handled
<1>7. R!TypeOK' = R!TypeOK
  BY DEF R!TypeOK
<1> QED BY <1>6, <1>7

\* A split that gives anything gives a name and a port; so does a name taken
\* as it stands.
LEMMA SplitFacts ==
  ASSUME NEW a, [host |-> a.host, port |-> a.port] \in R!Authorities
  PROVE  /\ \A d \in R!Split(a) :
              [host |-> d.host, port |-> d.port] \in R!Authorities /\ d.port > R!NoPort
         /\ [host |-> R!Unsplit(a).host, port |-> R!Unsplit(a).port] \in R!Authorities
         /\ R!Unsplit(a).port > R!NoPort
<1> USE DEF R!Authorities, R!Hosts, R!NoPort, R!BadPort
<1>1. a.host \in R!Hosts /\ a.port \in {R!BadPort, R!NoPort, 1, 80, 443, 8080}
  OBVIOUS
<1>2. ASSUME NEW d \in R!Split(a)
      PROVE  [host |-> d.host, port |-> d.port] \in R!Authorities /\ d.port > R!NoPort
  <2>1. CASE a.port > R!NoPort
    <3>1. d = a
      BY <1>2, <2>1 DEF R!Split
    <3> QED BY <1>1, <2>1, <3>1
  <2>2. CASE ~(a.port > R!NoPort)
    <3>1. d = [host |-> "mangled", port |-> 1]
      BY <1>2, <2>2 DEF R!Split
    <3> QED BY <3>1
  <2> QED BY <2>1, <2>2
<1>3. R!Unsplit(a).host \in R!Hosts /\ R!Unsplit(a).port = 80
  BY <1>1 DEF R!Unsplit
<1> QED BY <1>2, <1>3

\* parse_http_request finds a host of some class and a port to connect to.
LEMMA DestinationFacts ==
  ASSUME MessageInv, ~R!Raises, NEW d \in R!destination
  PROVE  [host |-> d.host, port |-> d.port] \in R!Authorities /\ d.port > R!NoPort
<1>1. R!IsRequest(message) /\ message.lines["host"] \in Seq(R!Authorities)
  BY MessageFacts
<1>2. message.target.form \in {"absolute", "authority"} =>
        [host |-> message.target.host, port |-> message.target.port] \in R!Authorities
  BY <1>1 DEF R!IsRequest
<1>3. CASE message.method = "CONNECT" /\ message.target.form = "authority"
  <2>1. d \in R!Split(message.target)
    BY <1>3 DEF R!destination
  <2> QED BY <1>2, <1>3, <2>1, SplitFacts
<1>4. CASE message.method # "CONNECT" /\ message.target.form = "absolute"
  <2>1. d = R!FromURI(message.target)
    BY <1>4 DEF R!destination
  <2>2. message.target.host \in R!Hosts
        /\ message.target.port \in {R!BadPort, R!NoPort, 1, 80, 443, 8080}
    BY <1>2, <1>4 DEF R!Authorities
  <2>3. message.target.port # R!BadPort
    BY <1>4 DEF R!Raises
  <2>4. d.host \in R!Hosts
    BY <2>1, <2>2 DEF R!FromURI, R!Hosts
  <2>5. d.port \in {1, 80, 443, 8080}
    BY <2>1, <2>2, <2>3 DEF R!FromURI, R!DefaultPort, R!NoPort, R!BadPort
  <2> QED BY <2>4, <2>5 DEF R!Authorities, R!NoPort
<1>5. CASE message.method # "CONNECT" /\ message.target.form # "absolute"
  <2>1. d \in R!HostHeader
    BY <1>5 DEF R!destination
  <2>2. "host" \in DOMAIN R!headers
        /\ (d \in R!Split(R!headers["host"]) \/ d = R!Unsplit(R!headers["host"]))
    BY <2>1 DEF R!HostHeader
  <2>3. R!headers["host"] \in R!Authorities
    <3>1. "host" \in R!Names
      BY DEF R!Names
    <3>2. message.lines["host"] # <<>>
          /\ R!headers["host"] = message.lines["host"][Len(message.lines["host"])]
      BY <2>2, <3>1, HeaderFacts
    <3> QED BY <1>1, <3>2
  <2>4. [host |-> R!headers["host"].host, port |-> R!headers["host"].port] \in R!Authorities
    BY <2>3 DEF R!Authorities
  <2> QED BY <2>2, <2>4, SplitFacts
<1>6. CASE ~(message.method = "CONNECT" /\ message.target.form = "authority")
           /\ message.method = "CONNECT"
  BY <1>6 DEF R!destination
<1> QED BY <1>3, <1>4, <1>5, <1>6

\* Nothing is known of the request before it is read.
LEMMA IngressStart == IngressInit => IngressInv
<1> SUFFICES ASSUME IngressInit PROVE IngressInv
  OBVIOUS
<1>1. IInv
  BY InitInvariant DEF IngressInit
<1>2. message \in Messages /\ stage = "receive" /\ body = 0
  BY DEF IngressInit, R!Init
<1>3. MessageInv
  BY <1>2 DEF IngressInit, MessageInv
<1>4. message.sent \in Nat
  BY <1>3, MessageFacts
<1>5. 0 \in 0..message.sent
  BY <1>4
<1>6. R!TypeOK
  BY <1>2, <1>5 DEF R!TypeOK
<1>7. R!Handled
  BY <1>2 DEF R!Handled
<1> QED BY <1>1, <1>3, <1>6, <1>7 DEF IngressInv

\* While bytes are read, nothing has been made of the request yet.
LEMMA ReadingStep ==
  ASSUME IngressInv, reading
  PROVE  IngressInv'
<1>1. IInv /\ Next
  BY DEF IngressInv, reading
<1>2. IInv'
  BY <1>1, HeaderStep, CompleteStep, BodyStep DEF Next
<1>3. pc # "done" /\ client' = client
  BY <1>1 DEF Next, recv_header, header_too_long, header_cut, header_complete,
              recv_body, body_cut, Reading
<1>4. UNCHANGED message_vars
  BY DEF reading
<1>5. stage \notin {"parse", "build", "raised", "tunnel", "sent"}
  BY <1>3 DEF IngressInv, MessageInv
<1>6. R!extract_content_length' = R!extract_content_length
  BY <1>4 DEF message_vars, R!extract_content_length
<1>7. MessageInv'
  BY <1>3, <1>4, <1>5, <1>6 DEF IngressInv, MessageInv, message_vars
<1>8. R!TypeOK' /\ R!Handled'
  BY <1>4, MessageStands DEF IngressInv
<1> QED BY <1>2, <1>7, <1>8 DEF IngressInv

\* The reader's part of the invariant holds while handle_client goes on.
LEMMA ReaderStands ==
  ASSUME IngressInv, UNCHANGED vars
  PROVE  IInv'
BY DEF IngressInv, IInv, TypeOK, ReadInv, BodyExact, vars

\* Two ways to end before there is a request.
LEMMA NoRequestStep ==
  ASSUME IngressInv, nothing_received \/ no_header
  PROVE  IngressInv'
<1>1. /\ stage = "receive" /\ stage' \in {"closed", "rejected"}
      /\ UNCHANGED <<vars, message, body, parsed, outbound>>
  BY DEF nothing_received, no_header
<1>2. IInv'
  BY <1>1, ReaderStands
<1>3. R!extract_content_length' = R!extract_content_length
  BY <1>1 DEF R!extract_content_length
<1>4. MessageInv'
  BY <1>1, <1>3 DEF IngressInv, MessageInv, vars
<1>5. R!TypeOK'
  BY <1>1 DEF IngressInv, R!TypeOK, R!Outcomes
<1>6. R!Handled'
  BY <1>1 DEF R!Handled
<1> QED BY <1>2, <1>4, <1>5, <1>6 DEF IngressInv

\* What follows the header is handed over, and it is no more than the client
\* has sent.
LEMMA ReceivedStep ==
  ASSUME IngressInv, received
  PROVE  IngressInv'
<1>1. /\ pc = "done" /\ result = "request" /\ stage' = "parse"
      /\ body' = data - client.header
      /\ UNCHANGED <<vars, message, parsed, outbound>>
  BY DEF received, R!receive
<1>2. IInv'
  BY <1>1, ReaderStands
<1>3. R!extract_content_length' = R!extract_content_length
  BY <1>1 DEF R!extract_content_length
<1>4. MessageInv'
  BY <1>1, <1>3 DEF IngressInv, MessageInv, vars
<1>5. body' \in 0..message'.sent
  <2>1. /\ client.header \in Nat /\ client.sent \in Nat /\ data \in Nat
        /\ data <= client.sent /\ header_read \in Nat
    BY ClientNumbers DEF IngressInv, IInv
  <2>2. client.header > 0 /\ client.header <= header_read /\ header_read <= data
    BY <1>1 DEF IngressInv, IInv, ReadInv
  <2>3. client.header \in 1..client.sent
    BY <2>1, <2>2
  <2>4. message.sent = client.sent - client.header
    BY <2>3 DEF IngressInv, MessageInv
  <2> QED BY <1>1, <2>1, <2>2, <2>4
<1>6. R!TypeOK'
  BY <1>1, <1>5 DEF R!TypeOK
<1>7. R!Handled'
  BY <1>1 DEF R!Handled
<1> QED BY <1>2, <1>4, <1>6, <1>7 DEF IngressInv

\* A request that the parser refuses.
LEMMA RefusedStep ==
  ASSUME IngressInv, R!parse_raises \/ R!parse_none, UNCHANGED vars
  PROVE  IngressInv'
<1>1. /\ stage = "parse" /\ stage' \in {"raised", "rejected"}
      /\ UNCHANGED <<message, body, parsed, outbound>>
  BY DEF R!parse_raises, R!parse_none, R!Keep
<1>2. IInv'
  BY ReaderStands
<1>3. R!extract_content_length' = R!extract_content_length
  BY <1>1 DEF R!extract_content_length
<1>4. MessageInv'
  BY <1>1, <1>3 DEF IngressInv, MessageInv, vars
<1>5. R!TypeOK'
  BY <1>1 DEF IngressInv, R!TypeOK, R!Outcomes
<1>6. R!Handled'
  BY <1>1 DEF R!Handled
<1> QED BY <1>2, <1>4, <1>5, <1>6 DEF IngressInv

\* A parsed request has the last line of each name, and the body handed over.
LEMMA ParseStep ==
  ASSUME IngressInv, R!parse, UNCHANGED vars
  PROVE  IngressInv'
<1>1. /\ stage = "parse" /\ ~R!Raises /\ stage' \in {"tunnel", "build"}
      /\ UNCHANGED <<message, body, outbound>>
  BY DEF R!parse, R!Keep
<1>2. PICK d \in R!destination :
        /\ d.host # "empty"
        /\ parsed' = [method |-> message.method, host |-> d.host, port |-> d.port,
                      headers |-> R!headers, content_length |-> R!content_length,
                      body |-> body]
  BY DEF R!parse
<1>3. [host |-> d.host, port |-> d.port] \in R!Authorities /\ d.port > R!NoPort
  BY <1>1, DestinationFacts DEF IngressInv
<1>4. IInv'
  BY ReaderStands
<1>5. R!extract_content_length' = R!extract_content_length
  BY <1>1 DEF R!extract_content_length
<1>6. MessageInv'
  BY <1>1, <1>5 DEF IngressInv, MessageInv, vars
<1>7. R!headers' = R!headers
  BY <1>1 DEF R!headers
<1>8. R!content_length' = R!content_length
  BY <1>7 DEF R!content_length
<1>9. R!TypeOK'
  BY <1>1, <1>2, <1>3 DEF IngressInv, R!TypeOK, R!Outcomes, R!NoPort
<1>10. R!Handled'
  BY <1>1, <1>2, <1>3, <1>7, <1>8 DEF R!Handled, R!NoPort
<1> QED BY <1>4, <1>6, <1>9, <1>10 DEF IngressInv

\* What the builder makes is made of the parsed request.
LEMMA BuildStep ==
  ASSUME IngressInv, R!build_outbound_request, UNCHANGED vars
  PROVE  IngressInv'
<1>1. /\ stage = "build" /\ stage' = "sent"
      /\ UNCHANGED <<message, body, parsed>>
      /\ outbound'.lines = [n \in R!Names |-> R!copied(n) \o R!added(n)]
      /\ outbound'.body = R!forwarded_body
  BY DEF R!build_outbound_request
<1>2. IInv'
  BY ReaderStands
<1>3. R!extract_content_length' = R!extract_content_length
  BY <1>1 DEF R!extract_content_length
<1>4. MessageInv'
  BY <1>1, <1>3 DEF IngressInv, MessageInv, vars
<1>5. R!headers' = R!headers
  BY <1>1 DEF R!headers
<1>6. R!content_length' = R!content_length
  BY <1>5 DEF R!content_length
<1>7. R!forwarded_body' = R!forwarded_body
  BY <1>1 DEF R!forwarded_body
<1>8. \A n \in R!Names : R!copied(n)' = R!copied(n) /\ R!added(n)' = R!added(n)
  BY <1>1 DEF R!copied, R!added, R!HostLine, R!forwarded_for
<1>9. [n \in R!Names |-> R!copied(n) \o R!added(n)]' = [n \in R!Names |-> R!copied(n) \o R!added(n)]
  BY <1>8
<1>10. R!Handled'
  BY <1>1, <1>5, <1>6, <1>7, <1>9 DEF IngressInv, R!Handled
<1>11. outbound'.body \in 0..body'
  <2>1. parsed.body = body
    BY <1>1 DEF IngressInv, R!Handled
  <2>2. message.sent \in Nat
    BY MessageFacts DEF IngressInv
  <2>3. body \in Nat
    BY <2>2 DEF IngressInv, R!TypeOK
  <2> QED BY <1>1, <2>1, <2>3 DEF R!forwarded_body
<1>12. R!TypeOK'
  BY <1>1, <1>11 DEF IngressInv, R!TypeOK, R!Outcomes
<1> QED BY <1>2, <1>4, <1>10, <1>12 DEF IngressInv

\* From the first byte to the origin, every stage keeps to what it was given.
THEOREM IngressInvariant == IngressSpec => []IngressInv
<1>1. IngressInv /\ [IngressNext]_ingress_vars => IngressInv'
  <2> SUFFICES ASSUME IngressInv, [IngressNext]_ingress_vars PROVE IngressInv'
    OBVIOUS
  <2>1. CASE reading
    BY <2>1, ReadingStep
  <2>2. CASE nothing_received \/ no_header
    BY <2>2, NoRequestStep
  <2>3. CASE received
    BY <2>3, ReceivedStep
  <2>4. CASE handling
    <3>1. R!Handle /\ UNCHANGED vars
      BY <2>4 DEF handling
    <3> QED BY <3>1, RefusedStep, ParseStep, BuildStep DEF R!Handle
  <2>5. CASE UNCHANGED ingress_vars
    <3>1. UNCHANGED vars /\ UNCHANGED message_vars
      BY <2>5 DEF ingress_vars
    <3>2. IInv' /\ R!TypeOK' /\ R!Handled'
      BY <3>1, ReaderStands, MessageStands DEF IngressInv
    <3>3. R!extract_content_length' = R!extract_content_length
      BY <3>1 DEF message_vars, R!extract_content_length
    <3>4. MessageInv'
      BY <3>1, <3>3 DEF IngressInv, MessageInv, vars, message_vars
    <3> QED BY <3>2, <3>4 DEF IngressInv
  <2> QED BY <2>1, <2>2, <2>3, <2>4, <2>5 DEF IngressNext
<1> QED BY IngressStart, <1>1, PTL DEF IngressSpec

\* In all that the client and its handler do, the reader does what the
\* specification of recv_http_request allows, and nothing else.
THEOREM IngressReads == IngressSpec => Spec
<1>1. IngressInit => Init
  BY DEF IngressInit
<1>2. [IngressNext]_ingress_vars => [Next]_vars
  BY DEF IngressNext, ingress_vars, reading, nothing_received, no_header, received, handling
<1> QED BY <1>1, <1>2, PTL DEF IngressSpec, Spec

\* What a sequence of one has in it, and what it is after an empty one.
LEMMA OneFacts ==
  ASSUME NEW e
  PROVE  /\ <<>> \o <<e>> = <<e>>
         /\ <<e>> # <<>> /\ Len(<<e>>) = 1 /\ <<e>>[1] = e /\ Head(<<e>>) = e
OBVIOUS

\* A sequence of length one is not empty, and begins with its only element.
LEMMA SingleFacts ==
  ASSUME NEW S, NEW s \in Seq(S), Len(s) = 1
  PROVE  s # <<>> /\ Head(s) = s[1]
OBVIOUS

\* The Host line is the builder's own, made of where the proxy connected to.
THEOREM HostIsDestination == IngressSpec => []HostNamesDestination
<1>1. IngressInv => HostNamesDestination
  <2> SUFFICES ASSUME IngressInv, stage = "sent", parsed.host = "name",
                      parsed.port \in {80, 443} => parsed.port = R!ImpliedPort
               PROVE  R!NamesDestination
    BY DEF IngressInv, HostNamesDestination, R!HostNamesDestination
  <2>1. outbound.lines["host"] = R!copied("host") \o R!added("host")
    BY DEF IngressInv, R!Handled, R!Names
  <2>2. R!copied("host") = <<>> /\ R!added("host") = <<R!HostLine>>
    BY DEF R!copied, R!added
  <2>3. outbound.lines["host"] = <<R!HostLine>>
    BY <2>1, <2>2, OneFacts
  <2>4. Len(outbound.lines["host"]) = 1 /\ outbound.lines["host"][1] = R!HostLine
    BY <2>3, OneFacts
  <2>5. R!HostLine.host = "name"
    BY DEF R!HostLine
  <2>6. parsed.port > R!NoPort
    BY DEF IngressInv, R!Handled
  <2>7. parsed.port \in {80, 443} => R!HostLine.port = R!NoPort /\ parsed.port = R!ImpliedPort
    BY DEF R!HostLine
  <2>8. parsed.port \notin {80, 443} => R!HostLine.port = parsed.port /\ parsed.port # R!NoPort
    BY <2>6 DEF R!HostLine, R!NoPort
  <2>9. IF R!HostLine.port = R!NoPort
        THEN parsed.port = R!ImpliedPort ELSE R!HostLine.port = parsed.port
    BY <2>7, <2>8
  <2> QED BY <2>4, <2>5, <2>9 DEF R!NamesDestination
<1> QED BY IngressInvariant, <1>1, PTL

\* Of a name that is passed on, the last of the client's lines is copied, and
\* it is one of them.
LEMMA CopiedFacts ==
  ASSUME IngressInv, stage = "sent",
         NEW n \in {"content-length", "cookie", "via", "x-forwarded-for"}
  PROVE  /\ outbound.lines[n] = R!copied(n) \o R!added(n)
         /\ message.lines[n] = <<>> => R!copied(n) = <<>>
         /\ message.lines[n] # <<>> =>
              /\ R!copied(n) = <<message.lines[n][Len(message.lines[n])]>>
              /\ message.lines[n][Len(message.lines[n])] \in R!ToSet(message.lines[n])
<1>1. n \in R!Names /\ n \notin R!HOP_BY_HOP_HEADERS \union {"host"}
  BY DEF R!Names, R!HOP_BY_HOP_HEADERS
<1>2. outbound.lines[n] = R!copied(n) \o R!added(n) /\ parsed.headers = R!headers
  BY <1>1 DEF IngressInv, R!Handled
<1>3. message.lines[n] = <<>> => R!copied(n) = <<>>
  BY <1>1, <1>2, HeaderFacts DEF R!copied
<1>4. message.lines[n] # <<>> => R!copied(n) = <<message.lines[n][Len(message.lines[n])]>>
  BY <1>1, <1>2, HeaderFacts DEF R!copied
<1>5. message.lines[n] \in Seq(Int) \/ message.lines[n] \in Seq(STRING)
      \/ message.lines[n] \in Seq(Seq(STRING))
  BY MessageFacts DEF IngressInv, R!IsRequest
<1>6. message.lines[n] # <<>> => Len(message.lines[n]) \in DOMAIN message.lines[n]
  BY <1>5
<1>7. message.lines[n] # <<>> =>
        message.lines[n][Len(message.lines[n])] \in R!ToSet(message.lines[n])
  BY <1>6 DEF R!ToSet
<1> QED BY <1>2, <1>3, <1>4, <1>7

\* A name that the builder has no line of its own for is passed on as copied.
LEMMA OnlyCopied ==
  ASSUME IngressInv, stage = "sent", NEW n \in {"content-length", "cookie"}
  PROVE  /\ message.lines[n] = <<>> => outbound.lines[n] = <<>>
         /\ message.lines[n] # <<>> =>
              outbound.lines[n] = <<message.lines[n][Len(message.lines[n])]>>
<1>1. R!added(n) = <<>>
  BY DEF R!added
<1>2. outbound.lines[n] = R!copied(n) \o <<>>
  BY <1>1, CopiedFacts
<1> QED BY <1>2, CopiedFacts

\* How one line and another after it begin and end.
LEMMA ShortFacts ==
  ASSUME NEW e, NEW f
  PROVE  /\ Len(<<e>> \o <<f>>) = 2 /\ Head(<<e>> \o <<f>>) = e
         /\ R!Last(<<e>> \o <<f>>) = f
         /\ <<>> \o <<f>> = <<f>>
         /\ Len(<<e>>) = 1 /\ Head(<<e>>) = e /\ R!Last(<<e>>) = e
<1>1. /\ Len(<<e>> \o <<f>>) = 2 /\ Head(<<e>> \o <<f>>) = e
      /\ (<<e>> \o <<f>>)[2] = f
  OBVIOUS
<1>2. Len(<<e>>) = 1 /\ Head(<<e>>) = e /\ <<e>>[1] = e
  OBVIOUS
<1>3. <<>> \o <<f>> = <<f>>
  OBVIOUS
<1> QED BY <1>1, <1>2, <1>3 DEF R!Last

\* The origin sees no hop-by-hop line of the client's, one line of any other
\* name but Host that the client sent, and after it the builder's own Via and
\* X-Forwarded-For, the latter with the chain it had from one line.
THEOREM HeadersArePassed == IngressSpec => []HeadersPass
<1>1. IngressInv => HeadersPass
  <2> SUFFICES ASSUME IngressInv, stage = "sent", NEW n \in R!Names \ {"host"}
               PROVE
      LET from == message.lines[n]
          to   == outbound.lines[n]
          own  == IF n \in {"x-forwarded-for", "via"} THEN 1 ELSE 0
      IN  /\ n \in R!HOP_BY_HOP_HEADERS =>
               to = (IF n = "connection" THEN <<"close">> ELSE <<>>)
          /\ n \notin R!HOP_BY_HOP_HEADERS =>
               /\ Len(to) = (IF from = <<>> THEN 0 ELSE 1) + own
               /\ from # <<>> => Head(to) \in R!ToSet(from)
          /\ n = "via" => R!Last(to) = "proxy"
          /\ n = "x-forwarded-for" =>
               /\ from = <<>> => R!Last(to) = <<R!ClientAddress>>
               /\ Len(from) = 1 => R!Last(to) = Append(Head(from), R!ClientAddress)
    BY DEF HeadersPass, R!HeadersPass
  <2> DEFINE from == message.lines[n]
             to   == outbound.lines[n]
             own  == IF n \in {"x-forwarded-for", "via"} THEN 1 ELSE 0
             e    == from[Len(from)]
  <2>1. \A m \in R!Names : outbound.lines[m] = R!copied(m) \o R!added(m)
    BY DEF IngressInv, R!Handled
  <2>2. CASE n \in R!HOP_BY_HOP_HEADERS
    <3>1. R!copied(n) = <<>>
      BY <2>2 DEF R!copied
    <3>2. n = "connection" => R!added(n) = <<"close">>
      BY DEF R!added
    <3>3. n # "connection" => R!added(n) = <<>>
      BY <2>2 DEF R!added, R!HOP_BY_HOP_HEADERS
    <3>4. to = (IF n = "connection" THEN <<"close">> ELSE <<>>)
      BY <2>1, <3>1, <3>2, <3>3
    <3>5. n # "via" /\ n # "x-forwarded-for"
      BY <2>2 DEF R!HOP_BY_HOP_HEADERS
    <3> QED BY <2>2, <3>4, <3>5
  <2>3. CASE n \in {"content-length", "cookie"}
    <3>1. n # "via" /\ n # "x-forwarded-for" /\ n \notin R!HOP_BY_HOP_HEADERS /\ own = 0
      BY <2>3 DEF R!HOP_BY_HOP_HEADERS
    <3>2. from = <<>> => to = <<>>
      BY <2>3, OnlyCopied
    <3>3. from # <<>> => to = <<e>> /\ e \in R!ToSet(from)
      BY <2>3, OnlyCopied, CopiedFacts
    <3> HIDE DEF e
    <3>4. Len(<<e>>) = 1 /\ Head(<<e>>) = e
      BY ShortFacts
    <3>5. Len(to) = (IF from = <<>> THEN 0 ELSE 1) + own
      BY <3>1, <3>2, <3>3, <3>4
    <3>6. from # <<>> => Head(to) \in R!ToSet(from)
      BY <3>3, <3>4
    <3> QED BY <3>1, <3>5, <3>6
  <2>4. CASE n \in {"via", "x-forwarded-for"}
    <3> DEFINE mine == IF n = "via" THEN "proxy" ELSE R!forwarded_for
    <3>1. n \notin R!HOP_BY_HOP_HEADERS /\ own = 1
      BY <2>4 DEF R!HOP_BY_HOP_HEADERS
    <3>2. R!added(n) = <<mine>>
      BY <2>4 DEF R!added
    <3> HIDE DEF mine
    <3>3. from = <<>> => to = <<mine>>
      BY <2>4, <3>2, CopiedFacts, ShortFacts
    <3>4. from # <<>> => to = <<e>> \o <<mine>> /\ e \in R!ToSet(from)
      BY <2>4, <3>2, CopiedFacts
    <3> HIDE DEF e
    <3>5. /\ Len(<<mine>>) = 1 /\ R!Last(<<mine>>) = mine
          /\ Len(<<e>> \o <<mine>>) = 2 /\ Head(<<e>> \o <<mine>>) = e
          /\ R!Last(<<e>> \o <<mine>>) = mine
      BY ShortFacts
    <3>6. Len(to) = (IF from = <<>> THEN 0 ELSE 1) + own
      <4>1. from = <<>> => Len(to) = 1
        BY <3>3, <3>5
      <4>2. from # <<>> => Len(to) = 2
        BY <3>4, <3>5
      <4> HIDE DEF to, own, from
      <4> QED BY <3>1, <4>1, <4>2
    <3>7. from # <<>> => Head(to) \in R!ToSet(from)
      BY <3>4, <3>5
    <3>8. R!Last(to) = mine
      BY <3>3, <3>4, <3>5
    <3>9. n = "via" => R!Last(to) = "proxy"
      BY <3>8 DEF mine
    <3>10. ASSUME n = "x-forwarded-for"
           PROVE  /\ from = <<>> => R!Last(to) = <<R!ClientAddress>>
                  /\ Len(from) = 1 => R!Last(to) = Append(Head(from), R!ClientAddress)
      <4>1. R!Last(to) = R!forwarded_for
        BY <3>8, <3>10 DEF mine
      <4>2. parsed.headers = R!headers
        BY DEF IngressInv, R!Handled
      <4>3. from = <<>> => R!forwarded_for = <<R!ClientAddress>>
        BY <3>10, <4>2, HeaderFacts DEF R!forwarded_for
      <4>4. ASSUME Len(from) = 1
            PROVE  R!forwarded_for = Append(Head(from), R!ClientAddress)
        <5>1. from \in Seq(Seq(STRING))
          BY <3>10, MessageFacts DEF IngressInv, R!IsRequest
        <5>2. from # <<>> /\ Head(from) = from[1]
          BY <4>4, <5>1, SingleFacts
        <5>3. n \in DOMAIN R!headers /\ R!headers[n] = from[1]
          BY <4>4, <5>2, HeaderFacts
        <5> QED BY <3>10, <4>2, <5>2, <5>3 DEF R!forwarded_for
      <4> QED BY <4>1, <4>3, <4>4
    <3> QED BY <3>1, <3>6, <3>7, <3>9, <3>10
  <2> QED BY <2>2, <2>3, <2>4 DEF R!Names
<1> QED BY IngressInvariant, <1>1, PTL

\* The reader goes by the first Content-Length line and the builder by the last:
\* the origin is announced the last and sent at least the first, for every
\* request, cut into pieces in every way.
THEOREM BodyIsFramed == IngressSpec => []BodyFramed
<1>1. IngressInv => BodyFramed
  <2> SUFFICES ASSUME IngressInv, stage = "sent", ~cut
               PROVE  LET first == R!Positive(R!extract_content_length)
                          last  == R!Positive(R!content_length)
                      IN  /\ R!Announced = last
                          /\ first > 0 /\ last > 0 => outbound.body \in first..message.sent
                          /\ first = last /\ message.sent = first =>
                               outbound.body = R!Announced
    BY DEF BodyFramed
  <2> DEFINE lengths == message.lines["content-length"]
             first   == R!Positive(R!extract_content_length)
             last    == R!Positive(R!content_length)
  <2>1. /\ pc = "done" /\ result = "request" /\ body = data - client.header
        /\ client.length = R!extract_content_length
    BY DEF IngressInv, MessageInv
  <2>2. /\ client.header \in Nat /\ client.sent \in Nat /\ client.length \in Int
        /\ data \in Nat /\ data <= client.sent /\ header_read \in Nat
    BY ClientNumbers DEF IngressInv, IInv
  <2>3. client.header > 0 /\ client.header <= header_read /\ header_read <= data
    BY <2>1 DEF IngressInv, IInv, ReadInv
  <2>4. message.sent = client.sent - client.header /\ message.sent \in Nat
    <3>1. client.header \in 1..client.sent
      BY <2>2, <2>3
    <3>2. message.sent = client.sent - client.header
      BY <3>1 DEF IngressInv, MessageInv
    <3> QED BY <3>2, MessageFacts DEF IngressInv
  <2>5. body \in 0..message.sent
    BY <2>1, <2>2, <2>3, <2>4
  <2>6. parsed.content_length = R!content_length /\ parsed.body = body
        /\ outbound.body = R!forwarded_body
    BY DEF IngressInv, R!Handled
  <2>7. "content-length" \in R!Names /\ R!NoLength = -1
    BY DEF R!Names, R!NoLength
  <2>8. R!content_length \in Int
    <3>1. lengths \in Seq(Int)
      BY MessageFacts DEF IngressInv
    <3>2. lengths = <<>> => R!content_length = -1
      BY <2>7, HeaderFacts DEF R!content_length
    <3>3. lengths # <<>> => R!content_length = lengths[Len(lengths)]
      BY <2>7, HeaderFacts DEF R!content_length
    <3>4. lengths # <<>> => lengths[Len(lengths)] \in Int
      BY <3>1
    <3> QED BY <3>2, <3>3, <3>4
  <2>9. /\ first \in Nat /\ last \in Nat
        /\ first > 0 => first = client.length
        /\ last > 0 <=> R!content_length > 0
    BY <2>1, <2>2, <2>8 DEF R!Positive
  <2>10. R!Announced = last
    <3>1. CASE lengths = <<>>
      <4>1. R!Announced = 0
        BY <3>1, OnlyCopied DEF R!Announced
      <4>2. R!content_length = -1
        BY <2>7, <3>1, HeaderFacts DEF R!content_length
      <4> QED BY <4>1, <4>2 DEF R!Positive
    <3>2. CASE lengths # <<>>
      <4> DEFINE e == lengths[Len(lengths)]
      <4>1. outbound.lines["content-length"] = <<e>>
        BY <3>2, OnlyCopied
      <4>2. R!content_length = e
        BY <2>7, <3>2, HeaderFacts DEF R!content_length
      <4> HIDE DEF e
      <4>3. outbound.lines["content-length"] # <<>> /\ Head(outbound.lines["content-length"]) = e
        BY <4>1, OneFacts
      <4> QED BY <4>2, <4>3 DEF R!Announced
    <3> QED BY <3>1, <3>2
  <2>11. first > 0 => body \in first..message.sent
    <3> SUFFICES ASSUME first > 0 PROVE body \in first..message.sent
      OBVIOUS
    <3>1. client.length > 0 /\ first = client.length
      BY <2>9
    <3>2. data = client.header + client.length \/ data > client.header + client.length
      BY <2>1, <3>1 DEF IngressInv, IInv, BodyExact
    <3> QED BY <2>1, <2>2, <2>5, <3>1, <3>2
  <2>12. last > 0 => outbound.body = body
    BY <2>6, <2>9 DEF R!forwarded_body
  <2>13. outbound.body = body \/ outbound.body = 0
    BY <2>6 DEF R!forwarded_body
  <2>14. ASSUME first = last, message.sent = first PROVE outbound.body = last
    <3>1. CASE first > 0
      <4>1. body \in first..first /\ outbound.body = body
        BY <2>11, <2>12, <2>14, <3>1
      <4> QED BY <2>14, <2>9, <4>1
    <3>2. CASE first = 0
      BY <2>5, <2>13, <2>14, <3>2
    <3> QED BY <2>9, <3>1, <3>2
  <2> HIDE DEF first, last
  <2> QED BY <2>10, <2>11, <2>12, <2>14 DEF first, last
<1> QED BY IngressInvariant, <1>1, PTL
=============================================================================
