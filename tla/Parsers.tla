------------------------------ MODULE Parsers -------------------------------
(***************************************************************************)
(* The parsers of the handshake, byte by byte: negotiation_parser.c,       *)
(* authentication_parser.c and request_parser.c, in the union `handshake'  *)
(* of a connection, over its one buffer client_to_sv.  recv may cut the    *)
(* stream anywhere, and clients may pipeline.  A byte has Width bits, and  *)
(* so have the counters.  How replies are sent is Socks5's: here they are  *)
(* out at once.                                                            *)
(***************************************************************************)
EXTENDS ByteQueue, Integers, FiniteSetsExt

CONSTANTS
  Width,               \* 8
  IPv4Size, IPv6Size,  \* 4 and 16
  Messages,            \* Messages[k]: what may come k-th (a bound)
  Family               \* ss_family of the address a connection is bound to

Byte == 0 .. 2^Width - 1

ASSUME ParsersAssumption ==
  /\ Capacity \in Nat /\ Width \in Nat /\ 2^Width \in Nat /\ 2^Width > 8
  /\ IPv4Size \in Byte \ {0} /\ IPv6Size \in Byte \ {0}
  /\ Messages \in Seq(SUBSET Seq(Byte))
  /\ Family \subseteq {"AF_INET", "AF_INET6", "AF_UNSPEC"}

SOCKS_VERSION == 5
AUTH_VERSION == 1
PASS == 2
NOT_ACCEPTABLE == 2^Width - 1
CONNECT == 1
RSV == 0
IPV4 == 1
DN == 3
IPV6 == 4

CON_SUCCEEDED == 0
CON_SERVER_FAILURE == 1
CON_COMMAND_NOT_SUPPORTED == 7
CON_ATYPE_NOT_SUPPORTED == 8

VARIABLES
  phase,         \* the state of the stm, or "closed"
  parser,        \* handshake: the parser of the phase
  client_to_sv,
  net,           \* the socket's receive queue
  stream,        \* history: all the client has sent
  messages,      \* history: how many messages that was
  taken,         \* history: the bytes the parsers have read
  msg,           \* history: those of them this phase has read
  result         \* history: the last parser to end, what it read, its reply

vars == <<phase, parser, client_to_sv, net, stream, messages, taken, msg, result>>

Add(n, k) == (n + k) % 2^Width  \* of a uint8_t

-----------------------------------------------------------------------------
(* negotiation_parser.c                                                    *)

initialize_negotiation_parser ==
  [state |-> "NEG_VERSION", selected |-> NOT_ACCEPTABLE, quantity |-> 0]

\* Mutant: a later method takes the place of the one that was found.
negotiation_parse_methods_Last(p, b) ==
  LET n == Add(p.quantity, -1)
  IN [state |-> IF n = 0 THEN "NEG_DONE" ELSE "NEG_METHOD_LIST",
      selected |-> IF b = PASS THEN b ELSE NOT_ACCEPTABLE, quantity |-> n]

negotiation_parse_methods(p, b) ==
  LET n == Add(p.quantity, -1)
  IN [state |-> IF n = 0 THEN "NEG_DONE" ELSE "NEG_METHOD_LIST",
      selected |-> IF b = PASS THEN b ELSE p.selected, quantity |-> n]

negotiation_parse(p, b) ==
  CASE p.state = "NEG_VERSION" ->
         [p EXCEPT !.state = IF b = SOCKS_VERSION THEN "NEG_METHOD_COUNT" ELSE "NEG_ERROR"]
    [] p.state = "NEG_METHOD_COUNT" ->
         IF b = 0 THEN [p EXCEPT !.state = "NEG_DONE"]
         ELSE [p EXCEPT !.state = "NEG_METHOD_LIST", !.quantity = b]
    [] p.state = "NEG_METHOD_LIST" -> negotiation_parse_methods(p, b)

(* authentication_parser.c: a length is never greater than MAX_LENGTH.     *)

initialize_auth_parser ==
  [state |-> "AUTH_PARSE_VERSION", length |-> 0, bytes_read |-> 0,
   uname |-> <<>>, passwd |-> <<>>]

\* Mutant: a name of length 0 is read as well.
auth_parse_length_Zero(p, b) ==
  [p EXCEPT !.state = IF @ = "AUTH_ULEN" THEN "AUTH_UNAME" ELSE "AUTH_PASSWD", !.length = b]

\* No name to read when its length is 0; a password is read whatever it is.
auth_parse_length(p, b) ==
  IF p.state = "AUTH_ULEN"
  THEN IF b = 0 THEN [p EXCEPT !.state = "AUTH_PLEN"]
       ELSE [p EXCEPT !.state = "AUTH_UNAME", !.length = b]
  ELSE [p EXCEPT !.state = "AUTH_PASSWD", !.length = b]

\* Mutant: the counter is not reset between the name and the password.
auth_parse_characters_NoReset(p, b) ==
  LET n == Add(p.bytes_read, 1)
      end == n = p.length
      q == [p EXCEPT !.bytes_read = n]
  IN IF p.state = "AUTH_UNAME"
     THEN [q EXCEPT !.uname = Append(@, b), !.state = IF end THEN "AUTH_PLEN" ELSE @]
     ELSE [q EXCEPT !.passwd = Append(@, b), !.state = IF end THEN "AUTH_DONE" ELSE @]

auth_parse_characters(p, b) ==
  LET n == Add(p.bytes_read, 1)
      end == n = p.length
      q == [p EXCEPT !.bytes_read = IF end THEN 0 ELSE n]
  IN IF p.state = "AUTH_UNAME"
     THEN [q EXCEPT !.uname = Append(@, b), !.state = IF end THEN "AUTH_PLEN" ELSE @]
     ELSE [q EXCEPT !.passwd = Append(@, b), !.state = IF end THEN "AUTH_DONE" ELSE @]

auth_parse(p, b) ==
  CASE p.state = "AUTH_PARSE_VERSION" ->
         [p EXCEPT !.state = IF b = AUTH_VERSION THEN "AUTH_ULEN" ELSE "AUTH_ERROR"]
    [] p.state \in {"AUTH_ULEN", "AUTH_PLEN"} -> auth_parse_length(p, b)
    [] p.state \in {"AUTH_UNAME", "AUTH_PASSWD"} -> auth_parse_characters(p, b)

(* request_parser.c                                                        *)

initialize_request_parser ==
  [state |-> "REQ_VERSION", status |-> CON_SERVER_FAILURE, atyp |-> 0, addr_len |-> 0,
   bytes_read |-> 0, address |-> <<>>, port |-> 0]

Failed(p, status) == [p EXCEPT !.state = "REQ_ERROR", !.status = status]

req_parse_atyp(p, b) ==
  LET q == [p EXCEPT !.atyp = b]
  IN CASE b = IPV4 -> [q EXCEPT !.state = "REQ_DST_ADDR", !.addr_len = IPv4Size]
       [] b = IPV6 -> [q EXCEPT !.state = "REQ_DST_ADDR", !.addr_len = IPv6Size]
       [] b = DN -> [q EXCEPT !.state = "REQ_DST_ADDR_LENGTH"]
       [] OTHER -> Failed(q, CON_ATYPE_NOT_SUPPORTED)

req_parse_dst_addr(p, b) ==
  LET n == Add(p.bytes_read, 1)
      address == Append(p.address, b)
  IN IF n = p.addr_len
     THEN [p EXCEPT !.address = SubSeq(address, 1, n), !.bytes_read = 0,
                    !.state = "REQ_DST_PORT"]
     ELSE [p EXCEPT !.address = address, !.bytes_read = n]

req_parse_dst_port(p, b) ==
  IF p.bytes_read = 0 THEN [p EXCEPT !.bytes_read = 1, !.port = b * 2^Width]
  ELSE [p EXCEPT !.bytes_read = 0, !.port = @ + b, !.state = "REQ_DONE"]

\* Version, command and reserved byte in turn.
req_parse(p, b) ==
  LET expect(ok, next, status) == IF ok THEN [p EXCEPT !.state = next] ELSE Failed(p, status)
  IN CASE p.state = "REQ_VERSION" -> expect(b = SOCKS_VERSION, "REQ_CMD", p.status)
       [] p.state = "REQ_CMD" -> expect(b = CONNECT, "REQ_RSV", CON_COMMAND_NOT_SUPPORTED)
       [] p.state = "REQ_RSV" -> expect(b = RSV, "REQ_ATYP", CON_SERVER_FAILURE)
       [] p.state = "REQ_ATYP" -> req_parse_atyp(p, b)
       [] p.state = "REQ_DST_ADDR_LENGTH" ->
            [p EXCEPT !.state = "REQ_DST_ADDR", !.addr_len = b]
       [] p.state = "REQ_DST_ADDR" -> req_parse_dst_addr(p, b)
       [] p.state = "REQ_DST_PORT" -> req_parse_dst_port(p, b)

\* The address and the port the connection is bound to are zeros here.
req_generate_response(status, family) ==
  LET six == status = CON_SUCCEEDED /\ family = "AF_INET6"
  IN <<SOCKS_VERSION, status, RSV, IF six THEN IPV6 ELSE IPV4>>
     \o [i \in 1 .. (IF six THEN IPv6Size ELSE IPv4Size) + 2 |-> 0]

-----------------------------------------------------------------------------
(* The handlers that feed them.                                            *)

Ended(p) == p.state \in {"NEG_DONE", "NEG_ERROR", "AUTH_DONE", "AUTH_ERROR",
                         "REQ_DONE", "REQ_ERROR"}

\* The parser of the phase reads a byte.
parse(p, b) == CASE phase = "NEGOTIATION_READ" -> negotiation_parse(p, b)
                 [] phase = "AUTH_READ" -> auth_parse(p, b)
                 [] phase = "REQ_READ" -> req_parse(p, b)

\* The loop of each parser: it stops at the end of the message, and the
\* bytes after it stay in the buffer.
Parsed(q) ==
  LET run[i \in Nat] ==
        IF i = 0 THEN [p |-> parser, n |-> 0]
        ELSE LET s == run[i - 1]
             IN IF Ended(s.p) \/ s.n = Len(q) THEN s
                ELSE [p |-> parse(s.p, q[s.n + 1]), n |-> s.n + 1]
  IN run[Len(q)]

Init ==
  /\ phase = "NEGOTIATION_READ" /\ parser = initialize_negotiation_parser
  /\ client_to_sv = EmptyQueue /\ net = <<>>
  /\ stream = <<>> /\ messages = 0 /\ taken = <<>> /\ msg = <<>>
  /\ result = [p |-> parser, msg |-> <<>>, reply |-> <<>>]

\* Mutant: the buffer is emptied when a message is complete.
Rest_None(b, n) == EmptyQueue

Rest(b, n) == Consume(b, n)

\* recv of k bytes, and the parser's loop.  Nothing is received when the
\* buffer is full.
Reads == 1 .. Min({Room(client_to_sv), Len(net)})

recv_and_parse(k) ==
  LET b == Extend(client_to_sv, SubSeq(net, 1, k))
      done == Parsed(b.q)
  IN [p |-> done.p, msg |-> msg \o SubSeq(b.q, 1, done.n), n |-> done.n, b |-> b]

\* What every read does with r, what recv_and_parse(k) returned.
Read(k, r) ==
  /\ net' = SubSeq(net, k + 1, Len(net))
  /\ client_to_sv' = IF Ended(r.p) THEN Rest(r.b, r.n) ELSE Consume(r.b, r.n)
  /\ taken' = taken \o SubSeq(r.b.q, 1, r.n)
  /\ msg' = IF Ended(r.p) THEN <<>> ELSE r.msg
  /\ UNCHANGED <<stream, messages>>

Continues(r) == ~Ended(r.p) /\ parser' = r.p /\ UNCHANGED <<phase, result>>

\* The phase ends: the reply is written and the next parser initialised.
Ends(r, reply, next, initial) ==
  /\ Ended(r.p)
  /\ result' = [p |-> r.p, msg |-> r.msg, reply |-> reply]
  /\ phase' = next
  /\ parser' = initial

\* A wrong version has no reply.
negotiation_read ==
  /\ phase = "NEGOTIATION_READ"
  /\ \E k \in Reads :
       LET r == recv_and_parse(k)
           reply == <<SOCKS_VERSION, r.p.selected>>
       IN /\ Read(k, r)
          /\ \/ Continues(r)
             \/ r.p.state = "NEG_ERROR" /\ Ends(r, <<>>, "SOCKS_ERROR", r.p)
             \/ /\ r.p.state = "NEG_DONE" /\ r.p.selected = NOT_ACCEPTABLE
                /\ Ends(r, reply, "SOCKS_ERROR", r.p)
             \/ /\ r.p.state = "NEG_DONE" /\ r.p.selected # NOT_ACCEPTABLE
                /\ Ends(r, reply, "AUTH_READ", initialize_auth_parser)

\* What user_login says is Access's: either answer.
authentication_read ==
  /\ phase = "AUTH_READ"
  /\ \E k \in Reads :
       LET r == recv_and_parse(k)
       IN /\ Read(k, r)
          /\ \/ Continues(r)
             \/ \E authenticated \in {0, 1} :
                  Ends(r, <<AUTH_VERSION, authenticated>>, "REQ_READ", initialize_request_parser)

\* What becomes of the connection to the origin is Socks5's: any outcome.
request_read ==
  /\ phase = "REQ_READ"
  /\ \E k \in Reads :
       LET r == recv_and_parse(k)
           outcomes == IF r.p.state = "REQ_ERROR" THEN {r.p.status}
                       ELSE {CON_SUCCEEDED, CON_SERVER_FAILURE}
       IN /\ Read(k, r)
          /\ \/ Continues(r)
             \/ \E family \in Family, status \in outcomes :
                  Ends([r EXCEPT !.p.status = status], req_generate_response(status, family),
                       "REQ_WRITE", r.p)

recv_fails ==
  /\ phase \in {"NEGOTIATION_READ", "AUTH_READ", "REQ_READ"}
  /\ CanWrite(client_to_sv)
  /\ phase' = "SOCKS_ERROR"
  /\ UNCHANGED <<parser, client_to_sv, net, stream, messages, taken, msg, result>>

\* The client may send the next message without waiting for a reply.
client_sends ==
  /\ messages < Len(Messages)
  /\ \E m \in Messages[messages + 1] : stream' = stream \o m /\ net' = net \o m
  /\ messages' = messages + 1
  /\ UNCHANGED <<phase, parser, client_to_sv, taken, msg, result>>

Next == \/ negotiation_read \/ authentication_read \/ request_read
        \/ recv_fails \/ client_sends

Spec == Init /\ [][Next]_vars

-----------------------------------------------------------------------------
(* The messages as their headers draw them: each field at its offset.      *)

Size(n) == IF n = 0 THEN 2^Width ELSE n  \* of a password or a domain name

\* The place of the first byte that ends the message early, 0 if none does.
FirstWrong(m) ==
  LET wrong(i) == CASE i = 1 -> m[1] # SOCKS_VERSION
                    [] i = 2 -> m[2] # CONNECT
                    [] i = 3 -> m[3] # RSV
                    [] i = 4 -> m[4] \notin {IPV4, DN, IPV6}
      at == {i \in 1 .. Min({4, Len(m)}) : wrong(i)}
  IN IF at = {} THEN 0 ELSE Min(at)

AddressAt(m) == IF m[4] = DN THEN 6 ELSE 5

AddressSize(m) == CASE m[4] = IPV4 -> IPv4Size
                    [] m[4] = IPV6 -> IPv6Size
                    [] m[4] = DN -> Size(m[5])

IsNegotiation(m) ==
  IF m[1] # SOCKS_VERSION THEN Len(m) = 1
  ELSE Len(m) >= 2 /\ Len(m) = 2 + m[2]

IsAuthentication(m) ==
  IF m[1] # AUTH_VERSION THEN Len(m) = 1
  ELSE /\ Len(m) >= 2 /\ Len(m) >= m[2] + 3
       /\ Len(m) = 3 + m[2] + Size(m[m[2] + 3])

IsRequest(m) ==
  IF FirstWrong(m) # 0 THEN Len(m) = FirstWrong(m)
  ELSE Len(m) >= 5 /\ Len(m) = AddressAt(m) + AddressSize(m) + 1

-----------------------------------------------------------------------------

\* Types: the buffer keeps to its memory, and the counters and lengths of
\* whichever parser the union holds are bytes.
PTypeOK ==
  /\ phase \in {"NEGOTIATION_READ", "AUTH_READ", "REQ_READ", "REQ_WRITE", "SOCKS_ERROR"}
  /\ client_to_sv.q \in Seq(Byte) /\ client_to_sv.gap \in 0 .. Capacity
  /\ Room(client_to_sv) \in 0 .. Capacity
  /\ net \in Seq(Byte)
  /\ phase = "NEGOTIATION_READ" => parser.quantity \in Byte
  /\ phase = "AUTH_READ" => parser.length \in Byte /\ parser.bytes_read \in Byte
  /\ phase = "REQ_READ" => parser.addr_len \in Byte /\ parser.bytes_read \in Byte

\* A parser ends at the end of its message wherever recv cut the stream:
\* the bytes it read are exactly one message, its fields are those of the
\* message, and an error is that of the first wrong field.  A password or
\* a domain name of length 0 is one of 256 bytes, since the counter has to
\* come round (authentication_parser.c:49, request_parser.c:75).  A reply
\* to a request is as long as its address type announces.
ParsedAsGrammar ==
  LET p == result.p
      m == result.msg
  IN m # <<>> =>
     CASE "selected" \in DOMAIN p ->
            /\ IsNegotiation(m)
            /\ p.state = "NEG_ERROR" <=> m[1] # SOCKS_VERSION
            /\ p.selected = PASS <=> Len(m) > 2 /\ PASS \in {m[i] : i \in 3 .. Len(m)}
       [] "uname" \in DOMAIN p ->
            /\ IsAuthentication(m)
            /\ p.state = "AUTH_ERROR" <=> m[1] # AUTH_VERSION
            /\ p.state = "AUTH_DONE" =>
                 /\ p.uname = SubSeq(m, 3, 2 + m[2])
                 /\ p.passwd = SubSeq(m, 4 + m[2], Len(m))
       [] "atyp" \in DOMAIN p ->
            /\ IsRequest(m)
            /\ p.state = "REQ_ERROR" <=> FirstWrong(m) # 0
            /\ p.state = "REQ_ERROR" =>
                 p.status = CASE FirstWrong(m) \in {1, 3} -> CON_SERVER_FAILURE
                              [] FirstWrong(m) = 2 -> CON_COMMAND_NOT_SUPPORTED
                              [] FirstWrong(m) = 4 -> CON_ATYPE_NOT_SUPPORTED
            /\ p.state = "REQ_DONE" =>
                 /\ p.address = SubSeq(m, AddressAt(m), AddressAt(m) + p.addr_len - 1)
                 /\ p.port = m[Len(m) - 1] * 2^Width + m[Len(m)]
            /\ result.reply[2] = p.status
            /\ Len(result.reply) = 6 + (IF result.reply[4] = IPV4 THEN IPv4Size ELSE IPv6Size)

\* No read leaves a whole message unanswered: what the parser of the phase
\* has read is not yet a message, and once it has read any byte none is
\* left in the buffer.  A message sent before the reply to the one before
\* it does wait, for one more byte: the handlers parse only after a recv.
NoCompleteMessageWaits ==
  /\ msg # <<>> => client_to_sv.q = <<>>
  /\ \A k \in 1 .. Len(msg) :
       LET m == SubSeq(msg, 1, k)
       IN CASE phase = "NEGOTIATION_READ" -> ~ IsNegotiation(m)
            [] phase = "AUTH_READ" -> ~ IsAuthentication(m)
            [] phase = "REQ_READ" -> ~ IsRequest(m)
            [] OTHER -> TRUE

\* No byte is lost, repeated or moved across the three phases: what the
\* parsers read, what the buffer holds and what is still to be received
\* are the client's stream.  The copy of the next state starts from there.
StreamTiled == stream = taken \o client_to_sv.q \o net
=============================================================================
