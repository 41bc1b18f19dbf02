------------------------------- MODULE Socks5 -------------------------------
(***************************************************************************)
(* One connection of server/socks5.c from accept to close: the stm's       *)
(* states, their handlers in negotiation.c, authentication.c and request.c,*)
(* the two descriptors they register, the resolver thread, and the client, *)
(* the origin and the kernel around them.                                  *)
(*                                                                         *)
(* A handshake message is two pieces of the client's stream: "part", which *)
(* leaves the parser in the middle, and one that completes it and names    *)
(* what was parsed.  A reply is two pieces too, so a send may be partial.  *)
(* The order of the ready descriptors within an iteration is left open:    *)
(* their numbers depend on what other connections have freed.  COPY is     *)
(* module Copy's; here its handlers may do what they do there.             *)
(***************************************************************************)
EXTENDS ByteQueue, Integers

CONSTANTS
  Scripts,        \* the sequences of messages a client may send (a bound)
  Pipelining,     \* may the client send before it has the previous reply?
  OriginFirst,    \* may the origin speak before the client has its reply?
  ConnectResults, \* what connect may return: "ok", "inprogress", "error"
  MaxAddrs,       \* addresses a name may resolve to (a bound)
  OriginFd        \* the descriptors socket may return (a bound)

ClientFd == 0
Fd == {ClientFd} \cup OriginFd

Messages == {"neg", "neg_none", "neg_bad", "auth", "auth_no", "auth_bad",
             "req_ip", "req_dn", "req_bad", "data"}

ASSUME Socks5Assumption ==
  /\ Capacity \in Nat \ {0} /\ MaxAddrs \in Nat \ {0}
  /\ Scripts \subseteq Seq(Messages)
  /\ Pipelining \in BOOLEAN /\ OriginFirst \in BOOLEAN
  /\ ConnectResults \subseteq {"ok", "inprogress", "error"}
  /\ OriginFd \subseteq Nat \ {ClientFd}

VARIABLES
  state,         \* enum socks_v5state
  client_fd,
  origin,        \* fd: origin_fd; sock: what has become of connect;
                 \* said: the origin has sent something
  slot,          \* slot[fd]: the interest registered, or "unused"
  client_to_sv,
  sv_to_client,  \* replies to send, in pieces
  current,       \* addresses from current_origin_addr on; 0 when it is NULL
  resolver,      \* the thread of request_resolve_domain_name
  freed,         \* runs of socksv5_destroy
  process,       \* "up", "aborted", or "wild" once behaviour is undefined
  script,        \* what this client sends
  sent,          \* pieces of it that have been sent
  net,           \* receive queue of the client's socket
  client,        \* "open", "fin" or "reset"
  got            \* what the client has received

conn == <<state, client_fd, origin, slot, client_to_sv, sv_to_client, current,
          resolver, freed, process>>
user == <<script, sent, net, client, got>>
vars == <<conn, user>>

NoOrigin == [fd |-> -1, sock |-> "none", said |-> FALSE]

Final == {"SOCKS_DONE", "SOCKS_ERROR"}

\* Mutant: client_actions lacks on_write_ready for REQ_CONNECT.
Handles_NoConnect(ev) ==
  CASE ev = "read" -> {"NEGOTIATION_READ", "AUTH_READ", "REQ_READ", "COPY"}
    [] ev = "write" -> {"NEGOTIATION_WRITE", "AUTH_WRITE", "REQ_WRITE", "COPY"}

\* The states of client_actions with a handler for each event.
Handles(ev) ==
  CASE ev = "read" -> {"NEGOTIATION_READ", "AUTH_READ", "REQ_READ", "COPY"}
    [] ev = "write" -> {"NEGOTIATION_WRITE", "AUTH_WRITE", "REQ_CONNECT",
                        "REQ_WRITE", "COPY"}

\* socksv5_new, and the registration of socks_v5_passive_accept.
Init ==
  /\ state = "NEGOTIATION_READ"
  /\ client_fd = ClientFd /\ origin = NoOrigin
  /\ slot = [fd \in Fd |-> IF fd = ClientFd THEN "read" ELSE "unused"]
  /\ client_to_sv = EmptyQueue /\ sv_to_client = <<>>
  /\ current = 0 /\ resolver = "idle"
  /\ freed = 0 /\ process = "up"
  /\ script \in Scripts /\ sent = 0
  /\ net = <<>> /\ client = "open" /\ got = <<>>

-----------------------------------------------------------------------------
(* What a handler returns.                                                 *)

\* socksv5_done: abort() when a descriptor is not registered; the last
\* socksv5_close frees the connection.
socksv5_done(table, org) ==
  LET fds == {client_fd, org.fd} \ {-1}
  IN /\ process' = IF \E fd \in fds : table[fd] = "unused" THEN "aborted" ELSE "up"
     /\ slot' = [fd \in Fd |-> IF fd \in fds THEN "unused" ELSE table[fd]]
     /\ client_fd' = -1 /\ origin' = NoOrigin
     /\ freed' = freed + 1

\* The stm jumps to `next'; table and org are what the handler made of the
\* slots and of the origin.
Return(next, table, org) ==
  /\ state' = next
  /\ \/ /\ next \notin Final
        /\ slot' = table /\ origin' = org
        /\ UNCHANGED <<client_fd, freed, process>>
     \/ next \in Final /\ socksv5_done(table, org)

\* Mutant: the interest is left as it was.
ReturnWatching_Same(next, fd, i, table, org) ==
  IF table[fd] = "unused" THEN Return("SOCKS_ERROR", table, org)
  ELSE Return(next, table, org)

\* selector_set_interest_key before a return: SOCKS_ERROR if it fails.
ReturnWatching(next, fd, i, table, org) ==
  IF table[fd] = "unused" THEN Return("SOCKS_ERROR", table, org)
  ELSE Return(next, [table EXCEPT ![fd] = i], org)

Reply(kind) == <<"part", kind>>

Respond(kind) == sv_to_client' = sv_to_client \o Reply(kind)

\* No reply unless the key of the event is still registered.
req_generate_response_error(fd, table, org) ==
  /\ IF table[fd] = "unused" THEN UNCHANGED sv_to_client ELSE Respond("failure")
  /\ ReturnWatching("REQ_WRITE", fd, "write", table, org)

-----------------------------------------------------------------------------
(* Events.                                                                 *)

Ready(fd, ev) ==
  CASE fd = ClientFd /\ ev = "read" -> net # <<>> \/ client # "open"
    [] fd = ClientFd /\ ev = "write" -> TRUE
    [] fd # ClientFd /\ ev = "read" -> origin.said
    [] fd # ClientFd /\ ev = "write" -> origin.sock \in {"connected", "refused"}

Event(fd, ev) == process = "up" /\ slot[fd] = ev /\ Ready(fd, ev)

\* stm_handler_read and stm_handler_write in a state without that handler.
stm_abort ==
  /\ \E fd \in Fd, ev \in {"read", "write"} : Event(fd, ev) /\ state \notin Handles(ev)
  /\ process' = "aborted"
  /\ UNCHANGED <<state, client_fd, origin, slot, client_to_sv, sv_to_client, current,
                 resolver, freed, user>>

\* Mutant: the test is `< 0' instead of `<= 0'.
Hungup_NotAtEof == client = "reset"

Hungup == client = "reset" \/ (net = <<>> /\ client # "open")

\* recv returns 0 or fails.
read_error ==
  /\ state \in {"NEGOTIATION_READ", "AUTH_READ", "REQ_READ"}
  /\ Event(ClientFd, "read") /\ CanWrite(client_to_sv) /\ Hungup
  /\ Return("SOCKS_ERROR", slot, origin)
  /\ UNCHANGED <<client_to_sv, sv_to_client, current, resolver, user>>

\* The parsers stop after the first complete message; what follows it stays
\* in the buffer, and is looked at after the next recv only.
MessageEnd(q) == {i \in 1 .. Len(q) : q[i] # "part" /\ \A j \in 1 .. i - 1 : q[j] = "part"}

\* recv of n pieces and the parse of what the buffer then holds: m is the
\* message completed, or "part".
recv_and_parse(m) ==
  /\ Event(ClientFd, "read") /\ ~Hungup
  /\ \E n \in 1 .. Len(net) :
       LET b == Extend(client_to_sv, SubSeq(net, 1, n))
       IN /\ n <= Room(client_to_sv)
          /\ net' = SubSeq(net, n + 1, Len(net))
          /\ \/ /\ MessageEnd(b.q) = {} /\ m = "part"
                /\ client_to_sv' = Consume(b, Len(b.q))
             \/ \E k \in MessageEnd(b.q) : /\ m = b.q[k]
                                           /\ client_to_sv' = Consume(b, k)
  /\ UNCHANGED <<script, sent, client, got>>

negotiation_read ==
  /\ state = "NEGOTIATION_READ"
  /\ \E m \in {"part", "neg", "neg_none", "neg_bad"} :
       /\ recv_and_parse(m)
       /\ \/ m = "part" /\ Return(state, slot, origin) /\ UNCHANGED sv_to_client
          \/ /\ m = "neg_bad"  \* generate_negotiation_response fails
             /\ Return("SOCKS_ERROR", slot, origin) /\ UNCHANGED sv_to_client
          \/ /\ m \in {"neg", "neg_none"}
             /\ Respond(IF m = "neg" THEN "method" ELSE "no_method")
             /\ ReturnWatching("NEGOTIATION_WRITE", ClientFd, "write", slot, origin)
  /\ UNCHANGED <<current, resolver>>

\* A parse error is answered like a wrong password: user_login fails.
authentication_read ==
  /\ state = "AUTH_READ"
  /\ \E m \in {"part", "auth", "auth_no", "auth_bad"} :
       /\ recv_and_parse(m)
       /\ \/ m = "part" /\ Return(state, slot, origin) /\ UNCHANGED sv_to_client
          \/ /\ m # "part"
             /\ Respond(IF m = "auth" THEN "granted" ELSE "denied")
             /\ ReturnWatching("AUTH_WRITE", ClientFd, "write", slot, origin)
  /\ UNCHANGED <<current, resolver>>

-----------------------------------------------------------------------------
(* Connecting to the origin.                                               *)

Least(m, n) == IF m <= n THEN m ELSE n

\* Mutant: it is closed and not unregistered.
OriginClosed_Registered == slot

\* The table once the previous socket of the connection is closed.
OriginClosed == IF origin.fd = -1 THEN slot
                ELSE [slot EXCEPT ![origin.fd] = "unused"]

\* Writable is how the end of connect shows.
AwaitConnect(table, fd) == [table EXCEPT ![fd] = "write"]

\* socket, register with OP_NOOP and connect, for an address that does not
\* fail at once; m addresses are left, this one included.  fd is the key.
Connecting(fd, m, table) ==
  \E new \in OriginFd, result \in ConnectResults \ {"error"} :
    /\ table[new] = "unused"
    /\ current' = m
    /\ \/ /\ result = "ok"
          /\ Respond("success")
          /\ IF table[fd] = "unused" /\ fd # new
             THEN Return("SOCKS_ERROR", [table EXCEPT ![new] = "noop"],
                         [fd |-> new, sock |-> "connected", said |-> FALSE])
             ELSE Return("REQ_CONNECT", [[table EXCEPT ![fd] = "write"] EXCEPT ![new] = "read"],
                         [fd |-> new, sock |-> "connected", said |-> FALSE])
       \/ /\ result = "inprogress"
          /\ UNCHANGED sv_to_client
          /\ ReturnWatching("REQ_CONNECT", fd, "noop", AwaitConnect(table, new),
                            [fd |-> new, sock |-> "connecting", said |-> FALSE])

\* Tries the addresses from current_origin_addr on, m of them being left
\* when one does not fail at once.
initiate_origin_connection(fd, addrs) ==
  LET table == OriginClosed
  IN \/ /\ addrs = 0 \/ "error" \in ConnectResults
        /\ current' = 0
        /\ req_generate_response_error(fd, table, NoOrigin)
     \/ \E m \in 1 .. addrs : /\ m = addrs \/ "error" \in ConnectResults
                              /\ Connecting(fd, m, table)

\* handle_request: a literal address is tried at once; a name is given to a
\* thread, which leaves the list in the connection.
request_read ==
  /\ state = "REQ_READ"
  /\ \E m \in {"part", "req_ip", "req_dn", "req_bad"} :
       /\ recv_and_parse(m)
       /\ \/ /\ m = "part" /\ Return(state, slot, origin)
             /\ UNCHANGED <<sv_to_client, current, resolver>>
          \/ /\ m = "req_bad" /\ req_generate_response_error(ClientFd, slot, origin)
             /\ UNCHANGED <<current, resolver>>
          \/ /\ m = "req_ip" /\ initiate_origin_connection(ClientFd, 1)
             /\ UNCHANGED resolver
          \/ /\ m = "req_dn" /\ resolver' = "running"
             /\ ReturnWatching("REQ_RESOLVE", ClientFd, "noop", slot, origin)
             /\ UNCHANGED <<sv_to_client, current>>

request_resolve_domain_name ==
  /\ resolver = "running" /\ process = "up"
  /\ resolver' = "queued"
  /\ current' \in 0 .. MaxAddrs
  /\ UNCHANGED <<state, client_fd, origin, slot, client_to_sv, sv_to_client, freed,
                 process, user>>

\* The notification of the queued job.  With no list at all the answer is
\* the one of an exhausted list.
request_resolve ==
  /\ resolver = "queued" /\ process = "up"
  /\ resolver' = "idle"
  /\ \/ /\ slot[ClientFd] = "unused"  \* the job is dropped
        /\ UNCHANGED <<state, client_fd, origin, slot, sv_to_client, current, freed,
                       process>>
     \/ /\ slot[ClientFd] # "unused" /\ state = "REQ_RESOLVE"
        /\ initiate_origin_connection(ClientFd, current)
  /\ UNCHANGED <<client_to_sv, user>>

\* The addresses request_connect goes on with when there is a next one: it
\* looks at the next but does not make it the current one.
AddrsAfterFailure == current

\* Mutant: SO_ERROR is not asked for.
ConnectFailed_Never == FALSE

ConnectFailed == origin.sock = "refused"

request_connect(fd) ==
  /\ state = "REQ_CONNECT" /\ Event(fd, "write")
  /\ \/ /\ ~ConnectFailed
        /\ current' = 0
        /\ Respond("success")
        /\ Return("REQ_WRITE",
                  [[slot EXCEPT ![client_fd] = "write"] EXCEPT ![origin.fd] = "read"],
                  origin)
     \/ /\ ConnectFailed /\ current = 1
        /\ req_generate_response_error(fd, OriginClosed, NoOrigin)
        /\ UNCHANGED current
     \/ /\ ConnectFailed /\ current > 1
        /\ initiate_origin_connection(fd, AddrsAfterFailure)
  /\ UNCHANGED <<client_to_sv, resolver, user>>

-----------------------------------------------------------------------------
(* Sending the replies.                                                    *)

\* Where each state that writes goes once its reply is out, and the interest
\* it leaves on the client: every reply, a refusal too, leads on.
After(st) ==
  CASE st = "NEGOTIATION_WRITE" -> "AUTH_READ"
    [] st = "AUTH_WRITE" -> "REQ_READ"
    [] st = "REQ_WRITE" -> "COPY"

Writing == {"NEGOTIATION_WRITE", "AUTH_WRITE", "REQ_WRITE"}

\* Mutant: buffer_read_adv one byte short.
Unsent_Short(n) == SubSeq(sv_to_client, n, Len(sv_to_client))

Unsent(n) == SubSeq(sv_to_client, n + 1, Len(sv_to_client))

write_error ==
  /\ state \in Writing /\ Event(ClientFd, "write") /\ client = "reset"
  /\ Return("SOCKS_ERROR", slot, origin)
  /\ UNCHANGED <<client_to_sv, sv_to_client, current, resolver, user>>

\* negotiation_write, authentication_write and request_write.
reply_write ==
  /\ state \in Writing /\ Event(ClientFd, "write") /\ client # "reset"
  /\ \E n \in 1 .. Len(sv_to_client) :
       LET rest == Unsent(n)
       IN /\ got' = got \o SubSeq(sv_to_client, 1, n)
          /\ sv_to_client' = rest
          /\ \/ rest # <<>> /\ Return(state, slot, origin)
             \/ /\ rest = <<>> /\ state = "NEGOTIATION_WRITE"
                /\ sv_to_client[n] = "no_method"
                /\ Return("SOCKS_ERROR", slot, origin)
             \/ /\ rest = <<>>
                /\ ~(state = "NEGOTIATION_WRITE" /\ sv_to_client[n] = "no_method")
                /\ ReturnWatching(After(state), ClientFd, "read", slot, origin)
  /\ UNCHANGED <<client_to_sv, current, resolver, script, sent, net, client>>

-----------------------------------------------------------------------------
(* COPY.                                                                   *)

\* With an origin: whatever module Copy does with an event, in outline.
copy ==
  /\ state = "COPY" /\ origin.fd # -1
  /\ \E fd \in {ClientFd, origin.fd}, ev \in {"read", "write"} : Event(fd, ev)
  /\ \/ \E i, j \in {"read", "write"} :
          Return("COPY", [[slot EXCEPT ![ClientFd] = i] EXCEPT ![origin.fd] = j], origin)
     \/ \E st \in Final : Return(st, slot, origin)
  /\ net' \in {net, <<>>}
  /\ UNCHANGED <<client_to_sv, sv_to_client, current, resolver, script, sent, client, got>>

\* After a failure there is none.  Only the client's end is an end: its data
\* is to be written to descriptor -1, and the slot read for it is not one of
\* the table.
copy_no_origin ==
  /\ state = "COPY" /\ origin.fd = -1
  /\ Event(ClientFd, "read") /\ CanWrite(client_to_sv)
  /\ \/ /\ client = "reset"
        /\ Return("SOCKS_ERROR", slot, origin)
     \/ /\ Hungup /\ client = "fin" /\ ~CanRead(client_to_sv)
        /\ Return("SOCKS_DONE", slot, origin)
     \/ /\ ~Hungup
        /\ process' = "wild"
        /\ UNCHANGED <<state, client_fd, origin, slot, freed>>
  /\ UNCHANGED <<client_to_sv, sv_to_client, current, resolver, user>>

-----------------------------------------------------------------------------
(* The client and the origin.                                              *)

\* The pieces of the script, and the one a client without pipelining may
\* reach with what it has received.
Pieces == 2 * Len(script)
Allowed == IF Pipelining THEN Pieces ELSE Least(Pieces, Len(got) + 2)

client_sends ==
  /\ client = "open" /\ client_fd # -1 /\ sent < Allowed
  /\ sent' = sent + 1
  /\ net' = Append(net, IF sent % 2 = 0 THEN "part" ELSE script[sent \div 2 + 1])
  /\ UNCHANGED <<conn, script, client, got>>

client_leaves ==
  /\ client = "open" /\ client' \in {"fin", "reset"}
  /\ UNCHANGED <<conn, script, sent, net, got>>

\* connect is answered, or times out.
origin_answers ==
  /\ origin.sock = "connecting"
  /\ \E answer \in {"connected", "refused"} :
       origin' = [fd |-> origin.fd, sock |-> answer, said |-> FALSE]
  /\ UNCHANGED <<state, client_fd, slot, client_to_sv, sv_to_client, current, resolver,
                 freed, process, user>>

origin_speaks ==
  /\ origin.sock = "connected" /\ ~origin.said
  /\ OriginFirst \/ state = "COPY"
  /\ origin' = [fd |-> origin.fd, sock |-> origin.sock, said |-> TRUE]
  /\ UNCHANGED <<state, client_fd, slot, client_to_sv, sv_to_client, current, resolver,
                 freed, process, user>>

-----------------------------------------------------------------------------
Server == \/ stm_abort \/ read_error \/ write_error
          \/ negotiation_read \/ authentication_read \/ request_read
          \/ request_resolve \/ (\E fd \in Fd : request_connect(fd))
          \/ reply_write \/ copy \/ copy_no_origin

Next == \/ Server \/ request_resolve_domain_name
        \/ client_sends \/ client_leaves \/ origin_answers \/ origin_speaks

Spec == Init /\ [][Next]_vars

\* The loop goes round as long as a descriptor is ready, getaddrinfo returns,
\* connect is answered or times out, and a client sends the message it has
\* begun.  Nothing obliges the client to leave or the origin to speak.
FairSpec == /\ Spec
            /\ WF_vars(Server) /\ WF_vars(request_resolve_domain_name)
            /\ WF_vars(origin_answers) /\ WF_vars(client_sends)

-----------------------------------------------------------------------------
TypeOK ==
  /\ state \in {"NEGOTIATION_READ", "NEGOTIATION_WRITE", "AUTH_READ", "AUTH_WRITE",
                "REQ_READ", "REQ_RESOLVE", "REQ_CONNECT", "REQ_WRITE", "COPY"} \cup Final
  /\ client_fd \in {-1, ClientFd}
  /\ origin \in [fd : {-1} \cup OriginFd,
                 sock : {"none", "connecting", "connected", "refused"},
                 said : BOOLEAN]
  /\ slot \in [Fd -> {"unused", "noop", "read", "write"}]
  /\ client_to_sv.q \in Seq(Messages \cup {"part"}) /\ Room(client_to_sv) >= 0
  /\ current \in 0 .. MaxAddrs
  /\ resolver \in {"idle", "running", "queued"}
  /\ freed \in {0, 1} /\ process \in {"up", "aborted", "wild"}

\* The descriptors registered are exactly those the connection holds: none
\* is leaked by the retries of request_connect, none is left behind by
\* socksv5_done, and none is used after it.
SlotsMatchConnection ==
  {fd \in Fd : slot[fd] # "unused"} = {client_fd, origin.fd} \ {-1}

\* Everything queued or sent is the replies of the three phases in their
\* order, each once: no phase is answered twice.
Answers == got \o sv_to_client
OneReplyPerPhase ==
  \E m \in {"method", "no_method"}, a \in {"granted", "denied"}, r \in {"success", "failure"} :
    \E n \in {0, 2, 4, 6} :
      Answers = SubSeq(Reply(m) \o Reply(a) \o Reply(r), 1, n)

\* A client that reads success has an origin connected behind it as long as
\* the connection lasts; one that reads failure has none, and COPY is not
\* entered without an origin otherwise.
Answered(kind) == \E i \in 1 .. Len(Answers) : Answers[i] = kind
ReplyTellsTheTruth ==
  /\ Answered("success") /\ state \notin Final => origin.sock = "connected"
  /\ Answered("failure") => origin.fd = -1
  /\ state = "COPY" /\ origin.fd = -1 => Answered("failure")

\* While a connection waits for its origin, some descriptor of it waits for
\* room to write: socks5.h, REQ_CONNECT, "Intereses: OP_WRITE".  (The comment
\* names client_fd; the code watches the origin's.)
ConnectIsWatched ==
  state = "REQ_CONNECT" => \E fd \in Fd : slot[fd] = "write"

\* No event ever meets a state without a handler for it: the abort() of
\* stm_handler_read and stm_handler_write is never reached.
NoAbort == process # "aborted"

\* authentication_parser.h, quoting RFC 1929: after a failure status the
\* server "MUST close the connection".
DeniedMeansClosed ==
  \A i \in 1 .. Len(got) : got[i] = "denied" => state \in {"AUTH_WRITE"} \cup Final

\* A client that leaves during the handshake is noticed.
LeaverNoticed ==
  (client # "open" /\ state # "COPY") ~> (state = "COPY" \/ state \in Final)

\* A client that waits for each reply before it goes on gets it, or its
\* connection is closed.
ClientAnswered ==
  \A k \in 1 .. 3 : (sent >= 2 * k) ~> (Len(got) >= 2 * k \/ freed = 1)
=============================================================================
