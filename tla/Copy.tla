-------------------------------- MODULE Copy --------------------------------
(***************************************************************************)
(* The COPY phase of one connection: server/copy.c run by the selector's   *)
(* loop (shared/selector.c, handle_iteration) over the sockets of the      *)
(* client and of the origin, until socks5.c closes both.                   *)
(*                                                                         *)
(* A byte is the number of its position in its sender's stream, so a lost, *)
(* repeated or reordered byte shows.  The kernel's side of a socket is a   *)
(* receive queue, a send queue of SndBuf bytes, FIN and RST flags and what *)
(* shutdown(2) was called with.  One thread runs the loop: pselect takes a *)
(* snapshot of the ready descriptors and the handlers then run one after   *)
(* the other, in descriptor order, while the peers go on.                  *)
(***************************************************************************)
EXTENDS ByteQueue, Integers

CONSTANTS SndBuf,  \* room in a socket's send queue
          Sends,   \* Sends[s]: how many bytes the peer s may send (a bound)
          Early    \* bytes of the client that may already be in client_to_sv
                   \* on entry

Side == {"client", "origin"}

Op == {"read", "write"}

Other(s) == CHOOSE t \in Side : t # s

ASSUME CopyAssumption ==
  /\ Capacity \in Nat \ {0} /\ SndBuf \in Nat \ {0}
  /\ Sends \in [Side -> Nat] /\ Early \subseteq 0 .. Capacity

VARIABLES
  state,     \* the stm's state: COPY, SOCKS_DONE or SOCKS_ERROR
  buf,       \* buf["client"] is client_to_sv, buf["origin"] is sv_to_client
  eof,       \* client_eof and origin_eof
  interest,  \* what the selector watches each descriptor for
  pending,   \* handlers handle_iteration has still to consider
  bytes,     \* this connection's contribution to the metric `bytes'
  arrived,   \* receive queue of each socket
  fin,       \* the peer has shut down its side; the FIN follows `arrived'
  reset,     \* the peer has reset the connection
  outgoing,  \* send queue of each socket
  shut,      \* directions on which the proxy called shutdown(2)
  sent,      \* history: bytes each peer has sent
  got,       \* history: bytes each peer has received
  first,     \* the side whose descriptor has the lower number: the client,
             \* unless another connection freed a lower one for the origin
  early      \* the bytes of Early there were

conn == <<state, buf, eof, interest, bytes, shut>>
peer == <<fin, reset, sent, got>>
entry == <<first, early>>
vars == <<conn, pending, arrived, outgoing, peer, entry>>

Stream(n) == [i \in 1 .. n |-> i]

Least(m, n) == IF m <= n THEN m ELSE n

\* request_write has just sent the last byte of the reply and asked for
\* OP_READ on the client; the origin has been on OP_READ since it connected.
\* Bytes the client sent right after its request are still in client_to_sv.
Init ==
  /\ state = "COPY"
  /\ first \in Side /\ early \in Early
  /\ buf = [s \in Side |-> IF s = "client" THEN Extend(EmptyQueue, Stream(early))
                           ELSE EmptyQueue]
  /\ sent = [s \in Side |-> IF s = "client" THEN early ELSE 0]
  /\ eof = [s \in Side |-> FALSE]
  /\ interest = [s \in Side |-> "read"]
  /\ pending = {}
  /\ bytes = 0
  /\ arrived = [s \in Side |-> <<>>]
  /\ outgoing = [s \in Side |-> <<>>]
  /\ fin = [s \in Side |-> FALSE]
  /\ reset = [s \in Side |-> FALSE]
  /\ shut = [s \in Side |-> {}]
  /\ got = [s \in Side |-> <<>>]

-----------------------------------------------------------------------------
(* The sockets, as the system calls of copy.c see them.                    *)

AtEof(s) == arrived[s] = <<>> /\ ~reset[s] /\ (fin[s] \/ "rd" \in shut[s])

Readable(s) == arrived[s] # <<>> \/ reset[s] \/ AtEof(s)

\* send fails (with EPIPE, or with the error of the reset).
Broken(s) == reset[s] \/ "wr" \in shut[s]

SendRoom(s) == SndBuf - Len(outgoing[s])

Writable(s) == Broken(s) \/ SendRoom(s) > 0

-----------------------------------------------------------------------------
(* copy_write on descriptor t, called by the selector or, from copy_read,  *)
(* on the other descriptor of the connection.  q is the buffer to drain    *)
(* and intr the interests at the time of the call.                         *)

\* Mutant: the `if (source_eof)' of both shutdowns is missing.
ShutWhenDrained_Always(t) == [shut EXCEPT ![t] = @ \cup {"wr"}]

\* shutdown(2) calls once nothing is left for t: no more will come from a
\* source at EOF, and the origin need not be written to after the client's.
ShutWhenDrained(t) ==
  [u \in Side |->
     IF \/ u = t /\ eof[Other(t)]
        \/ u = "origin" /\ t = "client" /\ eof["client"] /\ ~eof["origin"]
     THEN shut[u] \cup {"wr"} ELSE shut[u]]

\* Both streams have ended (by the flags e) and both buffers are empty.
Finished(e) == \A u \in Side : e[u] /\ ~CanRead(buf[u])

copy_write_idle(t) ==  \* nothing to send: wait for data to read instead
  /\ ~CanRead(buf[Other(t)])
  /\ interest' = [interest EXCEPT ![t] = "read"]
  /\ shut' = ShutWhenDrained(t)
  /\ state' = IF (t = "client" /\ eof["client"]) \/ Finished(eof)
              THEN "SOCKS_DONE" ELSE "COPY"
  /\ UNCHANGED <<buf, eof, bytes, outgoing>>

\* Mutant: OP_READ on the descriptor written to, drained or not.
InterestAfterSend_Undrained(t, intr, rest) == [s \in Side |-> "read"]

\* After a send to t that left `rest' in the buffer: reading resumes from
\* the source, and t is watched for room while bytes are left.  A drained
\* client keeps OP_WRITE until copy_write_idle.
InterestAfterSend(t, intr, rest) ==
  LET s == Other(t)
      resumed == IF ~eof[s] /\ CanWrite(rest)
                 THEN [intr EXCEPT ![s] = "read"] ELSE intr
  IN CASE CanRead(rest) -> [resumed EXCEPT ![t] = "write"]
       [] ~CanRead(rest) /\ t = "origin" -> [resumed EXCEPT ![t] = "read"]
       [] OTHER -> resumed

\* Mutant: `return SOCKS_DONE' without looking at what is left.
handle_write_data_Undrained(t, q, intr, n) ==
  LET rest == Consume(q, n)
  IN /\ buf' = [buf EXCEPT ![Other(t)] = rest]
     /\ interest' = InterestAfterSend(t, intr, rest)
     /\ shut' = IF CanRead(rest) THEN shut ELSE ShutWhenDrained(t)
     /\ state' = IF eof["client"] THEN "SOCKS_DONE" ELSE "COPY"

\* n > 0 bytes of q were sent.  Finished(eof) adds nothing to the test of
\* client_eof: the third condition of the code is implied by the first two.
handle_write_data(t, q, intr, n) ==
  LET rest == Consume(q, n)
  IN /\ buf' = [buf EXCEPT ![Other(t)] = rest]
     /\ interest' = InterestAfterSend(t, intr, rest)
     /\ \/ CanRead(rest) /\ UNCHANGED <<shut, state>>
        \/ /\ ~CanRead(rest)
           /\ shut' = ShutWhenDrained(t)
           /\ state' = IF eof["client"] THEN "SOCKS_DONE" ELSE "COPY"

copy_write_send(t, q, intr) ==
  /\ CanRead(q) /\ ~Broken(t) /\ SendRoom(t) > 0
  /\ LET n == Least(Len(q.q), SendRoom(t))
     IN /\ outgoing' = [outgoing EXCEPT ![t] = @ \o SubSeq(q.q, 1, n)]
        /\ bytes' = bytes + n
        /\ handle_write_data(t, q, intr, n)
  /\ UNCHANGED eof

\* send returns -1 either way, and more_bytes is told so.
copy_write_fail(t, q, intr) ==
  /\ CanRead(q) /\ (Broken(t) \/ SendRoom(t) = 0)
  /\ bytes' = bytes - 1
  /\ buf' = [buf EXCEPT ![Other(t)] = q]
  /\ interest' = intr
  /\ state' = IF Broken(t) THEN "SOCKS_ERROR" ELSE "COPY"
  /\ UNCHANGED <<eof, outgoing, shut>>

copy_write(t) ==
  /\ \/ copy_write_idle(t)
     \/ copy_write_send(t, buf[Other(t)], interest)
     \/ copy_write_fail(t, buf[Other(t)], interest)
  /\ UNCHANGED arrived

-----------------------------------------------------------------------------
(* copy_read on descriptor s.  recv cannot answer EAGAIN here: only this   *)
(* handler takes bytes from the socket, so it is still as ready as pselect *)
(* found it.                                                               *)

copy_read_full(s) ==
  /\ ~CanWrite(buf[s])
  /\ UNCHANGED <<conn, arrived, outgoing>>

copy_read_error(s) ==
  /\ CanWrite(buf[s]) /\ arrived[s] = <<>> /\ reset[s]
  /\ state' = "SOCKS_ERROR"
  /\ UNCHANGED <<buf, eof, interest, bytes, shut, arrived, outgoing>>

\* Mutant: the other side is never marked.
EofAfter_OneSide(s) == [eof EXCEPT ![s] = TRUE]

\* With nothing left to forward the other side is marked at EOF too, though
\* it has not been read to its end.
EofAfter(s) == [eof EXCEPT ![s] = TRUE, ![Other(s)] = @ \/ ~CanRead(buf[s])]

\* handle_read_data with n == 0.
copy_read_eof(s) ==
  /\ CanWrite(buf[s]) /\ AtEof(s)
  /\ eof' = EofAfter(s)
  /\ shut' = [u \in Side |-> CASE u = s -> shut[u] \cup {"rd"}
                              [] u # s /\ eof'[u] # eof[u] -> shut[u] \cup {"wr"}
                              [] OTHER -> shut[u]]
  /\ state' = IF Finished(EofAfter(s)) THEN "SOCKS_DONE" ELSE "COPY"
  /\ UNCHANGED <<buf, interest, bytes, arrived, outgoing>>

\* handle_read_data with n > 0: forward at once unless the target is at EOF.
copy_read_data(s) ==
  /\ CanWrite(buf[s]) /\ arrived[s] # <<>>
  /\ LET t == Other(s)
         n == Least(Len(arrived[s]), Room(buf[s]))
         q == Extend(buf[s], SubSeq(arrived[s], 1, n))
         intr == [interest EXCEPT ![t] = "write"]
     IN /\ arrived' = [arrived EXCEPT ![s] = SubSeq(@, n + 1, Len(@))]
        /\ \/ /\ eof[t]
              /\ buf' = [buf EXCEPT ![s] = q]
              /\ UNCHANGED <<state, eof, interest, bytes, shut, outgoing>>
           \/ /\ ~eof[t]
              /\ \/ copy_write_send(t, q, intr)
                 \/ copy_write_fail(t, q, intr)

copy_read(s) == \/ copy_read_full(s)
                \/ copy_read_error(s)
                \/ copy_read_eof(s)
                \/ copy_read_data(s)

-----------------------------------------------------------------------------
(* The event loop.                                                         *)

Ready(s, op) == /\ interest[s] = op
                /\ IF op = "read" THEN Readable(s) ELSE Writable(s)

\* Handlers run by ascending descriptor, for each one read before write.
Before(d, e) == \/ d[1] = first /\ e[1] # first
                \/ d[1] = e[1] /\ d[2] = "read" /\ e[2] = "write"

\* pselect returns with the descriptors that are ready at that moment.
selector_select ==
  /\ state = "COPY" /\ pending = {}
  /\ pending' = {d \in Side \X Op : Ready(d[1], d[2])}
  /\ pending' # {}
  /\ UNCHANGED <<conn, arrived, outgoing, peer, entry>>

\* socks5.c closes both descriptors on SOCKS_DONE and SOCKS_ERROR, so
\* nothing is left to dispatch.
Dispatched(d) == pending' = IF state' = "COPY" THEN pending \ {d} ELSE {}

\* handle_iteration: the interest may have changed since the snapshot.
handle_iteration ==
  /\ \E d \in pending :
       /\ \A e \in pending \ {d} : Before(d, e)
       /\ \/ d[2] = "read"  /\ interest[d[1]] = "read"  /\ copy_read(d[1])
          \/ d[2] = "write" /\ interest[d[1]] = "write" /\ copy_write(d[1])
          \/ interest[d[1]] # d[2] /\ UNCHANGED <<conn, arrived, outgoing>>
       /\ Dispatched(d)
  /\ UNCHANGED <<peer, entry>>

-----------------------------------------------------------------------------
(* The peers.  After the proxy has closed a socket only what is in its     *)
(* send queue still travels.                                               *)

PeerSends(s) ==
  /\ state = "COPY" /\ sent[s] < Sends[s] /\ ~fin[s] /\ ~reset[s]
  /\ sent' = [sent EXCEPT ![s] = @ + 1]
  /\ arrived' = [arrived EXCEPT ![s] = Append(@, sent[s] + 1)]
  /\ UNCHANGED <<conn, pending, outgoing, fin, reset, got, entry>>

PeerFinishes(s) ==
  /\ state = "COPY" /\ ~fin[s] /\ ~reset[s]
  /\ fin' = [fin EXCEPT ![s] = TRUE]
  /\ UNCHANGED <<conn, pending, arrived, outgoing, reset, sent, got, entry>>

\* The kernel drops the send queue on RST and keeps the receive queue.
PeerResets(s) ==
  /\ state = "COPY" /\ ~reset[s]
  /\ reset' = [reset EXCEPT ![s] = TRUE]
  /\ outgoing' = [outgoing EXCEPT ![s] = <<>>]
  /\ UNCHANGED <<conn, pending, arrived, fin, sent, got, entry>>

PeerReads(s) ==
  /\ outgoing[s] # <<>>
  /\ got' = [got EXCEPT ![s] = @ \o outgoing[s]]
  /\ outgoing' = [outgoing EXCEPT ![s] = <<>>]
  /\ UNCHANGED <<conn, pending, arrived, fin, reset, sent, entry>>

Next == \/ selector_select
        \/ handle_iteration
        \/ \E s \in Side : \/ PeerSends(s) \/ PeerFinishes(s)
                            \/ PeerResets(s) \/ PeerReads(s)

Spec == Init /\ [][Next]_vars

\* The server's single thread keeps running its loop, and a peer keeps
\* reading what it is sent.  Peers need not send, finish or reset.
Fairness == /\ WF_vars(selector_select) /\ WF_vars(handle_iteration)
            /\ \A s \in Side : WF_vars(PeerReads(s))

FairSpec == Spec /\ Fairness

-----------------------------------------------------------------------------
TypeOK ==
  /\ state \in {"COPY", "SOCKS_DONE", "SOCKS_ERROR"}
  /\ buf \in [Side -> [q : Seq(Nat), gap : 0 .. Capacity]]
  /\ eof \in [Side -> BOOLEAN] /\ fin \in [Side -> BOOLEAN]
  /\ reset \in [Side -> BOOLEAN]
  /\ interest \in [Side -> {"read", "write"}]
  /\ shut \in [Side -> SUBSET {"rd", "wr"}]
  /\ pending \in SUBSET (Side \X Op)
  /\ bytes \in Int
  /\ \A s \in Side : Room(buf[s]) >= 0 /\ SendRoom(s) >= 0

\* Each peer's bytes reach the other in order, once, and while the
\* connection lasts none is missing on the way: what the other has got,
\* what is in its socket, the buffer and the sender's socket make up the
\* stream.  What a reset or the end of the connection cuts off is a tail.
StreamIntegrity ==
  \A s \in Side :
    LET t == Other(s)
        given == got[t] \o outgoing[t]
    IN /\ Len(given) <= sent[s] /\ given = Stream(Len(given))
       /\ state = "COPY" /\ ~reset[t] =>
            given \o buf[s].q \o arrived[s] = Stream(sent[s])

\* Bytes waiting in a buffer have the selector watch their target for room:
\* no handler of copy.c leaves data behind without the interest that will
\* forward it.  Early data is the exception: nobody asks for OP_WRITE on the
\* origin until the client is read again.
BufferedIsWatched ==
  early = 0 =>
    \A s \in Side : state = "COPY" /\ CanRead(buf[s]) /\ ~eof[Other(s)]
                    => interest[Other(s)] = "write"

\* No data of the client is left in client_to_sv once the origin counts as
\* ended: it would never be forwarded, so copy.c would never see both
\* buffers empty and would serve the always readable sockets for ever.
NeverWedged ==
  early = 0 => ~(state = "COPY" /\ eof["origin"] /\ CanRead(buf["client"]))

\* The proxy never sends on a socket it has shut down, and so a connection
\* ends in SOCKS_ERROR only because a peer reset it.
ErrorOnlyOnReset == state = "SOCKS_ERROR" => \E s \in Side : reset[s]

\* A connection that ends normally has forwarded all that a side sent,
\* unless the receiving side had itself finished.  (When it had, copy.c
\* drops the rest: the two directions are not closed independently.)
NothingDroppedAtDone ==
  state = "SOCKS_DONE" =>
    \A s \in Side : ~fin[Other(s)] => ~CanRead(buf[s]) /\ arrived[s] = <<>>

\* The end of either side's stream ends the connection (of either one: the
\* proxy does not keep a half-closed connection open for an answer).
EventuallyCloses == (\E s \in Side : fin[s]) ~> state # "COPY"

\* The bytes a peer sends during the phase are forwarded or the connection
\* ends: the two interests of a connection never wait for each other.
Forwarded ==
  \A s \in Side : \A n \in 1 .. Sends[s] :
    (state = "COPY" /\ sent[s] >= n)
      ~> (state # "COPY" \/ Len(got[Other(s)]) >= n)

\* Without resets, and if the receiver does not finish first, everything a
\* side sends arrives, a FIN behind it included.
StreamDelivered ==
  \A s \in Side :
    [](~fin[Other(s)] /\ \A u \in Side : ~reset[u]) =>
      \A n \in 1 .. Sends[s] :
        (sent[s] >= n) ~> (Len(got[Other(s)]) >= n)
=============================================================================
