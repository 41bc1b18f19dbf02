------------------------------- MODULE Server -------------------------------
(***************************************************************************)
(* Several connections of server/socks5.c over one selector: how they share *)
(* the descriptor numbers, the snapshot of one pselect, the resolver's jobs *)
(* and the counter of metrics.c.                                           *)
(*                                                                         *)
(* The loop is the only thread that runs handlers, so one run of a handler *)
(* is one step.  The table is Selector's with what is proved of it there:  *)
(* the fd_sets are the interests of the slots, and max_fd leaves none out. *)
(* What one connection says and counts is Socks5's and Copy's; here its    *)
(* handshake is one state, and a connect is never answered at once.        *)
(***************************************************************************)
EXTENDS Integers, FiniteSets

CONSTANTS MaxSize,  \* ITEMS_MAX_SIZE
          Conn      \* the client_data that fit in memory at once (a bound)

ASSUME ServerAssumption == MaxSize \in Nat \ {0} /\ "passive" \notin Conn

Fd == 0 .. MaxSize - 1
Passive == 0  \* the listening socket of main.c
NoFd == -1

VARIABLES
  slot,          \* slot[fd]: the data and the interest of the item
  conn,          \* conn[c]: the client_data, and what has become of its connect
  cConnections,  \* metrics.c
  pending,       \* what the iteration has not yet looked at of its snapshot
  jobs,          \* resolutions, running or queued for the selector
  process        \* "up" or "aborted"

vars == <<slot, conn, cConnections, pending, jobs, process>>

Unused == [data |-> "none", interest |-> {}]
Free == [state |-> "free", client_fd |-> NoFd, origin_fd |-> NoFd, sock |-> "none"]

Final == {"SOCKS_DONE", "SOCKS_ERROR"}

\* main.c registers the listening socket.
Init ==
  /\ slot = [fd \in Fd |-> IF fd = Passive THEN [data |-> "passive", interest |-> {"read"}]
                           ELSE Unused]
  /\ conn = [c \in Conn |-> Free]
  /\ cConnections = 0
  /\ pending = {} /\ jobs = {} /\ process = "up"

\* accept and socket return the lowest number that is free.
LowestFree(table) ==
  CHOOSE fd \in 0 .. MaxSize :
    /\ fd \in Fd => table[fd] = Unused
    /\ \A e \in 0 .. fd - 1 : table[e] # Unused

-----------------------------------------------------------------------------
(* The end of a handler: table and d are what it made of the slots and of  *)
(* the client_data.                                                        *)

Descriptors(d) == {d.client_fd, d.origin_fd} \ {NoFd}

\* Mutant: each socksv5_close counts.
Closings_Each(d) == Cardinality(Descriptors(d))

\* Only the socksv5_close that finds both descriptors gone counts.
Closings(d) == 1

\* socksv5_done: both descriptors are unregistered and closed, the last one
\* frees the connection.  One that is not registered ends in abort().
socksv5_done(c, table, d) ==
  /\ process' = IF \E fd \in Descriptors(d) : table[fd] = Unused THEN "aborted" ELSE "up"
  /\ slot' = [fd \in Fd |-> IF fd \in Descriptors(d) THEN Unused ELSE table[fd]]
  /\ conn' = [conn EXCEPT ![c] = Free]
  /\ cConnections' = cConnections - Closings(d)

Return(c, next, table, d) ==
  \/ /\ next \notin Final
     /\ slot' = table
     /\ conn' = [conn EXCEPT ![c] = [d EXCEPT !.state = next]]
     /\ UNCHANGED <<cConnections, process>>
  \/ next \in Final /\ socksv5_done(c, table, d)

\* selector_set_interest_key before a return: SOCKS_ERROR if it fails.
ReturnWatching(c, next, fd, i, table, d) ==
  IF table[fd] = Unused THEN Return(c, "SOCKS_ERROR", table, d)
  ELSE Return(c, next, [table EXCEPT ![fd].interest = i], d)

\* req_generate_response_error
Fail(c, fd, table, d) == ReturnWatching(c, "REQ_WRITE", fd, {"write"}, table, d)

-----------------------------------------------------------------------------
(* The handlers of the connection c, for an event of descriptor fd.        *)

\* Mutant: counted before it is registered.
Accepted_Early(fd) == cConnections' = cConnections + 1

\* more_connections, if the number fits the table.
Accepted(fd) == cConnections' = cConnections + (IF fd \in Fd THEN 1 ELSE 0)

socks_v5_passive_accept ==
  LET fd == LowestFree(slot)
  IN /\ Accepted(fd)
     /\ \/ /\ fd \notin Fd  \* the registration fails: closed again
           /\ UNCHANGED <<slot, conn>>
        \/ /\ fd \in Fd
           /\ \E c \in Conn :
                /\ conn[c] = Free
                /\ slot' = [slot EXCEPT ![fd] = [data |-> c, interest |-> {"read"}]]
                /\ conn' = [conn EXCEPT ![c] = [state |-> "HANDSHAKE", client_fd |-> fd,
                                                origin_fd |-> NoFd, sock |-> "none"]]
     /\ UNCHANGED <<jobs, process>>

\* Mutant: the previous socket is closed and not unregistered.
OriginClosed_Registered(c) == slot

\* The slots and the connection once the previous socket is closed.
OriginClosed(c) ==
  [fd \in Fd |-> IF fd = conn[c].origin_fd THEN Unused ELSE slot[fd]]
WithoutOrigin(c) == [conn[c] EXCEPT !.origin_fd = NoFd, !.sock = "none"]

\* Every address may fail at once; with no number left all of them do.
initiate_origin_connection(c, fd) ==
  LET table == OriginClosed(c)
      new == LowestFree(table)
  IN \/ Fail(c, fd, table, WithoutOrigin(c))
     \/ /\ new \in Fd
        /\ ReturnWatching(c, "REQ_CONNECT", fd, {},
                          [table EXCEPT ![new] = [data |-> c, interest |-> {"write"}]],
                          [conn[c] EXCEPT !.origin_fd = new, !.sock = "connecting"])

\* NEGOTIATION_READ to REQ_READ: replies are written in turn, and only the
\* last read can complete a request.
handshake(c, fd, ev) ==
  /\ conn[c].state = "HANDSHAKE"
  /\ \/ /\ \/ \E i \in {{"read"}, {"write"}} :
                ReturnWatching(c, "HANDSHAKE", fd, i, slot, conn[c])
           \/ Return(c, "SOCKS_ERROR", slot, conn[c])
        /\ UNCHANGED jobs
     \/ /\ ev = "read"
        /\ Fail(c, fd, slot, conn[c]) \/ initiate_origin_connection(c, fd)
        /\ UNCHANGED jobs
     \/ /\ ev = "read"
        /\ jobs' = jobs \cup {[fd |-> fd, data |-> c, queued |-> FALSE]}
        /\ ReturnWatching(c, "REQ_RESOLVE", fd, {}, slot, conn[c])

\* SO_ERROR tells a refused connect from one that is made, but not from one
\* that is still under way.
request_connect(c, fd, ev) ==
  /\ conn[c].state = "REQ_CONNECT" /\ ev = "write"
  /\ \/ /\ conn[c].sock # "refused"
        /\ Return(c, "REQ_WRITE",
                  [[slot EXCEPT ![conn[c].client_fd].interest = {"write"}]
                        EXCEPT ![conn[c].origin_fd].interest = {"read"}],
                  conn[c])
     \/ /\ conn[c].sock = "refused"
        /\ \/ Fail(c, fd, OriginClosed(c), WithoutOrigin(c))
           \/ initiate_origin_connection(c, fd)
  /\ UNCHANGED jobs

request_write(c, fd, ev) ==
  /\ conn[c].state = "REQ_WRITE" /\ ev = "write"
  /\ \/ Return(c, "REQ_WRITE", slot, conn[c])
     \/ ReturnWatching(c, "COPY", fd, {"read"}, slot, conn[c])
     \/ Return(c, "SOCKS_ERROR", slot, conn[c])
  /\ UNCHANGED jobs

\* copy_read and copy_write change the interests of both ends.  Without an
\* origin only the client's end is looked at here.
copy(c, fd) ==
  /\ conn[c].state = "COPY"
  /\ \/ /\ conn[c].origin_fd # NoFd
        /\ \E i, j \in {{"read"}, {"write"}} :
             Return(c, "COPY", [[slot EXCEPT ![conn[c].client_fd].interest = i]
                                     EXCEPT ![conn[c].origin_fd].interest = j], conn[c])
     \/ \E st \in Final : Return(c, st, slot, conn[c])
  /\ UNCHANGED jobs

\* The states that have a handler for each event.
Handles(ev) == {"HANDSHAKE", "COPY"} \cup
               (IF ev = "write" THEN {"REQ_CONNECT", "REQ_WRITE"} ELSE {})

\* The stm aborts in a state without the handler.
stm_handler(c, fd, ev) ==
  \/ handshake(c, fd, ev) \/ request_connect(c, fd, ev) \/ request_write(c, fd, ev)
  \/ copy(c, fd)
  \/ /\ conn[c].state \notin Handles(ev)
     /\ process' = "aborted"
     /\ UNCHANGED <<slot, conn, cConnections, jobs>>

-----------------------------------------------------------------------------
(* The loop.                                                               *)

\* A client may always be ready, an origin once its connect is answered; a
\* client waits to be accepted as long as there is memory for it.
MayBeReady(fd) ==
  \/ fd = Passive /\ \E c \in Conn : conn[c] = Free
  \/ \E c \in Conn : slot[fd].data = c /\ (fd = conn[c].origin_fd =>
                                           conn[c].sock \in {"connected", "refused"})

\* What is ready without anybody's doing: the room to write of a socket
\* whose connect has been answered.
Answered(c) == conn[c].state = "REQ_CONNECT" /\ conn[c].sock \in {"connected", "refused"}
MustBeReady(fd) == \E c \in Conn : Answered(c) /\ fd = conn[c].origin_fd

Due(e) == e[2] \in slot[e[1]].interest

Place(e) == 2 * e[1] + (IF e[2] = "read" THEN 0 ELSE 1)

Watched == {e \in Fd \X {"read", "write"} : Due(e)}
Certain == {e \in Watched : MustBeReady(e[1])}

select_ready ==
  /\ \A e \in pending : ~Due(e)
  /\ \E ready \in SUBSET {e \in Watched : MayBeReady(e[1])} : pending' = ready \cup Certain
  /\ UNCHANGED <<slot, conn, cConnections, jobs, process>>

\* Mutant: the loop returns to pselect after its first handler.
Later_None(e) == {}

Later(e) == {f \in pending : Place(f) > Place(e)}

\* The next event of the snapshot whose slot still has the interest.
handle_iteration ==
  \E e \in pending :
    /\ Due(e) /\ \A f \in pending : Place(f) < Place(e) => ~Due(f)
    /\ pending' = Later(e)
    /\ \/ e[1] = Passive /\ socks_v5_passive_accept
       \/ e[1] # Passive /\ stm_handler(slot[e[1]].data, e[1], e[2])

\* Mutant: resolution_jobs is not reset after the walk.
JobsAfter_Kept(j) == jobs

JobsAfter(j) == jobs \ {j}

\* A queued job goes to whoever its descriptor belongs to by then.
handle_block_notifications ==
  /\ \A e \in pending : ~Due(e)
  /\ pending' = {}
  /\ \E j \in jobs :
       /\ j.queued
       /\ jobs' = JobsAfter(j)
       /\ \/ /\ slot[j.fd] = Unused  \* dropped
             /\ UNCHANGED <<slot, conn, cConnections, process>>
          \/ \E c \in Conn :
               /\ slot[j.fd].data = c /\ conn[c].state = "REQ_RESOLVE"
               /\ initiate_origin_connection(c, j.fd)
          \/ /\ \E c \in Conn : slot[j.fd].data = c /\ conn[c].state # "REQ_RESOLVE"
             /\ process' = "aborted"
             /\ UNCHANGED <<slot, conn, cConnections>>

\* A resolver thread writes the list to its connection and queues the job.
request_resolve_domain_name ==
  /\ \E j \in jobs : /\ ~j.queued
                     /\ jobs' = (jobs \ {j}) \cup {[j EXCEPT !.queued = TRUE]}
  /\ UNCHANGED <<slot, conn, cConnections, pending, process>>

\* A connect is answered.
origin_answers ==
  /\ \E c \in Conn, answer \in {"connected", "refused"} :
       /\ conn[c].sock = "connecting"
       /\ conn' = [conn EXCEPT ![c].sock = answer]
  /\ UNCHANGED <<slot, cConnections, pending, jobs, process>>

Next ==
  /\ process = "up"
  /\ \/ select_ready \/ handle_iteration \/ handle_block_notifications
     \/ request_resolve_domain_name \/ origin_answers

Spec == Init /\ [][Next]_vars

\* The loop goes on: handlers return, and pselect does when something is
\* ready.  Nobody is obliged to connect, to speak or to answer.
FairSpec == /\ Spec
            /\ WF_vars(process = "up" /\ handle_iteration)
            /\ WF_vars(process = "up" /\ Certain # {} /\ select_ready)

-----------------------------------------------------------------------------
Live == {c \in Conn : conn[c] # Free}

TypeOK ==
  /\ slot \in [Fd -> [data : Conn \cup {"none", "passive"},
                      interest : SUBSET {"read", "write"}]]
  /\ conn \in [Conn -> [state : {"free", "HANDSHAKE", "REQ_RESOLVE", "REQ_CONNECT",
                                 "REQ_WRITE", "COPY"},
                        client_fd : {NoFd} \cup Fd, origin_fd : {NoFd} \cup Fd,
                        sock : {"none", "connecting", "connected", "refused"}]]
  /\ cConnections \in Nat
  /\ pending \subseteq Fd \X {"read", "write"}
  /\ jobs \subseteq [fd : Fd, data : Conn, queued : BOOLEAN]
  /\ process \in {"up", "aborted"}

\* A number belongs to one connection, and its slot leads to that one's
\* client_data: through closings, retries and numbers used again within one
\* iteration, none is shared, leaked or left pointing to freed memory.
SlotsOwned ==
  \A fd \in Fd \ {Passive} :
    {c \in Conn : fd \in Descriptors(conn[c])} = {slot[fd].data} \ {"none"}

\* The current connections the manager is told of are those there are.
ConnectionsCounted == cConnections = Cardinality(Live)

\* While a name is resolved its connection stays where the thread will write
\* and keeps the descriptor the thread will notify: neither is freed, closed
\* or given to another connection.  (Selector assumes it in CallUnregister.)
JobsReachTheirConnection ==
  \A j \in jobs : /\ conn[j.data].state = "REQ_RESOLVE"
                  /\ conn[j.data].client_fd = j.fd /\ slot[j.fd].data = j.data

\* However busy the other connections keep the loop, a connect that has been
\* answered is seen to, if its socket is watched at all: nobody with a lower
\* number comes between it and the end of every iteration.
Awaiting(c) == Answered(c) /\ "write" \in slot[conn[c].origin_fd].interest
ConnectsAreServed ==
  \A c \in Conn : Awaiting(c) ~> (~Awaiting(c) \/ process = "aborted")

\* socks5.h, REQ_CONNECT: "REQ_WRITE cuando la conexion fue establecida".
EstablishedIsConnected ==
  \A c \in Conn :
    conn[c].state = "REQ_WRITE" /\ conn[c].origin_fd # NoFd => conn[c].sock # "connecting"
=============================================================================
