---------------------------- MODULE Socks5Proofs ----------------------------
(***************************************************************************)
(* Socks5, for any scripts, buffer size, number of addresses and           *)
(* descriptors: the descriptors registered are those the connection holds, *)
(* it is freed once, and, when no connect succeeds at once, every phase is *)
(* answered once and truthfully.                                           *)
(***************************************************************************)
EXTENDS Socks5, TLAPS, SequenceTheorems

States == {"NEGOTIATION_READ", "NEGOTIATION_WRITE", "AUTH_READ", "AUTH_WRITE",
           "REQ_READ", "REQ_RESOLVE", "REQ_CONNECT", "REQ_WRITE", "COPY"} \cup Final
Interest == {"unused", "noop", "read", "write"}
Origin == [fd : {-1} \cup OriginFd, sock : {"none", "connecting", "connected", "refused"},
           said : BOOLEAN]
Piece == Messages \cup {"part"}

\* table is what a connection that holds the client and org registers.
Registers(table, org) ==
  /\ table \in [Fd -> Interest] /\ org \in Origin
  /\ {fd \in Fd : table[fd] # "unused"} = {ClientFd, org.fd} \ {-1}

\* A connection in a final state holds nothing and was freed once; in any
\* other it holds the client and was not.
Held ==
  /\ state \in States /\ slot \in [Fd -> Interest] /\ origin \in Origin
  /\ process \in {"up", "aborted", "wild"}
  /\ \/ /\ state \notin Final /\ client_fd = ClientFd /\ freed = 0
        /\ Registers(slot, origin)
     \/ /\ state \in Final /\ client_fd = -1 /\ freed = 1 /\ origin = NoOrigin
        /\ {fd \in Fd : slot[fd] # "unused"} = {}

Counted == current \in 0 .. MaxAddrs /\ resolver \in {"idle", "running", "queued"}

Received ==
  /\ client_to_sv \in [q : Seq(Piece), gap : Nat] /\ Room(client_to_sv) >= 0
  /\ net \in Seq(Piece) /\ script \in Seq(Messages) /\ sent \in Nat

CInv == Held /\ Counted /\ Received

-----------------------------------------------------------------------------
(* What handlers return keeps Held.                                        *)

LEMMA Descriptors == ClientFd \in Fd /\ OriginFd \subseteq Fd /\ -1 \notin Fd
                     /\ \A fd \in OriginFd : fd # ClientFd
  BY Socks5Assumption DEF Fd, ClientFd

LEMMA HeldOpen ==
  ASSUME Held, NEW fd \in Fd, slot[fd] # "unused"
  PROVE  /\ state \in States \ Final /\ client_fd = ClientFd /\ freed = 0
         /\ Registers(slot, origin)
  BY DEF Held

LEMMA EventOpen ==
  ASSUME Held, NEW fd \in Fd, NEW ev \in {"read", "write"}, Event(fd, ev)
  PROVE  /\ state \in States \ Final /\ client_fd = ClientFd /\ freed = 0
         /\ Registers(slot, origin) /\ process = "up"
  BY HeldOpen DEF Event

LEMMA ReturnHeld ==
  ASSUME client_fd = ClientFd, freed = 0, process = "up",
         NEW next \in States, NEW table, NEW org, Registers(table, org),
         Return(next, table, org)
  PROVE  /\ Held' /\ state' = next
         /\ next \notin Final => slot' = table /\ origin' = org
<1>1. CASE next \notin Final
  BY <1>1 DEF Return, Held, Registers
<1>2. CASE next \in Final
  <2>1. socksv5_done(table, org) /\ state' = next
    BY <1>2 DEF Return
  <2>2. \A fd \in {ClientFd, org.fd} \ {-1} : fd \in Fd /\ table[fd] # "unused"
    BY DEF Registers
  <2>3. /\ process' = "up" /\ client_fd' = -1 /\ origin' = NoOrigin /\ freed' = 1
        /\ slot' = [fd \in Fd |-> IF fd \in {ClientFd, org.fd} \ {-1} THEN "unused"
                                  ELSE table[fd]]
    BY <2>1, <2>2 DEF socksv5_done
  <2>4. \A fd \in Fd : slot'[fd] = "unused"
    BY <2>3 DEF Registers
  <2>5. slot' \in [Fd -> Interest] /\ NoOrigin \in Origin
    BY <2>3, <2>4 DEF Interest, NoOrigin, Origin, Registers
  <2>. QED
    BY <1>2, <2>1, <2>3, <2>4, <2>5 DEF Held
<1>. QED
  BY <1>1, <1>2

LEMMA ReturnWatchingHeld ==
  ASSUME client_fd = ClientFd, freed = 0, process = "up",
         NEW next \in States, NEW fd \in Fd, NEW i \in {"noop", "read", "write"},
         NEW table, NEW org, Registers(table, org),
         ReturnWatching(next, fd, i, table, org)
  PROVE  /\ Held' /\ state' \in {next, "SOCKS_ERROR"}
         /\ state' = next /\ next \notin Final =>
              /\ table[fd] # "unused" /\ origin' = org
              /\ slot' = [table EXCEPT ![fd] = i]
         /\ table[fd] # "unused" => state' = next
<1>1. CASE table[fd] = "unused"
  BY <1>1, ReturnHeld DEF ReturnWatching, States, Final
<1>2. CASE table[fd] # "unused"
  <2>1. Registers([table EXCEPT ![fd] = i], org)
    BY <1>2 DEF Registers, Interest
  <2>. QED
    BY <1>2, <2>1, ReturnHeld DEF ReturnWatching
<1>. QED
  BY <1>1, <1>2

LEMMA ErrorHeld ==
  ASSUME client_fd = ClientFd, freed = 0, process = "up", NEW fd \in Fd,
         NEW table, NEW org, Registers(table, org),
         req_generate_response_error(fd, table, org)
  PROVE  /\ Held' /\ state' \in {"REQ_WRITE", "SOCKS_ERROR"}
         /\ state' = "REQ_WRITE" => Respond("failure") /\ origin' = org
         /\ state' = "SOCKS_ERROR" => UNCHANGED sv_to_client
<1>1. /\ ReturnWatching("REQ_WRITE", fd, "write", table, org)
      /\ IF table[fd] = "unused" THEN UNCHANGED sv_to_client ELSE Respond("failure")
  BY DEF req_generate_response_error
<1>2. "REQ_WRITE" \in States \ Final
  BY DEF States, Final
<1>. QED
  BY <1>1, <1>2, ReturnWatchingHeld

-----------------------------------------------------------------------------
(* Connecting to the origin.                                               *)

LEMMA ClosedRegisters ==
  ASSUME Registers(slot, origin)
  PROVE  Registers(OriginClosed, NoOrigin)
  BY Descriptors DEF Registers, OriginClosed, NoOrigin, Origin, Interest

\* A new socket, not yet in the table, is the connection's only one.
LEMMA NewRegisters ==
  ASSUME NEW table, Registers(table, NoOrigin), NEW new \in OriginFd,
         NEW i \in {"noop", "read", "write"},
         NEW sock \in {"none", "connecting", "connected", "refused"}
  PROVE  Registers([table EXCEPT ![new] = i], [fd |-> new, sock |-> sock, said |-> FALSE])
  BY Descriptors DEF Registers, NoOrigin, Origin, Interest

LEMMA ConnectingHeld ==
  ASSUME client_fd = ClientFd, freed = 0, process = "up", NEW fd \in Fd,
         NEW m \in 1 .. MaxAddrs, NEW table, Registers(table, NoOrigin),
         Connecting(fd, m, table)
  PROVE  /\ Held' /\ state' \in {"REQ_CONNECT", "SOCKS_ERROR"} /\ current' = m
         /\ "ok" \notin ConnectResults =>
              /\ UNCHANGED sv_to_client
              /\ state' = "REQ_CONNECT" =>
                   /\ origin'.sock = "connecting" /\ origin'.fd # -1
                   /\ slot'[ClientFd] = IF fd = ClientFd THEN "noop" ELSE table[ClientFd]
<1>1. PICK new \in OriginFd, result \in ConnectResults \ {"error"} :
        /\ table[new] = "unused" /\ current' = m
        /\ \/ /\ result = "ok"
              /\ Respond("success")
              /\ IF table[fd] = "unused" /\ fd # new
                 THEN Return("SOCKS_ERROR", [table EXCEPT ![new] = "noop"],
                             [fd |-> new, sock |-> "connected", said |-> FALSE])
                 ELSE Return("REQ_CONNECT",
                             [[table EXCEPT ![fd] = "write"] EXCEPT ![new] = "read"],
                             [fd |-> new, sock |-> "connected", said |-> FALSE])
           \/ /\ result = "inprogress"
              /\ UNCHANGED sv_to_client
              /\ ReturnWatching("REQ_CONNECT", fd, "noop", AwaitConnect(table, new),
                                [fd |-> new, sock |-> "connecting", said |-> FALSE])
  BY Zenon DEF Connecting
<1>2. {"REQ_CONNECT", "SOCKS_ERROR"} \subseteq States /\ "REQ_CONNECT" \notin Final
  BY DEF States, Final
<1>3. CASE result = "ok"
  <2>1. CASE table[fd] = "unused" /\ fd # new
    <3>1. Return("SOCKS_ERROR", [table EXCEPT ![new] = "noop"],
                 [fd |-> new, sock |-> "connected", said |-> FALSE])
      BY <1>1, <1>3, <2>1
    <3>2. Registers([table EXCEPT ![new] = "noop"],
                    [fd |-> new, sock |-> "connected", said |-> FALSE])
      BY NewRegisters
    <3>. QED
      BY <1>1, <1>2, <1>3, <3>1, <3>2, ReturnHeld
  <2>2. CASE ~(table[fd] = "unused" /\ fd # new)
    <3>1. Return("REQ_CONNECT", [[table EXCEPT ![fd] = "write"] EXCEPT ![new] = "read"],
                 [fd |-> new, sock |-> "connected", said |-> FALSE])
      BY <1>1, <1>3, <2>2
    <3>2. Registers([[table EXCEPT ![fd] = "write"] EXCEPT ![new] = "read"],
                    [fd |-> new, sock |-> "connected", said |-> FALSE])
      BY <2>2, Descriptors DEF Registers, NoOrigin, Origin, Interest
    <3>. QED
      BY <1>1, <1>2, <1>3, <3>1, <3>2, ReturnHeld
  <2>. QED
    BY <2>1, <2>2
<1>4. CASE result = "inprogress"
  <2>. DEFINE org == [fd |-> new, sock |-> "connecting", said |-> FALSE]
              t == AwaitConnect(table, new)
  <2>1. Registers(t, org)
    BY NewRegisters DEF AwaitConnect
  <2>2. ReturnWatching("REQ_CONNECT", fd, "noop", t, org)
    BY <1>1, <1>4
  <2>3. org.sock = "connecting" /\ org.fd # -1 /\ t[ClientFd] = table[ClientFd] /\ t \in [Fd -> Interest]
    BY Descriptors DEF AwaitConnect, Registers, Interest
  <2>. HIDE DEF org, t
  <2>4. /\ Held' /\ state' \in {"REQ_CONNECT", "SOCKS_ERROR"}
        /\ state' = "REQ_CONNECT" =>
              origin' = org /\ slot' = [t EXCEPT ![fd] = "noop"]
    BY <1>2, <2>1, <2>2, ReturnWatchingHeld
  <2>5. state' = "REQ_CONNECT" =>
          slot'[ClientFd] = IF fd = ClientFd THEN "noop" ELSE table[ClientFd]
    BY <2>3, <2>4, Descriptors
  <2>. QED
    BY <1>1, <1>4, <2>3, <2>4, <2>5
<1>. QED
  BY <1>1, <1>3, <1>4

LEMMA InitiateHeld ==
  ASSUME client_fd = ClientFd, freed = 0, process = "up", Registers(slot, origin),
         NEW fd \in Fd, NEW addrs \in 0 .. MaxAddrs, initiate_origin_connection(fd, addrs)
  PROVE  /\ Held' /\ current' \in 0 .. MaxAddrs
         /\ state' \in {"REQ_WRITE", "REQ_CONNECT", "SOCKS_ERROR"}
         /\ state' = "REQ_WRITE" => Respond("failure") /\ origin' = NoOrigin
         /\ "ok" \notin ConnectResults /\ state' # "REQ_WRITE" =>
              /\ UNCHANGED sv_to_client
              /\ state' = "REQ_CONNECT" =>
                   /\ origin'.sock = "connecting" /\ origin'.fd # -1
                   /\ slot'[ClientFd] = IF fd = ClientFd THEN "noop" ELSE slot[ClientFd]
<1>1. Registers(OriginClosed, NoOrigin) /\ OriginClosed[ClientFd] = slot[ClientFd]
  BY ClosedRegisters, Descriptors DEF OriginClosed, Registers, Origin
<1>2. CASE current' = 0 /\ req_generate_response_error(fd, OriginClosed, NoOrigin)
  BY <1>1, <1>2, ErrorHeld, Socks5Assumption
<1>3. CASE \E m \in 1 .. addrs : Connecting(fd, m, OriginClosed)
  <2>1. PICK m \in 1 .. MaxAddrs : Connecting(fd, m, OriginClosed)
    BY <1>3, Socks5Assumption
  <2>. QED
    BY <1>1, <2>1, ConnectingHeld
<1>. QED
  BY <1>2, <1>3, Zenon DEF initiate_origin_connection

-----------------------------------------------------------------------------
(* The replies.                                                            *)

Word == {"part", "method", "no_method", "granted", "denied", "success", "failure"}

\* What the i-th piece of the answers may be.
Kind(i) == CASE i = 2 -> {"method", "no_method"}
             [] i = 4 -> {"granted", "denied"}
             [] i = 6 -> {"success", "failure"}
             [] OTHER -> {"part"}

InOrder == /\ got \in Seq(Word) /\ sv_to_client \in Seq(Word)
           /\ \A i \in 1 .. Len(Answers) : Answers[i] \in Kind(i)

\* The pieces answered once a state is entered.
Stage(st) == CASE st = "NEGOTIATION_READ" -> 0
               [] st \in {"NEGOTIATION_WRITE", "AUTH_READ"} -> 2
               [] st \in {"AUTH_WRITE", "REQ_READ", "REQ_RESOLVE", "REQ_CONNECT"} -> 4
               [] OTHER -> 6

OnTime ==
  /\ Len(Answers) \in {0, 2, 4, 6}
  /\ state \notin Final => Len(Answers) = Stage(state)
  /\ state \notin Final => (sv_to_client # <<>> <=> state \in Writing)

\* The origin a state and the answer to the request go with.
Truthful ==
  /\ origin.sock = "none" <=> origin.fd = -1
  /\ state \notin {"REQ_CONNECT", "REQ_WRITE", "COPY"} => origin = NoOrigin
  /\ state = "REQ_CONNECT" => slot[ClientFd] = "noop"
  /\ state \in {"REQ_WRITE", "COPY"} =>
       /\ Answers[6] = "success" => origin.sock = "connected"
       /\ Answers[6] = "failure" => origin = NoOrigin

RInv == InOrder /\ OnTime /\ Truthful

\* What every step keeps.
Kept == Held /\ ("ok" \notin ConnectResults => RInv)

LEMMA Associative ==
  ASSUME NEW S, NEW a \in Seq(S), NEW b \in Seq(S), NEW c \in Seq(S)
  PROVE  a \o (b \o c) = (a \o b) \o c
  BY ConcatAssociative

LEMMA TwoMore ==
  ASSUME NEW S, NEW a \in Seq(S), NEW n \in Nat, Len(a) = n, NEW r \in Seq(S), Len(r) = 2
  PROVE  /\ Len(a \o r) = n + 2
         /\ \A i \in 1 .. n : (a \o r)[i] = a[i]
         /\ (a \o r)[n + 1] = r[1]
         /\ (a \o r)[n + 2] = r[2]
<1>. DEFINE c == a \o r
<1>1. /\ \A i \in 1 .. Len(a) + Len(r) : c[i] = IF i <= Len(a) THEN a[i] ELSE r[i - Len(a)]
      /\ Len(c) = Len(a) + Len(r)
  BY ConcatProperties, Zenon
<1>. HIDE DEF c
<1>2. \A i \in 1 .. n : c[i] = a[i]
  BY <1>1
<1>3. ASSUME NEW i \in 1 .. 2 PROVE c[n + i] = r[i]
  <2>1. n + i \in 1 .. Len(a) + Len(r) /\ ~(n + i <= Len(a)) /\ n + i - Len(a) = i
    OBVIOUS
  <2>. DEFINE k == n + i
  <2>2. k \in 1 .. Len(a) + Len(r) /\ ~(k <= Len(a)) /\ k - Len(a) = i
    BY <2>1
  <2>. HIDE DEF k
  <2>3. c[k] = r[i]
    BY <1>1, <2>2
  <2>. QED
    BY <2>3 DEF k
<1>4. c[n + 1] = r[1] /\ c[n + 2] = r[2]
  BY <1>3
<1>5. Len(c) = n + 2
  BY <1>1
<1>. QED
  BY <1>2, <1>4, <1>5 DEF c

LEMMA RespondInOrder ==
  ASSUME InOrder, NEW n \in {0, 2, 4}, Len(Answers) = n, NEW kind \in Kind(n + 2),
         Respond(kind), UNCHANGED got
  PROVE  /\ InOrder' /\ Len(Answers') = n + 2 /\ Answers'[n + 2] = kind
         /\ sv_to_client' # <<>>
<1>1. kind \in Word /\ Kind(n + 1) = {"part"}
  BY DEF Kind, Word
<1>. DEFINE r == <<"part", kind>>
<1>2. r \in Seq(Word) /\ Len(r) = 2 /\ r[1] = "part" /\ r[2] = kind
  BY <1>1 DEF Word
<1>3. sv_to_client' = sv_to_client \o r /\ got' = got
  BY DEF Respond, Reply
<1>. HIDE DEF r
<1>4. /\ sv_to_client \in Seq(Word) /\ got \in Seq(Word)
      /\ sv_to_client' \in Seq(Word) /\ Answers \in Seq(Word)
  BY <1>2, <1>3, ConcatProperties, Zenon DEF InOrder, Answers
<1>5. Answers' = Answers \o r
  <2>1. got \in Seq(Word) /\ sv_to_client \in Seq(Word) /\ r \in Seq(Word)
    BY <1>2, <1>4
  <2>2. got \o (sv_to_client \o r) = (got \o sv_to_client) \o r
    BY <2>1, Associative
  <2>. QED
    BY <1>3, <2>2, Zenon DEF Answers
<1>6. /\ Len(Answers') = n + 2 /\ \A i \in 1 .. n : Answers'[i] = Answers[i]
      /\ Answers'[n + 1] = "part" /\ Answers'[n + 2] = kind
  <2>1. n \in Nat
    OBVIOUS
  <2>. DEFINE c == Answers \o r
  <2>2. /\ Len(c) = n + 2 /\ \A i \in 1 .. n : c[i] = Answers[i]
        /\ c[n + 1] = r[1] /\ c[n + 2] = r[2]
    <3>1. Answers \in Seq(Word) /\ r \in Seq(Word) /\ Len(r) = 2 /\ Len(Answers) = n
      BY <1>2, <1>4
    <3>2. \A q \in Seq(Word) : Len(q) = n =>
            /\ Len(q \o r) = n + 2 /\ \A i \in 1 .. n : (q \o r)[i] = q[i]
            /\ (q \o r)[n + 1] = r[1] /\ (q \o r)[n + 2] = r[2]
      BY <1>2, <2>1, TwoMore
    <3>. QED
      BY <3>1, <3>2, Zenon
  <2>3. Answers' = c
    BY <1>5
  <2>. HIDE DEF c
  <2>4. Len(Answers') = n + 2 /\ \A i \in 1 .. n : Answers'[i] = Answers[i]
    BY <2>2, <2>3, Zenon
  <2>5. Answers'[n + 1] = "part" /\ Answers'[n + 2] = kind
    BY <1>2, <2>2, <2>3, Zenon
  <2>. QED
    BY <2>4, <2>5
<1>8. sv_to_client' # <<>>
  <2>1. Len(sv_to_client) \in Nat
    BY <1>4, LenProperties
  <2>2. Len(sv_to_client') = Len(sv_to_client) + 2
    BY <1>2, <1>3, <1>4, <2>1, TwoMore
  <2>. QED
    BY <2>1, <2>2, EmptySeq
<1>7. ASSUME NEW i \in 1 .. n + 2 PROVE Answers'[i] \in Kind(i)
  <2>1. CASE i \in 1 .. n
    BY <1>6, <2>1 DEF InOrder
  <2>2. CASE i = n + 1 \/ i = n + 2
    BY <1>1, <1>6, <2>2
  <2>. QED
    BY <2>1, <2>2
<1>. QED
  BY <1>3, <1>4, <1>6, <1>7, <1>8 DEF InOrder

LEMMA WriteAnswers ==
  ASSUME InOrder, NEW n \in 1 .. Len(sv_to_client), sv_to_client' = Unsent(n),
         got' = got \o SubSeq(sv_to_client, 1, n)
  PROVE  Answers' = Answers /\ InOrder'
<1>. DEFINE a == SubSeq(sv_to_client, 1, n)
            b == SubSeq(sv_to_client, n + 1, Len(sv_to_client))
<1>1. Len(sv_to_client) \in Nat /\ got \in Seq(Word) /\ sv_to_client \in Seq(Word)
  BY DEF InOrder
<1>2. a \in Seq(Word) /\ b \in Seq(Word)
  BY <1>1, SubSeqProperties, ElementOfSeq
<1>3. a \o b = sv_to_client
  BY <1>1, ConcatAdjacentSubSeq, SubSeqFull
<1>4. sv_to_client' = b /\ got' = got \o a
  BY DEF Unsent
<1>. HIDE DEF a, b
<1>5. got' \in Seq(Word) /\ sv_to_client' \in Seq(Word)
  BY <1>1, <1>2, <1>4, ConcatProperties
<1>6. Answers' = Answers
  <2>1. got \in Seq(Word) /\ a \in Seq(Word) /\ b \in Seq(Word)
    BY <1>1, <1>2
  <2>2. (got \o a) \o b = got \o (a \o b)
    BY <2>1, Associative
  <2>. QED
    BY <1>3, <1>4, <2>2, Zenon DEF Answers
<1>. QED
  BY <1>5, <1>6 DEF InOrder

LEMMA StayKept ==
  ASSUME Kept, Held', state' = state, origin' = origin, slot' = slot,
         UNCHANGED <<got, sv_to_client>>
  PROVE  Kept'
  BY DEF Kept, RInv, InOrder, OnTime, Truthful, Answers

LEMMA GiveUpKept ==
  ASSUME Kept, Held', state' \in Final, UNCHANGED <<got, sv_to_client>>
  PROVE  Kept'
<1>1. origin' = NoOrigin
  BY DEF Held, Final
<1>. QED
  BY <1>1 DEF Kept, RInv, InOrder, OnTime, Truthful, Answers, NoOrigin, Final

\* A reply to a message of the client, without an origin.
LEMMA RespondKept ==
  ASSUME Kept, Held', state \in States \ Final, state' \in {"NEGOTIATION_WRITE", "AUTH_WRITE"},
         NEW kind, kind \in Kind(Stage(state')), Stage(state') = Stage(state) + 2,
         origin' = origin, state \notin {"REQ_CONNECT", "REQ_WRITE", "COPY"},
         Respond(kind), UNCHANGED got
  PROVE  Kept'
<1>1. CASE "ok" \in ConnectResults
  BY <1>1 DEF Kept
<1>2. CASE "ok" \notin ConnectResults
  <2>1. RInv /\ Len(Answers) = Stage(state) /\ Len(Answers) \in {0, 2, 4}
    BY <1>2 DEF Kept, RInv, OnTime, Stage
  <2>2. InOrder' /\ Len(Answers') = Stage(state') /\ sv_to_client' # <<>>
    BY <2>1, RespondInOrder DEF RInv
  <2>3. OnTime'
    BY <2>2 DEF OnTime, Stage, Writing
  <2>4. Truthful'
    BY <2>1 DEF RInv, Truthful
  <2>. QED
    BY <2>2, <2>3, <2>4 DEF Kept, RInv
<1>. QED
  BY <1>1, <1>2

\* The reply to the request.
LEMMA AnswerKept ==
  ASSUME Kept, Held', state \in {"REQ_READ", "REQ_RESOLVE", "REQ_CONNECT"},
         state' = "REQ_WRITE", NEW kind \in {"success", "failure"},
         Respond(kind), UNCHANGED got, origin'.sock = "none" <=> origin'.fd = -1,
         kind = "success" => origin'.sock = "connected",
         kind = "failure" => origin' = NoOrigin
  PROVE  Kept'
<1>1. CASE "ok" \in ConnectResults
  BY <1>1 DEF Kept
<1>2. CASE "ok" \notin ConnectResults
  <2>1. RInv /\ Len(Answers) = 4 /\ kind \in Kind(4 + 2)
    BY <1>2 DEF Kept, RInv, OnTime, Stage, Final, Kind
  <2>2. InOrder' /\ Len(Answers') = 6 /\ sv_to_client' # <<>> /\ Answers'[6] = kind
    BY <2>1, RespondInOrder DEF RInv
  <2>3. OnTime'
    BY <2>2 DEF OnTime, Stage, Writing
  <2>4. Truthful'
    BY <2>2 DEF Truthful
  <2>. QED
    BY <2>2, <2>3, <2>4 DEF Kept, RInv
<1>. QED
  BY <1>1, <1>2

-----------------------------------------------------------------------------
(* Each action.                                                            *)

\* What a connection that an event reaches is: Live.
Live == /\ state \in States \ Final /\ client_fd = ClientFd /\ freed = 0
        /\ Registers(slot, origin) /\ process = "up"

LEMMA RecvLive ==
  ASSUME Held, NEW m, recv_and_parse(m)
  PROVE  Live /\ UNCHANGED got /\ ClientFd \in Fd /\ slot[ClientFd] # "unused"
<1>1. Event(ClientFd, "read") /\ UNCHANGED got
  BY Zenon DEF recv_and_parse
<1>. QED
  BY <1>1, EventOpen, Descriptors DEF Live, Event

LEMMA HandlerStates == /\ {"NEGOTIATION_WRITE", "AUTH_WRITE", "REQ_RESOLVE"} \subseteq States \ Final
                       /\ Final \subseteq States /\ "SOCKS_ERROR" \in Final
  BY DEF States, Final

LEMMA PartKept ==
  ASSUME Kept, Live, Return(state, slot, origin), UNCHANGED <<got, sv_to_client>>
  PROVE  Kept'
<1>1. Held' /\ state' = state /\ slot' = slot /\ origin' = origin
  BY ReturnHeld DEF Live
<1>. QED
  BY <1>1, StayKept

LEMMA ErrorKept ==
  ASSUME Kept, Live, NEW st \in Final, Return(st, slot, origin), UNCHANGED <<got, sv_to_client>>
  PROVE  Kept'
<1>1. Held' /\ state' \in Final
  BY ReturnHeld, HandlerStates DEF Live
<1>. QED
  BY <1>1, GiveUpKept

LEMMA NegotiationKept ==
  ASSUME Kept, negotiation_read
  PROVE  Kept'
<1>1. PICK m \in {"part", "neg", "neg_none", "neg_bad"} :
        /\ recv_and_parse(m)
        /\ \/ m = "part" /\ Return(state, slot, origin) /\ UNCHANGED sv_to_client
           \/ /\ m = "neg_bad"
              /\ Return("SOCKS_ERROR", slot, origin) /\ UNCHANGED sv_to_client
           \/ /\ m \in {"neg", "neg_none"}
              /\ Respond(IF m = "neg" THEN "method" ELSE "no_method")
              /\ ReturnWatching("NEGOTIATION_WRITE", ClientFd, "write", slot, origin)
  BY Zenon DEF negotiation_read
<1>2. state = "NEGOTIATION_READ"
  BY Zenon DEF negotiation_read
<1>3. Live /\ UNCHANGED got /\ ClientFd \in Fd /\ slot[ClientFd] # "unused"
  BY <1>1, RecvLive DEF Kept
<1>4. CASE Return(state, slot, origin) /\ UNCHANGED sv_to_client
  BY <1>3, <1>4, PartKept
<1>5. CASE Return("SOCKS_ERROR", slot, origin) /\ UNCHANGED sv_to_client
  BY <1>3, <1>5, ErrorKept, HandlerStates
<1>6. CASE /\ Respond(IF m = "neg" THEN "method" ELSE "no_method")
           /\ ReturnWatching("NEGOTIATION_WRITE", ClientFd, "write", slot, origin)
  <2>. DEFINE kind == IF m = "neg" THEN "method" ELSE "no_method"
  <2>1. Held' /\ state' = "NEGOTIATION_WRITE" /\ origin' = origin
    BY <1>3, <1>6, ReturnWatchingHeld, HandlerStates DEF Live
  <2>2. kind \in Kind(Stage("NEGOTIATION_WRITE")) /\ Stage("NEGOTIATION_WRITE") = Stage(state) + 2
    BY <1>2 DEF Kind, Stage
  <2>3. Respond(kind)
    BY <1>6
  <2>. HIDE DEF kind
  <2>4. state \in States \ Final
    BY <1>3 DEF Live
  <2>. QED
    BY <1>2, <1>3, <2>1, <2>2, <2>3, <2>4, RespondKept
<1>. QED
  BY <1>1, <1>4, <1>5, <1>6

LEMMA AuthenticationKept ==
  ASSUME Kept, authentication_read
  PROVE  Kept'
<1>1. PICK m \in {"part", "auth", "auth_no", "auth_bad"} :
        /\ recv_and_parse(m)
        /\ \/ m = "part" /\ Return(state, slot, origin) /\ UNCHANGED sv_to_client
           \/ /\ m # "part"
              /\ Respond(IF m = "auth" THEN "granted" ELSE "denied")
              /\ ReturnWatching("AUTH_WRITE", ClientFd, "write", slot, origin)
  BY Zenon DEF authentication_read
<1>2. state = "AUTH_READ"
  BY Zenon DEF authentication_read
<1>3. Live /\ UNCHANGED got /\ ClientFd \in Fd /\ slot[ClientFd] # "unused"
  BY <1>1, RecvLive DEF Kept
<1>4. CASE Return(state, slot, origin) /\ UNCHANGED sv_to_client
  BY <1>3, <1>4, PartKept
<1>5. CASE /\ Respond(IF m = "auth" THEN "granted" ELSE "denied")
           /\ ReturnWatching("AUTH_WRITE", ClientFd, "write", slot, origin)
  <2>. DEFINE kind == IF m = "auth" THEN "granted" ELSE "denied"
  <2>1. Held' /\ state' = "AUTH_WRITE" /\ origin' = origin
    BY <1>3, <1>5, ReturnWatchingHeld, HandlerStates DEF Live
  <2>2. kind \in Kind(Stage("AUTH_WRITE")) /\ Stage("AUTH_WRITE") = Stage(state) + 2
    BY <1>2 DEF Kind, Stage
  <2>3. Respond(kind)
    BY <1>5
  <2>. HIDE DEF kind
  <2>4. state \in States \ Final
    BY <1>3 DEF Live
  <2>. QED
    BY <1>2, <1>3, <2>1, <2>2, <2>3, <2>4, RespondKept
<1>. QED
  BY <1>1, <1>4, <1>5

\* An attempt to connect, from the request or after a failure.
LEMMA InitiateKept ==
  ASSUME Kept, Live, NEW fd \in Fd, NEW addrs \in 0 .. MaxAddrs,
         state \in {"REQ_READ", "REQ_RESOLVE", "REQ_CONNECT"},
         state # "REQ_CONNECT" => fd = ClientFd,
         initiate_origin_connection(fd, addrs), UNCHANGED got
  PROVE  Kept' /\ current' \in 0 .. MaxAddrs
<1>1. /\ Held' /\ current' \in 0 .. MaxAddrs
      /\ state' \in {"REQ_WRITE", "REQ_CONNECT", "SOCKS_ERROR"}
      /\ state' = "REQ_WRITE" => Respond("failure") /\ origin' = NoOrigin
      /\ "ok" \notin ConnectResults /\ state' # "REQ_WRITE" =>
           /\ UNCHANGED sv_to_client
           /\ state' = "REQ_CONNECT" =>
                /\ origin'.sock = "connecting" /\ origin'.fd # -1
                /\ slot'[ClientFd] = IF fd = ClientFd THEN "noop" ELSE slot[ClientFd]
  BY InitiateHeld DEF Live
<1>2. CASE state' = "REQ_WRITE"
  <2>1. NoOrigin.sock = "none" /\ NoOrigin.fd = -1
    BY DEF NoOrigin
  <2>. QED
    BY <1>1, <1>2, <2>1, AnswerKept
<1>3. CASE "ok" \in ConnectResults
  BY <1>1, <1>3 DEF Kept
<1>4. CASE "ok" \notin ConnectResults /\ state' = "SOCKS_ERROR"
  BY <1>1, <1>4, GiveUpKept, HandlerStates
<1>5. CASE "ok" \notin ConnectResults /\ state' = "REQ_CONNECT"
  <2>1. RInv /\ Answers' = Answers
    BY <1>1, <1>5 DEF Kept, Answers
  <2>2. InOrder'
    BY <1>1, <1>5, <2>1 DEF RInv, InOrder
  <2>3. OnTime'
    BY <1>1, <1>5, <2>1 DEF RInv, OnTime, Stage, Writing, Final
  <2>4. Truthful'
    BY <1>1, <1>5, <2>1 DEF RInv, Truthful
  <2>. QED
    BY <1>1, <2>2, <2>3, <2>4 DEF Kept, RInv
<1>. QED
  BY <1>1, <1>2, <1>3, <1>4, <1>5

LEMMA RequestKept ==
  ASSUME Kept, Counted, request_read
  PROVE  Kept' /\ Counted'
<1>1. PICK m \in {"part", "req_ip", "req_dn", "req_bad"} :
        /\ recv_and_parse(m)
        /\ \/ /\ m = "part" /\ Return(state, slot, origin)
              /\ UNCHANGED <<sv_to_client, current, resolver>>
           \/ /\ m = "req_bad" /\ req_generate_response_error(ClientFd, slot, origin)
              /\ UNCHANGED <<current, resolver>>
           \/ /\ m = "req_ip" /\ initiate_origin_connection(ClientFd, 1)
              /\ UNCHANGED resolver
           \/ /\ m = "req_dn" /\ resolver' = "running"
              /\ ReturnWatching("REQ_RESOLVE", ClientFd, "noop", slot, origin)
              /\ UNCHANGED <<sv_to_client, current>>
  BY Zenon DEF request_read
<1>2. state = "REQ_READ"
  BY Zenon DEF request_read
<1>3. Live /\ UNCHANGED got /\ ClientFd \in Fd /\ slot[ClientFd] # "unused"
  BY <1>1, RecvLive DEF Kept
<1>4. CASE Return(state, slot, origin) /\ UNCHANGED <<sv_to_client, current, resolver>>
  BY <1>3, <1>4, PartKept DEF Counted
<1>5. CASE req_generate_response_error(ClientFd, slot, origin) /\ UNCHANGED <<current, resolver>>
  <2>1. /\ Held' /\ state' \in {"REQ_WRITE", "SOCKS_ERROR"}
        /\ state' = "REQ_WRITE" => Respond("failure") /\ origin' = origin
        /\ state' = "SOCKS_ERROR" => UNCHANGED sv_to_client
    BY <1>3, <1>5, ErrorHeld DEF Live
  <2>2. CASE "ok" \in ConnectResults
    BY <1>5, <2>1, <2>2 DEF Kept, Counted
  <2>3. CASE "ok" \notin ConnectResults
    <3>1. origin = NoOrigin /\ NoOrigin.sock = "none" /\ NoOrigin.fd = -1
      BY <1>2, <2>3 DEF Kept, RInv, Truthful, NoOrigin
    <3>2. Kept'
      BY <1>2, <1>3, <2>1, <3>1, AnswerKept, GiveUpKept, HandlerStates
    <3>. QED
      BY <1>5, <3>2 DEF Counted
  <2>. QED
    BY <2>2, <2>3
<1>6. CASE initiate_origin_connection(ClientFd, 1) /\ UNCHANGED resolver
  BY <1>2, <1>3, <1>6, InitiateKept, Socks5Assumption DEF Counted
<1>7. CASE /\ resolver' = "running"
           /\ ReturnWatching("REQ_RESOLVE", ClientFd, "noop", slot, origin)
           /\ UNCHANGED <<sv_to_client, current>>
  <2>1. Held' /\ state' = "REQ_RESOLVE" /\ origin' = origin
    BY <1>3, <1>7, ReturnWatchingHeld, HandlerStates DEF Live
  <2>2. "ok" \notin ConnectResults => RInv'
    BY <1>2, <1>3, <1>7, <2>1
    DEF Kept, RInv, InOrder, OnTime, Truthful, Answers, Stage, Writing, Final
  <2>. QED
    BY <1>7, <2>1, <2>2 DEF Kept, Counted
<1>. QED
  BY <1>1, <1>4, <1>5, <1>6, <1>7

LEMMA ResolveKept ==
  ASSUME Kept, Counted, request_resolve
  PROVE  Kept' /\ Counted'
<1>1. resolver' = "idle" /\ process = "up" /\ UNCHANGED got
  BY Zenon DEF request_resolve, user
<1>2. CASE UNCHANGED <<state, client_fd, origin, slot, sv_to_client, current, freed, process>>
  <2>1. Held'
    BY <1>2 DEF Kept, Held, Registers
  <2>. QED
    BY <1>1, <1>2, <2>1, StayKept DEF Counted
<1>3. CASE /\ slot[ClientFd] # "unused" /\ state = "REQ_RESOLVE"
           /\ initiate_origin_connection(ClientFd, current)
  <2>1. Live
    BY <1>1, <1>3, HeldOpen, Descriptors DEF Kept, Live
  <2>. QED
    BY <1>1, <1>3, <2>1, InitiateKept, Descriptors DEF Counted
<1>. QED
  BY <1>2, <1>3, Zenon DEF request_resolve

\* Once a connect has succeeded, both descriptors are watched.
LEMMA AnsweredRegisters ==
  ASSUME Live
  PROVE  Registers([[slot EXCEPT ![client_fd] = "write"] EXCEPT ![origin.fd] = "read"], origin)
<1>. DEFINE s == [slot EXCEPT ![client_fd] = "write"]
            t == [s EXCEPT ![origin.fd] = "read"]
<1>1. client_fd = ClientFd /\ Registers(slot, origin) /\ ClientFd \in Fd
  BY Descriptors DEF Live
<1>2. origin \in Origin /\ slot[ClientFd] # "unused"
  BY <1>1, Descriptors DEF Registers, Origin
<1>3. slot \in [Fd -> Interest] /\ (origin.fd \in Fd => slot[origin.fd] # "unused")
  BY <1>1, <1>2, Descriptors DEF Registers
<1>4. /\ s \in [Fd -> Interest]
      /\ \A f \in Fd : s[f] = "unused" <=> slot[f] = "unused"
  BY <1>1, <1>2, <1>3 DEF Interest
<1>. HIDE DEF s
<1>5. /\ t \in [Fd -> Interest]
      /\ \A f \in Fd : t[f] = "unused" <=> s[f] = "unused"
  BY <1>3, <1>4 DEF Interest
<1>. HIDE DEF t
<1>6. \A f \in Fd : t[f] = "unused" <=> slot[f] = "unused"
  BY <1>4, <1>5
<1>7. Registers(t, origin)
  BY <1>1, <1>2, <1>5, <1>6 DEF Registers
<1>. QED
  BY <1>7 DEF t, s

LEMMA ConnectKept ==
  ASSUME Kept, Counted, NEW fd \in Fd, request_connect(fd)
  PROVE  Kept' /\ Counted'
<1>1. state = "REQ_CONNECT" /\ Event(fd, "write") /\ UNCHANGED <<resolver, got>>
  BY Zenon DEF request_connect, user
<1>2. Live
  BY <1>1, EventOpen DEF Kept, Live
<1>3. CASE /\ ~ConnectFailed
           /\ current' = 0
           /\ Respond("success")
           /\ Return("REQ_WRITE",
                     [[slot EXCEPT ![client_fd] = "write"] EXCEPT ![origin.fd] = "read"],
                     origin)
  <2>1. client_fd = ClientFd /\ Registers(slot, origin) /\ ClientFd \in Fd
    BY <1>2, Descriptors DEF Live
  <2>. DEFINE t == [[slot EXCEPT ![client_fd] = "write"] EXCEPT ![origin.fd] = "read"]
  <2>2. Registers(t, origin)
    BY <1>2, AnsweredRegisters
  <2>3. Return("REQ_WRITE", t, origin)
    BY <1>3
  <2>. HIDE DEF t
  <2>4. "REQ_WRITE" \in States \ Final
    BY DEF States, Final
  <2>5. Held' /\ state' = "REQ_WRITE" /\ origin' = origin
    BY <1>2, <2>2, <2>3, <2>4, ReturnHeld DEF Live
  <2>6. CASE "ok" \notin ConnectResults
    <3>1. slot[ClientFd] = "noop" /\ (origin.sock = "none" <=> origin.fd = -1)
      BY <1>1, <2>6 DEF Kept, RInv, Truthful
    <3>2. fd # ClientFd /\ slot[fd] = "write" /\ Ready(fd, "write")
      BY <1>1, <3>1 DEF Event
    <3>3. origin.sock \in {"connected", "refused"}
      BY <3>2 DEF Ready
    <3>4. origin.sock = "connected"
      BY <1>3, <3>3 DEF ConnectFailed
    <3>. QED
      BY <1>1, <1>3, <2>5, <3>1, <3>4, AnswerKept, Socks5Assumption DEF Counted
  <2>7. CASE "ok" \in ConnectResults
    BY <1>1, <1>3, <2>5, <2>7, Socks5Assumption DEF Kept, Counted
  <2>. QED
    BY <2>6, <2>7
<1>4. CASE req_generate_response_error(fd, OriginClosed, NoOrigin) /\ UNCHANGED current
  <2>1. /\ Held' /\ state' \in {"REQ_WRITE", "SOCKS_ERROR"}
        /\ state' = "REQ_WRITE" => Respond("failure") /\ origin' = NoOrigin
        /\ state' = "SOCKS_ERROR" => UNCHANGED sv_to_client
    BY <1>2, <1>4, ErrorHeld, ClosedRegisters DEF Live
  <2>2. NoOrigin.sock = "none" /\ NoOrigin.fd = -1
    BY DEF NoOrigin
  <2>3. Kept'
    BY <1>1, <2>1, <2>2, AnswerKept, GiveUpKept, HandlerStates
  <2>. QED
    BY <1>1, <1>4, <2>3 DEF Counted
<1>5. CASE initiate_origin_connection(fd, AddrsAfterFailure)
  BY <1>1, <1>2, <1>5, InitiateKept DEF Counted, AddrsAfterFailure
<1>. QED
  BY <1>3, <1>4, <1>5, Zenon DEF request_connect

LEMMA HungupKept ==
  ASSUME Kept, read_error \/ write_error
  PROVE  Kept'
<1>1. /\ Event(ClientFd, "read") \/ Event(ClientFd, "write")
      /\ Return("SOCKS_ERROR", slot, origin) /\ UNCHANGED <<got, sv_to_client>>
  BY Zenon DEF read_error, write_error, user
<1>2. Live
  BY <1>1, EventOpen, Descriptors DEF Kept, Live
<1>. QED
  BY <1>1, <1>2, ErrorKept, HandlerStates

LEMMA ReplyKept ==
  ASSUME Kept, reply_write
  PROVE  Kept'
<1>1. PICK n \in 1 .. Len(sv_to_client) :
        /\ got' = got \o SubSeq(sv_to_client, 1, n)
        /\ sv_to_client' = Unsent(n)
        /\ \/ Unsent(n) # <<>> /\ Return(state, slot, origin)
           \/ Return("SOCKS_ERROR", slot, origin)
           \/ /\ Unsent(n) = <<>>
              /\ ReturnWatching(After(state), ClientFd, "read", slot, origin)
  BY Zenon DEF reply_write
<1>2. state \in Writing /\ Event(ClientFd, "write")
  BY Zenon DEF reply_write
<1>3. Live /\ slot[ClientFd] # "unused" /\ ClientFd \in Fd
  BY <1>2, EventOpen, Descriptors DEF Kept, Live, Event
<1>4. After(state) \in States \ Final
  BY <1>2 DEF Writing, After, States, Final
<1>5. "ok" \notin ConnectResults => Answers' = Answers /\ InOrder'
  BY <1>1, WriteAnswers DEF Kept, RInv
<1>6. CASE Unsent(n) # <<>> /\ Return(state, slot, origin)
  <2>1. Held' /\ state' = state /\ slot' = slot /\ origin' = origin
    BY <1>3, <1>6, ReturnHeld DEF Live
  <2>2. "ok" \notin ConnectResults => RInv'
    BY <1>1, <1>2, <1>5, <1>6, <2>1 DEF Kept, RInv, OnTime, Truthful
  <2>. QED
    BY <2>1, <2>2 DEF Kept
<1>7. CASE Return("SOCKS_ERROR", slot, origin)
  <2>1. Held' /\ state' = "SOCKS_ERROR"
    BY <1>3, <1>7, ReturnHeld, HandlerStates DEF Live
  <2>2. origin' = NoOrigin
    BY <2>1 DEF Held, Final
  <2>3. "ok" \notin ConnectResults => RInv'
    BY <1>5, <2>1, <2>2 DEF Kept, RInv, OnTime, Truthful, NoOrigin, Final
  <2>. QED
    BY <2>1, <2>3 DEF Kept
<1>8. CASE /\ Unsent(n) = <<>>
           /\ ReturnWatching(After(state), ClientFd, "read", slot, origin)
  <2>1. Held' /\ state' = After(state) /\ origin' = origin
    BY <1>3, <1>4, <1>8, ReturnWatchingHeld DEF Live
  <2>2. Stage(After(state)) = Stage(state) /\ After(state) \notin Writing \cup {"REQ_CONNECT"}
    BY <1>2 DEF Writing, After, Stage
  <2>3. "ok" \notin ConnectResults => OnTime'
    BY <1>1, <1>2, <1>3, <1>5, <1>8, <2>1, <2>2 DEF Kept, RInv, OnTime, Live
  <2>4. "ok" \notin ConnectResults => Truthful'
    BY <1>2, <1>5, <2>1 DEF Kept, RInv, Truthful, Writing, After
  <2>. QED
    BY <1>5, <2>1, <2>3, <2>4 DEF Kept, RInv
<1>. QED
  BY <1>1, <1>6, <1>7, <1>8

LEMMA CopyKept ==
  ASSUME Kept, copy
  PROVE  Kept'
<1>1. /\ state = "COPY" /\ origin.fd # -1 /\ UNCHANGED <<got, sv_to_client>>
      /\ \E fd \in {ClientFd, origin.fd}, ev \in {"read", "write"} : Event(fd, ev)
      /\ \/ \E i, j \in {"read", "write"} :
              Return("COPY", [[slot EXCEPT ![ClientFd] = i] EXCEPT ![origin.fd] = j], origin)
         \/ \E st \in Final : Return(st, slot, origin)
  BY Zenon DEF copy
<1>2. origin.fd \in Fd
  BY <1>1, Descriptors DEF Kept, Held, Origin, Fd
<1>3. Live
  BY <1>1, <1>2, EventOpen, Descriptors DEF Kept, Live
<1>4. CASE \E st \in Final : Return(st, slot, origin)
  BY <1>1, <1>3, <1>4, ErrorKept
<1>5. ASSUME NEW i \in {"read", "write"}, NEW j \in {"read", "write"},
             Return("COPY", [[slot EXCEPT ![ClientFd] = i] EXCEPT ![origin.fd] = j], origin)
      PROVE  Kept'
  <2>. DEFINE t == [[slot EXCEPT ![ClientFd] = i] EXCEPT ![origin.fd] = j]
  <2>1. Registers(t, origin)
    BY <1>1, <1>2, <1>3, Descriptors DEF Live, Registers, Interest
  <2>2. Return("COPY", t, origin)
    BY <1>5
  <2>. HIDE DEF t
  <2>3. "COPY" \in States \ Final
    BY DEF States, Final
  <2>4. Held' /\ state' = "COPY" /\ origin' = origin
    BY <1>3, <2>1, <2>2, <2>3, ReturnHeld DEF Live
  <2>. QED
    BY <1>1, <2>4 DEF Kept, RInv, InOrder, OnTime, Truthful, Answers, Writing
<1>. QED
  BY <1>1, <1>4, <1>5

LEMMA CopyNoOriginKept ==
  ASSUME Kept, copy_no_origin
  PROVE  Kept'
<1>1. /\ Event(ClientFd, "read") /\ UNCHANGED <<got, sv_to_client>>
      /\ \/ Return("SOCKS_ERROR", slot, origin)
         \/ Return("SOCKS_DONE", slot, origin)
         \/ process' = "wild" /\ UNCHANGED <<state, client_fd, origin, slot, freed>>
  BY Zenon DEF copy_no_origin, user
<1>2. Live
  BY <1>1, EventOpen, Descriptors DEF Kept, Live
<1>3. CASE Return("SOCKS_ERROR", slot, origin) \/ Return("SOCKS_DONE", slot, origin)
  BY <1>1, <1>2, <1>3, ErrorKept DEF Final
<1>4. CASE process' = "wild" /\ UNCHANGED <<state, client_fd, origin, slot, freed>>
  <2>1. Held'
    BY <1>4 DEF Kept, Held, Registers
  <2>. QED
    BY <1>1, <1>4, <2>1, StayKept
<1>. QED
  BY <1>1, <1>3, <1>4

\* The steps that leave the connection's own state alone.
LEMMA AbortKept ==
  ASSUME Kept, stm_abort
  PROVE  Kept'
<1>1. process' = "aborted" /\ UNCHANGED <<state, client_fd, origin, slot, freed, got, sv_to_client>>
  BY Zenon DEF stm_abort, user
<1>2. Held'
  BY <1>1 DEF Kept, Held, Registers
<1>. QED
  BY <1>1, <1>2, StayKept

LEMMA SameKept ==
  ASSUME Kept, UNCHANGED <<state, client_fd, origin, slot, freed, process, got, sv_to_client>>
  PROVE  Kept'
<1>1. Held'
  BY DEF Kept, Held, Registers
<1>. QED
  BY <1>1, StayKept

LEMMA OriginKept ==
  ASSUME Kept, UNCHANGED <<state, client_fd, slot, freed, process, got, sv_to_client>>,
         origin.sock # "none", origin' \in Origin, origin'.fd = origin.fd, origin'.sock # "none",
         origin.sock = "connected" => origin'.sock = "connected"
  PROVE  Kept'
<1>1. origin # NoOrigin
  BY DEF NoOrigin
<1>2. Held'
  BY <1>1 DEF Kept, Held, Registers
<1>3. "ok" \notin ConnectResults => RInv'
  BY <1>1, <1>2 DEF Kept, RInv, InOrder, OnTime, Truthful, Answers
<1>. QED
  BY <1>2, <1>3 DEF Kept

LEMMA OriginStepKept ==
  ASSUME Kept, origin_answers \/ origin_speaks
  PROVE  Kept'
<1>1. UNCHANGED <<state, client_fd, slot, freed, process, got, sv_to_client>>
  BY Zenon DEF origin_answers, origin_speaks, user
<1>2. origin \in Origin
  BY DEF Kept, Held
<1>3. CASE origin_answers
  <2>1. PICK answer \in {"connected", "refused"} :
          origin' = [fd |-> origin.fd, sock |-> answer, said |-> FALSE]
    BY <1>3, Zenon DEF origin_answers
  <2>2. origin.sock = "connecting"
    BY <1>3, Zenon DEF origin_answers
  <2>. QED
    BY <1>1, <1>2, <2>1, <2>2, OriginKept DEF Origin
<1>4. CASE origin_speaks
  <2>1. origin' = [fd |-> origin.fd, sock |-> origin.sock, said |-> TRUE]
    BY <1>4, Zenon DEF origin_speaks
  <2>2. origin.sock = "connected"
    BY <1>4, Zenon DEF origin_speaks
  <2>. QED
    BY <1>1, <1>2, <2>1, <2>2, OriginKept DEF Origin
<1>. QED
  BY <1>3, <1>4

-----------------------------------------------------------------------------
(* What the client sends, and the buffer it is received in.                *)

LEMMA ReceiveReceived ==
  ASSUME Received, NEW m, recv_and_parse(m)
  PROVE  Received'
<1>1. PICK n \in 1 .. Len(net) :
        LET b == Extend(client_to_sv, SubSeq(net, 1, n))
        IN /\ n <= Room(client_to_sv)
           /\ net' = SubSeq(net, n + 1, Len(net))
           /\ \/ /\ MessageEnd(b.q) = {} /\ m = "part"
                 /\ client_to_sv' = Consume(b, Len(b.q))
              \/ \E k \in MessageEnd(b.q) : /\ m = b.q[k]
                                            /\ client_to_sv' = Consume(b, k)
  BY Zenon DEF recv_and_parse
<1>2. UNCHANGED <<script, sent>>
  BY Zenon DEF recv_and_parse
<1>. DEFINE s == SubSeq(net, 1, n)
            b == Extend(client_to_sv, s)
<1>3. s \in Seq(Piece) /\ Len(s) = n /\ net' \in Seq(Piece)
  BY <1>1, SubSeqProperties, ElementOfSeq, LenProperties DEF Received
<1>. HIDE DEF s
<1>4. /\ b.q \in Seq(Piece) /\ b.gap = client_to_sv.gap
      /\ Len(b.q) = Len(client_to_sv.q) + n
  BY <1>3, ConcatProperties DEF Received, Extend
<1>5. \A k \in MessageEnd(b.q) : k \in 1 .. Len(b.q)
  BY DEF MessageEnd
<1>6. Len(b.q) \in Nat
  BY <1>4, LenProperties
<1>7. \E k \in 0 .. Len(b.q) : client_to_sv' = Consume(b, k)
  BY <1>1, <1>5, <1>6 DEF s
<1>8. n <= Room(client_to_sv)
  BY <1>1
<1>. HIDE DEF b
<1>9. PICK k \in 0 .. Len(b.q) : client_to_sv' = Consume(b, k)
  BY <1>7
<1>10. client_to_sv' \in [q : Seq(Piece), gap : Nat] /\ (Room(client_to_sv) >= 0)'
  <2>1. /\ client_to_sv.gap \in Nat /\ Len(client_to_sv.q) \in Nat
        /\ Capacity \in Nat /\ b.gap \in Nat
    BY <1>4, LenProperties, Socks5Assumption DEF Received
  <2>2. CASE k = Len(b.q)
    <3>1. client_to_sv' = EmptyQueue
      BY <1>9, <2>2 DEF Consume
    <3>. QED
      BY <2>1, <3>1, EmptySeq DEF EmptyQueue, Room
  <2>3. CASE k # Len(b.q)
    <3>1. client_to_sv' = [q |-> SubSeq(b.q, k + 1, Len(b.q)), gap |-> b.gap + k]
      BY <1>9, <2>3 DEF Consume
    <3>2. /\ SubSeq(b.q, k + 1, Len(b.q)) \in Seq(Piece)
          /\ Len(SubSeq(b.q, k + 1, Len(b.q))) = Len(b.q) - k
      BY <1>4, <1>6, <2>3, SubSeqProperties, ElementOfSeq
    <3>3. Room(client_to_sv) = Capacity - client_to_sv.gap - Len(client_to_sv.q)
      BY DEF Room
    <3>4. Room(client_to_sv)' = Capacity - (b.gap + k) - (Len(b.q) - k)
      BY <3>1, <3>2 DEF Room
    <3>5. Room(client_to_sv)' = Room(client_to_sv) - n
      BY <1>4, <1>6, <2>1, <3>3, <3>4
    <3>6. client_to_sv' \in [q : Seq(Piece), gap : Nat]
      <4>1. b.gap + k \in Nat
        BY <2>1
      <4>. QED
        BY <3>1, <3>2, <4>1
    <3>7. (Room(client_to_sv) >= 0)'
      <4>1. Room(client_to_sv) \in Int
        BY <2>1, <3>3
      <4>. QED
        BY <1>8, <3>5, <4>1
    <3>. QED
      BY <3>6, <3>7
  <2>. QED
    BY <2>2, <2>3
<1>. QED
  BY <1>2, <1>3, <1>10 DEF Received

Queued == got \in Seq(Word) /\ sv_to_client \in Seq(Word)

Replies == UNCHANGED got /\ (UNCHANGED sv_to_client \/ \E kind \in Word : Respond(kind))

LEMMA RepliesQueued == Queued /\ Replies => Queued'
<1>1. \A kind \in Word : Reply(kind) \in Seq(Word)
  BY DEF Reply, Word
<1>. QED
  BY <1>1, ConcatProperties DEF Queued, Replies, Respond

LEMMA ErrorReplies ==
  ASSUME NEW fd, NEW table, NEW org, req_generate_response_error(fd, table, org), UNCHANGED got
  PROVE  Replies
<1>1. "failure" \in Word
  BY DEF Word
<1>. QED
  BY <1>1, Zenon DEF req_generate_response_error, Replies

LEMMA InitiateReplies ==
  ASSUME NEW fd, NEW addrs, initiate_origin_connection(fd, addrs), UNCHANGED got
  PROVE  Replies
<1>1. "success" \in Word
  BY DEF Word
<1>2. ASSUME NEW m, Connecting(fd, m, OriginClosed) PROVE Replies
  BY <1>1, <1>2, Zenon DEF Connecting, Replies
<1>. QED
  BY <1>2, ErrorReplies, Zenon DEF initiate_origin_connection

LEMMA ReadReplies ==
  ASSUME negotiation_read \/ authentication_read \/ request_read
  PROVE  Replies
<1>1. UNCHANGED got
  BY Zenon DEF negotiation_read, authentication_read, request_read, recv_and_parse
<1>2. CASE negotiation_read
  <2>1. \A m : (IF m = "neg" THEN "method" ELSE "no_method") \in Word
    BY DEF Word
  <2>. QED
    BY <1>1, <1>2, <2>1, Zenon DEF negotiation_read, Replies
<1>3. CASE authentication_read
  <2>1. \A m : (IF m = "auth" THEN "granted" ELSE "denied") \in Word
    BY DEF Word
  <2>. QED
    BY <1>1, <1>3, <2>1, Zenon DEF authentication_read, Replies
<1>4. CASE request_read
  <2>1. \/ UNCHANGED sv_to_client
        \/ req_generate_response_error(ClientFd, slot, origin)
        \/ initiate_origin_connection(ClientFd, 1)
    BY <1>4, Zenon DEF request_read
  <2>. QED
    BY <1>1, <2>1, ErrorReplies, InitiateReplies, Zenon DEF Replies
<1>. QED
  BY <1>2, <1>3, <1>4

LEMMA ConnectReplies ==
  ASSUME request_resolve \/ \E fd \in Fd : request_connect(fd)
  PROVE  Replies
<1>1. UNCHANGED got
  BY Zenon DEF request_resolve, request_connect, user
<1>2. \/ UNCHANGED sv_to_client \/ Respond("success")
      \/ \E fd : \/ req_generate_response_error(fd, OriginClosed, NoOrigin)
                 \/ initiate_origin_connection(fd, current)
  BY Zenon DEF request_resolve, request_connect, AddrsAfterFailure
<1>3. "success" \in Word
  BY DEF Word
<1>. QED
  BY <1>1, <1>2, <1>3, ErrorReplies, InitiateReplies, Zenon DEF Replies

LEMMA WriteQueued == Queued /\ reply_write => Queued'
<1>. SUFFICES ASSUME Queued, reply_write PROVE Queued'
  OBVIOUS
<1>1. PICK n \in 1 .. Len(sv_to_client) : /\ got' = got \o SubSeq(sv_to_client, 1, n)
                                          /\ sv_to_client' = Unsent(n)
  BY Zenon DEF reply_write
<1>2. SubSeq(sv_to_client, 1, n) \in Seq(Word) /\ Unsent(n) \in Seq(Word)
  BY SubSeqProperties, ElementOfSeq, LenProperties DEF Queued, Unsent
<1>. QED
  BY <1>1, <1>2, ConcatProperties DEF Queued

LEMMA OtherReplies ==
  ASSUME \/ stm_abort \/ read_error \/ write_error \/ copy \/ copy_no_origin
         \/ request_resolve_domain_name \/ client_sends \/ client_leaves
         \/ origin_answers \/ origin_speaks \/ UNCHANGED vars
  PROVE  Replies
  BY Zenon DEF Replies, stm_abort, read_error, write_error, copy, copy_no_origin,
     request_resolve_domain_name, client_sends, client_leaves, origin_answers,
     origin_speaks, user, conn, vars

LEMMA NextQueued == Queued /\ [Next]_vars => Queued'
  BY RepliesQueued, ReadReplies, ConnectReplies, WriteQueued, OtherReplies, Zenon
  DEF Next, Server

LEMMA SendReceived ==
  ASSUME Received, Queued, client_sends
  PROVE  Received'
<1>1. /\ sent < Allowed /\ sent' = sent + 1 /\ UNCHANGED <<client_to_sv, script>>
      /\ net' = Append(net, IF sent % 2 = 0 THEN "part" ELSE script[sent \div 2 + 1])
  BY Zenon DEF client_sends, conn
<1>2. Allowed \in Int /\ Allowed <= 2 * Len(script)
  <2>1. Len(script) \in Nat /\ Len(got) \in Nat
    BY LenProperties DEF Received, Queued
  <2>. QED
    BY <2>1 DEF Allowed, Pieces, Least
<1>3. Len(script) \in Nat /\ sent \in Nat /\ sent < 2 * Len(script)
  BY <1>1, <1>2, LenProperties DEF Received
<1>4. sent \div 2 + 1 \in 1 .. Len(script)
  BY <1>3
<1>5. script[sent \div 2 + 1] \in Messages
  BY <1>4, ElementOfSeq DEF Received
<1>6. net' \in Seq(Piece)
  BY <1>1, <1>5, AppendProperties DEF Received, Piece
<1>. QED
  BY <1>1, <1>6 DEF Received, Room

LEMMA SameReceived ==
  ASSUME Received, UNCHANGED <<client_to_sv, script, sent>>, net' \in {net, <<>>}
  PROVE  Received'
<1>1. net' \in Seq(Piece)
  BY EmptySeq DEF Received
<1>. QED
  BY <1>1 DEF Received, Room

-----------------------------------------------------------------------------
(* The invariants.                                                         *)

Inv == CInv /\ Queued /\ Kept

LEMMA InitInv == Init => Inv
<1>. SUFFICES ASSUME Init PROVE Inv
  OBVIOUS
<1>1. Registers(slot, origin)
  BY Descriptors DEF Init, Registers, Interest, Origin, NoOrigin
<1>2. Held
  BY <1>1 DEF Init, Held, States, Final, Registers
<1>3. Counted
  BY Socks5Assumption DEF Init, Counted
<1>4. Received
  BY Socks5Assumption, EmptySeq DEF Init, Received, EmptyQueue, Room
<1>5. RInv
  <2>1. got = <<>> /\ sv_to_client = <<>> /\ Answers = <<>> /\ <<>> \in Seq(Word) /\ Len(<<>>) = 0
    BY EmptySeq, ConcatEmptySeq DEF Init, Answers
  <2>2. InOrder
    BY <2>1 DEF InOrder
  <2>3. OnTime
    BY <2>1 DEF Init, OnTime, Stage, Writing
  <2>4. Truthful
    BY DEF Init, Truthful, NoOrigin
  <2>. QED
    BY <2>2, <2>3, <2>4 DEF RInv
<1>. QED
  BY <1>2, <1>3, <1>4, <1>5 DEF Inv, CInv, Kept, Queued, RInv, InOrder

LEMMA NextInv == Inv /\ [Next]_vars => Inv'
<1>0. Queued /\ [Next]_vars => Queued'
  BY NextQueued
<1>. SUFFICES ASSUME Inv, [Next]_vars PROVE CInv' /\ Kept'
  BY <1>0 DEF Inv
<1>. USE DEF Inv, CInv
<1>1. CASE negotiation_read
  <2>1. \E m : recv_and_parse(m)
    BY <1>1, Zenon DEF negotiation_read
  <2>2. UNCHANGED <<current, resolver>>
    BY <1>1, Zenon DEF negotiation_read
  <2>. QED
    BY <1>1, <2>1, <2>2, NegotiationKept, ReceiveReceived DEF Counted, Kept
<1>2. CASE authentication_read
  <2>1. \E m : recv_and_parse(m)
    BY <1>2, Zenon DEF authentication_read
  <2>2. UNCHANGED <<current, resolver>>
    BY <1>2, Zenon DEF authentication_read
  <2>. QED
    BY <1>2, <2>1, <2>2, AuthenticationKept, ReceiveReceived DEF Counted, Kept
<1>3. CASE request_read
  <2>1. \E m : recv_and_parse(m)
    BY <1>3, Zenon DEF request_read
  <2>. QED
    BY <1>3, <2>1, RequestKept, ReceiveReceived DEF Kept
<1>4. CASE request_resolve
  <2>1. UNCHANGED <<client_to_sv, script, sent, net>>
    BY <1>4, Zenon DEF request_resolve, user
  <2>. QED
    BY <1>4, <2>1, ResolveKept, SameReceived DEF Kept
<1>5. ASSUME NEW fd \in Fd, request_connect(fd) PROVE CInv' /\ Kept'
  <2>1. UNCHANGED <<client_to_sv, script, sent, net>>
    BY <1>5, Zenon DEF request_connect, user
  <2>. QED
    BY <1>5, <2>1, ConnectKept, SameReceived DEF Kept
<1>6. CASE read_error \/ write_error
  <2>1. UNCHANGED <<client_to_sv, script, sent, net, current, resolver>>
    BY <1>6, Zenon DEF read_error, write_error, user
  <2>. QED
    BY <1>6, <2>1, HungupKept, SameReceived DEF Kept, Counted
<1>7. CASE reply_write
  <2>1. UNCHANGED <<client_to_sv, script, sent, net, current, resolver>>
    BY <1>7, Zenon DEF reply_write
  <2>. QED
    BY <1>7, <2>1, ReplyKept, SameReceived DEF Kept, Counted
<1>8. CASE copy
  <2>1. UNCHANGED <<client_to_sv, script, sent, current, resolver>> /\ net' \in {net, <<>>}
    BY <1>8, Zenon DEF copy
  <2>. QED
    BY <1>8, <2>1, CopyKept, SameReceived DEF Kept, Counted
<1>9. CASE copy_no_origin
  <2>1. UNCHANGED <<client_to_sv, script, sent, net, current, resolver>>
    BY <1>9, Zenon DEF copy_no_origin, user
  <2>. QED
    BY <1>9, <2>1, CopyNoOriginKept, SameReceived DEF Kept, Counted
<1>10. CASE stm_abort
  <2>1. UNCHANGED <<client_to_sv, script, sent, net, current, resolver>>
    BY <1>10, Zenon DEF stm_abort, user
  <2>. QED
    BY <1>10, <2>1, AbortKept, SameReceived DEF Kept, Counted
<1>11. CASE request_resolve_domain_name
  <2>1. /\ UNCHANGED <<state, client_fd, origin, slot, freed, process, got, sv_to_client>>
        /\ UNCHANGED <<client_to_sv, script, sent, net>>
        /\ resolver' = "queued" /\ current' \in 0 .. MaxAddrs
    BY <1>11, Zenon DEF request_resolve_domain_name, user
  <2>. QED
    BY <2>1, SameKept, SameReceived DEF Kept, Counted
<1>12. CASE client_sends
  <2>1. UNCHANGED <<state, client_fd, origin, slot, freed, process, got, sv_to_client,
                    current, resolver>>
    BY <1>12, Zenon DEF client_sends, conn
  <2>. QED
    BY <1>12, <2>1, SameKept, SendReceived DEF Kept, Counted
<1>13. CASE client_leaves
  <2>1. /\ UNCHANGED <<state, client_fd, origin, slot, freed, process, got, sv_to_client>>
        /\ UNCHANGED <<client_to_sv, script, sent, net, current, resolver>>
    BY <1>13, Zenon DEF client_leaves, conn
  <2>. QED
    BY <2>1, SameKept, SameReceived DEF Kept, Counted
<1>14. CASE origin_answers \/ origin_speaks
  <2>1. UNCHANGED <<client_to_sv, script, sent, net, current, resolver>>
    BY <1>14, Zenon DEF origin_answers, origin_speaks, user
  <2>. QED
    BY <1>14, <2>1, OriginStepKept, SameReceived DEF Kept, Counted
<1>15. CASE UNCHANGED vars
  <2>1. /\ UNCHANGED <<state, client_fd, origin, slot, freed, process, got, sv_to_client>>
        /\ UNCHANGED <<client_to_sv, script, sent, net, current, resolver>>
    BY <1>15 DEF vars, conn, user
  <2>. QED
    BY <2>1, SameKept, SameReceived DEF Kept, Counted
<1>. QED
  BY <1>1, <1>2, <1>3, <1>4, <1>5, <1>6, <1>7, <1>8, <1>9, <1>10, <1>11, <1>12, <1>13,
     <1>14, <1>15, Zenon DEF Next, Server

LEMMA Invariance == Spec => []Inv
  BY InitInv, NextInv, PTL DEF Spec

\* For any buffer, scripts and origins, every variable has its type: the
\* buffer's write pointer stays within it and a connection is freed once.
THEOREM TypeCorrect == Spec => []TypeOK
<1>1. Inv => TypeOK
  BY DEF Inv, CInv, Held, Counted, Received, TypeOK, States, Origin, Interest, Piece
<1>. QED
  BY <1>1, Invariance, PTL

\* No retry of a connect leaks a descriptor, and nothing is registered once
\* the connection is freed.
THEOREM SlotsAlwaysMatch == Spec => []SlotsMatchConnection
<1>1. Inv => SlotsMatchConnection
  BY DEF Inv, CInv, Held, Registers, SlotsMatchConnection, NoOrigin, ClientFd
<1>. QED
  BY <1>1, Invariance, PTL

\* What the pointwise invariant says of the answers as a whole.
LEMMA AnswersAreReplies ==
  ASSUME InOrder, Len(Answers) \in {0, 2, 4, 6}
  PROVE  OneReplyPerPhase
<1>. DEFINE n == Len(Answers)
            mm == IF n >= 2 THEN Answers[2] ELSE "method"
            aa == IF n >= 4 THEN Answers[4] ELSE "granted"
            rr == IF n >= 6 THEN Answers[6] ELSE "success"
<1>1. /\ mm \in {"method", "no_method"} /\ aa \in {"granted", "denied"}
      /\ rr \in {"success", "failure"}
  BY DEF InOrder, Kind
<1>2. \A i \in 1 .. n : Answers[i] = CASE i = 2 -> mm [] i = 4 -> aa [] i = 6 -> rr
                                       [] OTHER -> "part"
  <2>1. ASSUME NEW i \in 1 .. n, i \notin {2, 4, 6} PROVE Answers[i] = "part"
    BY <2>1 DEF InOrder, Kind
  <2>. QED
    BY <2>1
<1>3. n \in {0, 2, 4, 6}
  OBVIOUS
<1>. HIDE DEF n, mm, aa, rr
<1>4. ASSUME NEW kind \in Word
      PROVE  /\ Reply(kind) \in Seq(Word) /\ Len(Reply(kind)) = 2
             /\ Reply(kind)[1] = "part" /\ Reply(kind)[2] = kind
  BY <1>4 DEF Reply, Word
<1>5. mm \in Word /\ aa \in Word /\ rr \in Word
  BY <1>1 DEF Word
<1>. DEFINE x == Reply(mm) \o Reply(aa)
            whole == x \o Reply(rr)
<1>6. /\ x \in Seq(Word) /\ Len(x) = 4 /\ \A i \in 1 .. 2 : x[i] = Reply(mm)[i]
      /\ x[2 + 1] = "part" /\ x[2 + 2] = aa
  BY <1>4, <1>5, TwoMore, ConcatProperties
<1>. HIDE DEF x
<1>7. /\ whole \in Seq(Word) /\ Len(whole) = 6 /\ \A i \in 1 .. 4 : whole[i] = x[i]
      /\ whole[4 + 1] = "part" /\ whole[4 + 2] = rr
  <2>1. /\ Reply(rr) \in Seq(Word) /\ Len(Reply(rr)) = 2
        /\ Reply(rr)[1] = "part" /\ Reply(rr)[2] = rr
    BY <1>4, <1>5
  <2>2. whole \in Seq(Word)
    BY <1>6, <2>1, ConcatProperties
  <2>3. ASSUME NEW k \in Nat, k = 4
        PROVE  /\ Len(x \o Reply(rr)) = k + 2
               /\ \A i \in 1 .. k : (x \o Reply(rr))[i] = x[i]
               /\ (x \o Reply(rr))[k + 1] = Reply(rr)[1]
               /\ (x \o Reply(rr))[k + 2] = Reply(rr)[2]
    <3>1. x \in Seq(Word) /\ Len(x) = k
      BY <1>6, <2>3
    <3>. QED
      BY <2>1, <3>1, TwoMore
  <2>. QED
    BY <2>1, <2>2, <2>3
<1>. HIDE DEF whole
<1>8. /\ whole[1] = "part" /\ whole[2] = mm /\ whole[3] = "part" /\ whole[4] = aa
      /\ whole[5] = "part" /\ whole[6] = rr
  BY <1>4, <1>5, <1>6, <1>7
<1>9. \A i \in 1 .. n : Answers[i] = whole[i]
  BY <1>2, <1>3, <1>8
<1>10. ASSUME NEW i \in 1 .. n PROVE whole[i] \in Word
  <2>1. i \in 1 .. Len(whole)
    BY <1>3, <1>7
  <2>. QED
    BY <1>7, <2>1, ElementOfSeq
<1>11. /\ SubSeq(whole, 1, n) \in Seq(Word) /\ Len(SubSeq(whole, 1, n)) = n
       /\ \A i \in 1 .. n : SubSeq(whole, 1, n)[i] = whole[i]
  BY <1>3, <1>10, SubSeqProperties
<1>12. Answers \in Seq(Word) /\ Len(Answers) = n
  BY ConcatProperties DEF InOrder, Answers, n
<1>13. Answers = SubSeq(whole, 1, n)
  BY <1>9, <1>11, <1>12, SeqEqual
<1>. QED
  BY <1>1, <1>3, <1>13 DEF OneReplyPerPhase, x, whole

\* Unless a connect succeeds at once, no phase is answered twice, whatever
\* the client sends, and however its replies are cut.
THEOREM PhasesAnsweredOnce ==
  ASSUME "ok" \notin ConnectResults PROVE Spec => []OneReplyPerPhase
<1>1. Inv => OneReplyPerPhase
  BY AnswersAreReplies DEF Inv, Kept, RInv, OnTime
<1>. QED
  BY <1>1, Invariance, PTL

\* Unless a connect succeeds at once, success is said of a connected origin
\* and failure when there is none.
THEOREM RepliesTellTheTruth ==
  ASSUME "ok" \notin ConnectResults PROVE Spec => []ReplyTellsTheTruth
<1>1. ASSUME Inv PROVE ReplyTellsTheTruth
  <2>1. RInv /\ Held
    BY <1>1 DEF Inv, Kept
  <2>2. \A i \in 1 .. Len(Answers) : Answers[i] \in {"success", "failure"} => i = 6
    BY <2>1 DEF RInv, InOrder, Kind
  <2>3. Len(Answers) = 6 => Answers[6] \in {"success", "failure"}
    BY <2>1 DEF RInv, InOrder, Kind
  <2>4. \A i \in 1 .. Len(Answers) : i = 6 => Len(Answers) = 6
    BY <2>1 DEF RInv, OnTime
  <2>5. /\ state \in Final => origin = NoOrigin
        /\ state \in States
        /\ state \notin Final /\ Len(Answers) = 6 => state \in {"REQ_WRITE", "COPY"}
        /\ state = "COPY" => Len(Answers) = 6
    BY <2>1 DEF RInv, OnTime, Held, Stage, States, Final
  <2>6. NoOrigin.fd = -1 /\ NoOrigin.sock = "none"
    BY DEF NoOrigin
  <2>. QED
    BY <2>1, <2>2, <2>3, <2>4, <2>5, <2>6 DEF RInv, Truthful, ReplyTellsTheTruth, Answered
<1>. QED
  BY <1>1, Invariance, PTL

-----------------------------------------------------------------------------
(* No event without a handler.                                             *)

\* In state st, with these interests and this origin, the only event that
\* may be watched and not handled is an origin's first byte.
Met(st, table, org) ==
  /\ \A fd \in Fd, ev \in {"read", "write"} :
       table[fd] = ev => st \in Handles(ev) \/ (fd # ClientFd /\ ev = "read")
  /\ org.said => st = "COPY"
  /\ st \notin {"REQ_CONNECT", "REQ_WRITE", "COPY"} => org = NoOrigin

Silent == process # "aborted" /\ Met(state, slot, origin)

LEMMA ReturnMet ==
  ASSUME client_fd = ClientFd, freed = 0, process = "up",
         NEW next \in States, NEW table, NEW org, Registers(table, org),
         Return(next, table, org), next \notin Final => Met(next, table, org)
  PROVE  Silent'
<1>1. CASE next \notin Final
  BY <1>1 DEF Return, Silent, Met
<1>2. CASE next \in Final
  <2>1. socksv5_done(table, org) /\ state' = next
    BY <1>2 DEF Return
  <2>2. \A fd \in {ClientFd, org.fd} \ {-1} : fd \in Fd /\ table[fd] # "unused"
    BY DEF Registers
  <2>3. /\ process' = "up" /\ origin' = NoOrigin
        /\ slot' = [fd \in Fd |-> IF fd \in {ClientFd, org.fd} \ {-1} THEN "unused"
                                  ELSE table[fd]]
    BY <2>1, <2>2 DEF socksv5_done
  <2>4. \A fd \in Fd : slot'[fd] = "unused"
    BY <2>3 DEF Registers
  <2>. QED
    BY <2>3, <2>4 DEF Silent, Met, NoOrigin
<1>. QED
  BY <1>1, <1>2

LEMMA ReturnWatchingMet ==
  ASSUME client_fd = ClientFd, freed = 0, process = "up",
         NEW next \in States, NEW fd \in Fd, NEW i \in {"noop", "read", "write"},
         NEW table, NEW org, Registers(table, org),
         ReturnWatching(next, fd, i, table, org),
         table[fd] # "unused" => Met(next, [table EXCEPT ![fd] = i], org)
  PROVE  Silent'
<1>1. CASE table[fd] = "unused"
  BY <1>1, ReturnMet DEF ReturnWatching, States, Final
<1>2. CASE table[fd] # "unused"
  <2>1. Registers([table EXCEPT ![fd] = i], org)
    BY <1>2 DEF Registers, Interest
  <2>. QED
    BY <1>2, <2>1, ReturnMet DEF ReturnWatching
<1>. QED
  BY <1>1, <1>2

LEMMA ErrorMet ==
  ASSUME client_fd = ClientFd, freed = 0, process = "up", NEW fd \in Fd,
         NEW table, Registers(table, NoOrigin),
         req_generate_response_error(fd, table, NoOrigin)
  PROVE  Silent'
<1>1. ReturnWatching("REQ_WRITE", fd, "write", table, NoOrigin)
  BY DEF req_generate_response_error
<1>2. "REQ_WRITE" \in States
  BY DEF States
<1>3. table[fd] # "unused" => Met("REQ_WRITE", [table EXCEPT ![fd] = "write"], NoOrigin)
  BY Descriptors DEF Registers, NoOrigin, Met, Handles
<1>. QED
  BY <1>1, <1>2, <1>3, ReturnWatchingMet

LEMMA ConnectingMet ==
  ASSUME client_fd = ClientFd, freed = 0, process = "up", NEW fd \in Fd,
         NEW m, NEW table, Registers(table, NoOrigin),
         fd = ClientFd \/ table[ClientFd] # "read", Connecting(fd, m, table)
  PROVE  Silent'
<1>1. PICK new \in OriginFd, result \in ConnectResults \ {"error"} :
        /\ table[new] = "unused" /\ current' = m
        /\ \/ /\ result = "ok"
              /\ Respond("success")
              /\ IF table[fd] = "unused" /\ fd # new
                 THEN Return("SOCKS_ERROR", [table EXCEPT ![new] = "noop"],
                             [fd |-> new, sock |-> "connected", said |-> FALSE])
                 ELSE Return("REQ_CONNECT",
                             [[table EXCEPT ![fd] = "write"] EXCEPT ![new] = "read"],
                             [fd |-> new, sock |-> "connected", said |-> FALSE])
           \/ /\ result = "inprogress"
              /\ UNCHANGED sv_to_client
              /\ ReturnWatching("REQ_CONNECT", fd, "noop", AwaitConnect(table, new),
                                [fd |-> new, sock |-> "connecting", said |-> FALSE])
  BY Zenon DEF Connecting
<1>2. {"REQ_CONNECT", "SOCKS_ERROR"} \subseteq States /\ "SOCKS_ERROR" \in Final
  BY DEF States, Final
<1>3. CASE result = "ok"
  <2>. DEFINE org == [fd |-> new, sock |-> "connected", said |-> FALSE]
              t == [[table EXCEPT ![fd] = "write"] EXCEPT ![new] = "read"]
  <2>1. CASE table[fd] = "unused" /\ fd # new
    <3>1. Return("SOCKS_ERROR", [table EXCEPT ![new] = "noop"], org)
      BY <1>1, <1>3, <2>1
    <3>2. Registers([table EXCEPT ![new] = "noop"], org)
      BY NewRegisters
    <3>. QED
      BY <1>2, <3>1, <3>2, ReturnMet
  <2>2. CASE ~(table[fd] = "unused" /\ fd # new)
    <3>1. Return("REQ_CONNECT", t, org)
      BY <1>1, <1>3, <2>2
    <3>2. Registers(t, org)
      BY <2>2, Descriptors DEF Registers, NoOrigin, Origin, Interest
    <3>3. Met("REQ_CONNECT", t, org)
      BY Descriptors DEF Registers, Met, Handles
    <3>. HIDE DEF t, org
    <3>. QED
      BY <1>2, <3>1, <3>2, <3>3, ReturnMet
  <2>. QED
    BY <2>1, <2>2
<1>4. CASE result = "inprogress"
  <2>. DEFINE org == [fd |-> new, sock |-> "connecting", said |-> FALSE]
              t == AwaitConnect(table, new)
  <2>1. Registers(t, org)
    BY NewRegisters DEF AwaitConnect
  <2>2. ReturnWatching("REQ_CONNECT", fd, "noop", t, org)
    BY <1>1, <1>4
  <2>3. Met("REQ_CONNECT", [t EXCEPT ![fd] = "noop"], org)
    BY Descriptors DEF Registers, Met, Handles, AwaitConnect
  <2>. HIDE DEF t, org
  <2>. QED
    BY <1>2, <2>1, <2>2, <2>3, ReturnWatchingMet
<1>. QED
  BY <1>1, <1>3, <1>4

LEMMA InitiateMet ==
  ASSUME client_fd = ClientFd, freed = 0, process = "up", Registers(slot, origin),
         NEW fd \in Fd, NEW addrs \in 0 .. MaxAddrs,
         fd = ClientFd \/ slot[ClientFd] # "read", initiate_origin_connection(fd, addrs)
  PROVE  Silent'
<1>1. Registers(OriginClosed, NoOrigin) /\ OriginClosed[ClientFd] = slot[ClientFd]
  BY ClosedRegisters, Descriptors DEF OriginClosed, Registers, Origin
<1>2. CASE current' = 0 /\ req_generate_response_error(fd, OriginClosed, NoOrigin)
  BY <1>1, <1>2, ErrorMet
<1>3. CASE \E m \in 1 .. addrs : Connecting(fd, m, OriginClosed)
  BY <1>1, <1>3, ConnectingMet
<1>. QED
  BY <1>2, <1>3, Zenon DEF initiate_origin_connection

LEMMA RequestMet ==
  ASSUME Held, Silent, request_read
  PROVE  Silent'
<1>1. PICK m \in {"part", "req_ip", "req_dn", "req_bad"} :
        /\ recv_and_parse(m)
        /\ \/ /\ m = "part" /\ Return(state, slot, origin)
              /\ UNCHANGED <<sv_to_client, current, resolver>>
           \/ /\ m = "req_bad" /\ req_generate_response_error(ClientFd, slot, origin)
              /\ UNCHANGED <<current, resolver>>
           \/ /\ m = "req_ip" /\ initiate_origin_connection(ClientFd, 1)
              /\ UNCHANGED resolver
           \/ /\ m = "req_dn" /\ resolver' = "running"
              /\ ReturnWatching("REQ_RESOLVE", ClientFd, "noop", slot, origin)
              /\ UNCHANGED <<sv_to_client, current>>
  BY Zenon DEF request_read
<1>2. state = "REQ_READ"
  BY Zenon DEF request_read
<1>3. Live /\ origin = NoOrigin
  BY <1>1, <1>2, RecvLive DEF Silent, Met
<1>4. CASE Return(state, slot, origin)
  BY <1>2, <1>3, <1>4, ReturnMet DEF Live, Silent, States
<1>5. CASE req_generate_response_error(ClientFd, slot, origin)
  BY <1>3, <1>5, ErrorMet, Descriptors DEF Live
<1>6. CASE initiate_origin_connection(ClientFd, 1)
  BY <1>3, <1>6, InitiateMet, Descriptors, Socks5Assumption DEF Live
<1>7. CASE ReturnWatching("REQ_RESOLVE", ClientFd, "noop", slot, origin)
  <2>1. Met("REQ_RESOLVE", [slot EXCEPT ![ClientFd] = "noop"], origin)
    BY <1>3, Descriptors DEF Live, Registers, Met, Handles, NoOrigin
  <2>. QED
    BY <1>3, <1>7, <2>1, ReturnWatchingMet, HandlerStates, Descriptors DEF Live
<1>. QED
  BY <1>1, <1>4, <1>5, <1>6, <1>7

\* A reply is queued by the first two phases: the client is watched for room.
LEMMA PhaseMet ==
  ASSUME Held, Silent, negotiation_read \/ authentication_read
  PROVE  Silent'
<1>1. PICK m : /\ recv_and_parse(m)
               /\ \/ Return(state, slot, origin) \/ Return("SOCKS_ERROR", slot, origin)
                  \/ \E next \in {"NEGOTIATION_WRITE", "AUTH_WRITE"} :
                       ReturnWatching(next, ClientFd, "write", slot, origin)
  <2>1. CASE negotiation_read
    BY <2>1, Zenon DEF negotiation_read
  <2>2. CASE authentication_read
    BY <2>2, Zenon DEF authentication_read
  <2>. QED
    BY <2>1, <2>2
<1>2. Live /\ origin = NoOrigin
  <2>1. state \in {"NEGOTIATION_READ", "AUTH_READ"}
    BY Zenon DEF negotiation_read, authentication_read
  <2>. QED
    BY <1>1, <2>1, RecvLive DEF Silent, Met
<1>3. CASE Return(state, slot, origin)
  BY <1>2, <1>3, ReturnMet DEF Live, Silent, Held
<1>4. CASE Return("SOCKS_ERROR", slot, origin)
  BY <1>2, <1>4, ReturnMet, HandlerStates DEF Live
<1>5. ASSUME NEW next \in {"NEGOTIATION_WRITE", "AUTH_WRITE"},
             ReturnWatching(next, ClientFd, "write", slot, origin)
      PROVE  Silent'
  <2>1. Met(next, [slot EXCEPT ![ClientFd] = "write"], origin)
    BY <1>2, Descriptors DEF Live, Registers, Met, Handles, NoOrigin
  <2>2. next \in States /\ ClientFd \in Fd
    BY HandlerStates, Descriptors
  <2>. QED
    BY <1>2, <1>5, <2>1, <2>2, ReturnWatchingMet DEF Live
<1>. QED
  BY <1>1, <1>3, <1>4, <1>5

LEMMA ResolveMet ==
  ASSUME Held, Counted, Silent, request_resolve
  PROVE  Silent'
<1>1. process = "up"
  BY Zenon DEF request_resolve
<1>2. CASE UNCHANGED <<state, client_fd, origin, slot, sv_to_client, current, freed, process>>
  BY <1>2 DEF Silent, Met
<1>3. CASE /\ slot[ClientFd] # "unused" /\ state = "REQ_RESOLVE"
           /\ initiate_origin_connection(ClientFd, current)
  <2>1. Live
    BY <1>1, <1>3, HeldOpen, Descriptors DEF Live
  <2>. QED
    BY <1>3, <2>1, InitiateMet, Descriptors DEF Counted, Live
<1>. QED
  BY <1>2, <1>3, Zenon DEF request_resolve

LEMMA ConnectMet ==
  ASSUME Held, Counted, Silent, NEW fd \in Fd, request_connect(fd)
  PROVE  Silent'
<1>1. state = "REQ_CONNECT" /\ Event(fd, "write")
  BY Zenon DEF request_connect
<1>2. Live
  BY <1>1, EventOpen DEF Live
<1>3. slot[ClientFd] # "read"
  BY <1>1, Descriptors DEF Silent, Met, Handles
<1>4. CASE Return("REQ_WRITE",
                  [[slot EXCEPT ![client_fd] = "write"] EXCEPT ![origin.fd] = "read"],
                  origin)
  <2>. DEFINE t == [[slot EXCEPT ![client_fd] = "write"] EXCEPT ![origin.fd] = "read"]
  <2>1. Registers(t, origin)
    BY <1>2, AnsweredRegisters
  <2>2. Met("REQ_WRITE", t, origin)
    BY <1>1, <1>2, Descriptors DEF Live, Silent, Met, Handles, Registers, Origin
  <2>3. Return("REQ_WRITE", t, origin)
    BY <1>4
  <2>. HIDE DEF t
  <2>. QED
    BY <1>2, <2>1, <2>2, <2>3, ReturnMet DEF Live, States
<1>5. CASE req_generate_response_error(fd, OriginClosed, NoOrigin)
  BY <1>2, <1>5, ErrorMet, ClosedRegisters DEF Live
<1>6. CASE initiate_origin_connection(fd, AddrsAfterFailure)
  BY <1>2, <1>3, <1>6, InitiateMet DEF Counted, AddrsAfterFailure, Live
<1>. QED
  BY <1>4, <1>5, <1>6, Zenon DEF request_connect

LEMMA ReplyMet ==
  ASSUME Held, Silent, reply_write
  PROVE  Silent'
<1>1. /\ state \in Writing /\ Event(ClientFd, "write")
      /\ \/ Return(state, slot, origin) \/ Return("SOCKS_ERROR", slot, origin)
         \/ ReturnWatching(After(state), ClientFd, "read", slot, origin)
  BY Zenon DEF reply_write
<1>2. Live
  BY <1>1, EventOpen, Descriptors DEF Live
<1>3. CASE Return(state, slot, origin)
  BY <1>2, <1>3, ReturnMet DEF Live, Silent, Held
<1>4. CASE Return("SOCKS_ERROR", slot, origin)
  BY <1>2, <1>4, ReturnMet, HandlerStates DEF Live
<1>5. CASE ReturnWatching(After(state), ClientFd, "read", slot, origin)
  <2>1. /\ After(state) \in {"AUTH_READ", "REQ_READ", "COPY"}
        /\ After(state) # "COPY" => state # "REQ_WRITE"
    BY <1>1 DEF After, Writing
  <2>2. After(state) \in States
    BY <2>1 DEF States
  <2>3. After(state) # "COPY" => origin = NoOrigin
    BY <1>1, <2>1 DEF Silent, Met, Writing
  <2>4. Met(After(state), [slot EXCEPT ![ClientFd] = "read"], origin)
    BY <1>2, <2>1, <2>3, Descriptors DEF Live, Registers, Met, Handles, NoOrigin
  <2>. QED
    BY <1>2, <1>5, <2>2, <2>4, ReturnWatchingMet, Descriptors DEF Live
<1>. QED
  BY <1>1, <1>3, <1>4, <1>5

LEMMA CopyMet ==
  ASSUME Held, Silent, copy \/ copy_no_origin
  PROVE  Silent'
<1>1. CASE copy
  <2>1. /\ state = "COPY" /\ \E fd \in {ClientFd, origin.fd}, ev \in {"read", "write"} : Event(fd, ev)
        /\ \/ \E i, j \in {"read", "write"} :
                Return("COPY", [[slot EXCEPT ![ClientFd] = i] EXCEPT ![origin.fd] = j], origin)
           \/ \E st \in Final : Return(st, slot, origin)
    BY <1>1, Zenon DEF copy
  <2>2. Live
    BY <2>1, HeldOpen, Descriptors DEF Event, Live, Held, Final
  <2>3. ASSUME NEW i \in {"read", "write"}, NEW j \in {"read", "write"},
               Return("COPY", [[slot EXCEPT ![ClientFd] = i] EXCEPT ![origin.fd] = j], origin)
        PROVE  Silent'
    <3>. DEFINE t == [[slot EXCEPT ![ClientFd] = i] EXCEPT ![origin.fd] = j]
    <3>. DEFINE s == [slot EXCEPT ![ClientFd] = i]
    <3>1. Registers(t, origin)
      <4>1. Registers(s, origin)
        BY <2>2, Descriptors DEF Live, Registers, Interest
      <4>2. t = [s EXCEPT ![origin.fd] = j]
        OBVIOUS
      <4>. HIDE DEF s, t
      <4>3. s \in [Fd -> Interest] /\ (origin.fd \in Fd => s[origin.fd] # "unused")
        BY <4>1, Descriptors DEF Registers
      <4>4. t \in [Fd -> Interest] /\ \A f \in Fd : t[f] = "unused" <=> s[f] = "unused"
        BY <4>2, <4>3 DEF Interest
      <4>. QED
        BY <4>1, <4>4 DEF Registers
    <3>2. Met("COPY", t, origin)
      BY DEF Met, Handles
    <3>3. Return("COPY", t, origin)
      BY <2>3
    <3>. HIDE DEF t
    <3>. QED
      BY <2>2, <3>1, <3>2, <3>3, ReturnMet DEF Live, States
  <2>4. ASSUME NEW st \in Final, Return(st, slot, origin)
        PROVE  Silent'
    BY <2>2, <2>4, ReturnMet, HandlerStates DEF Live
  <2>. QED
    BY <2>1, <2>3, <2>4
<1>2. CASE copy_no_origin
  <2>1. /\ Event(ClientFd, "read")
        /\ \/ Return("SOCKS_ERROR", slot, origin) \/ Return("SOCKS_DONE", slot, origin)
           \/ process' = "wild" /\ UNCHANGED <<state, client_fd, origin, slot, freed>>
    BY <1>2, Zenon DEF copy_no_origin
  <2>2. Live
    BY <2>1, EventOpen, Descriptors DEF Live
  <2>3. CASE Return("SOCKS_ERROR", slot, origin) \/ Return("SOCKS_DONE", slot, origin)
    BY <2>2, <2>3, ReturnMet, HandlerStates DEF Live, Final
  <2>4. CASE process' = "wild" /\ UNCHANGED <<state, client_fd, origin, slot, freed>>
    BY <2>4 DEF Silent, Met
  <2>. QED
    BY <2>1, <2>3, <2>4
<1>. QED
  BY <1>1, <1>2

\* Only an origin that has spoken could meet a state without a handler.
LEMMA AbortMet == ASSUME Silent PROVE ~stm_abort
<1>. SUFFICES ASSUME NEW fd \in Fd, NEW ev \in {"read", "write"},
                     Event(fd, ev), state \notin Handles(ev)
              PROVE  FALSE
  BY DEF stm_abort
<1>1. fd # ClientFd /\ ev = "read"
  BY DEF Silent, Met, Event
<1>2. origin.said
  BY <1>1 DEF Event, Ready
<1>3. state = "COPY"
  BY <1>2 DEF Silent, Met
<1>. QED
  BY <1>1, <1>3 DEF Handles

LEMMA OriginMet ==
  ASSUME Silent, ~OriginFirst, origin_answers \/ origin_speaks
  PROVE  Silent'
<1>1. UNCHANGED <<state, slot, process>>
  BY Zenon DEF origin_answers, origin_speaks
<1>2. origin # NoOrigin
  BY DEF origin_answers, origin_speaks, NoOrigin
<1>3. origin'.said => state = "COPY"
  BY DEF origin_answers, origin_speaks
<1>. QED
  BY <1>1, <1>2, <1>3 DEF Silent, Met

LEMMA NextSilent == ~OriginFirst /\ Inv /\ Silent /\ [Next]_vars => Silent'
<1>. SUFFICES ASSUME ~OriginFirst, Inv, Silent, [Next]_vars PROVE Silent'
  OBVIOUS
<1>1. Held /\ Counted
  BY DEF Inv, CInv
<1>2. CASE read_error \/ write_error
  <2>1. /\ Event(ClientFd, "read") \/ Event(ClientFd, "write")
        /\ Return("SOCKS_ERROR", slot, origin)
    BY <1>2, Zenon DEF read_error, write_error
  <2>2. Live
    BY <1>1, <2>1, EventOpen, Descriptors DEF Live
  <2>. QED
    BY <2>1, <2>2, ReturnMet, HandlerStates DEF Live
<1>3. CASE UNCHANGED <<state, origin, slot, process>>
  BY <1>3 DEF Silent, Met
<1>4. CASE request_resolve_domain_name \/ client_sends \/ client_leaves \/ UNCHANGED vars
  <2>1. UNCHANGED <<state, origin, slot, process>>
    BY <1>4 DEF request_resolve_domain_name, client_sends, client_leaves, conn, vars
  <2>. QED
    BY <1>3, <2>1
<1>. QED
  BY <1>1, <1>2, <1>4, PhaseMet, RequestMet, ResolveMet, ConnectMet, ReplyMet, CopyMet,
     AbortMet, OriginMet, Zenon DEF Next, Server

\* With origins that do not speak first, no event reaches abort(), and
\* socksv5_done finds every descriptor it closes registered: the interests
\* each handler leaves are those its next state has handlers for, whatever
\* the client sends, and however the connects end.
THEOREM NeverAborts == ASSUME ~OriginFirst PROVE Spec => []NoAbort
<1>1. Init => Silent
  BY Descriptors DEF Init, Silent, Met, Handles, NoOrigin
<1>2. Inv /\ Silent /\ [Next]_vars => Silent'
  BY NextSilent
<1>3. Silent => NoAbort
  BY DEF Silent, NoAbort
<1>. QED
  BY <1>1, <1>2, <1>3, Invariance, PTL DEF Spec
=============================================================================
