----------------------------- MODULE CopyProofs -----------------------------
(***************************************************************************)
(* Proofs about the COPY phase of server/copy.c for every buffer size,     *)
(* every room in the sockets, any number of bytes from either peer and any *)
(* data that came with the request: the types, and that no byte is lost,   *)
(* repeated or reordered on its way from one peer to the other.  When none *)
(* came with it: no wait of the connection is for an event that never      *)
(* comes, and how it ends is right.                                        *)
(***************************************************************************)
EXTENDS Copy, TLAPS, SequenceTheorems

Buffer == [q : Seq(Nat), gap : 0 .. Capacity]

\* The types of the sockets and of the peers, which TypeOK leaves out.
Wires == /\ arrived \in [Side -> Seq(Nat)] /\ outgoing \in [Side -> Seq(Nat)]
         /\ got \in [Side -> Seq(Nat)] /\ sent \in [Side -> Nat]
         /\ first \in Side

\* Handlers are left to run only while the connection is in COPY.
Closed == pending # {} => state = "COPY"

IInv == TypeOK /\ Wires /\ Closed /\ StreamIntegrity

-----------------------------------------------------------------------------
(* Sequences of bytes.                                                     *)

LEMMA Sides == /\ \A s \in Side : /\ Other(s) \in Side /\ Other(s) # s
                                  /\ Other(Other(s)) = s
               /\ \A s, t \in Side : t = s \/ t = Other(s)
<1>1. Other("client") = "origin" /\ Other("origin") = "client"
  BY DEF Other, Side
<1>. QED
  BY <1>1 DEF Side

\* Concatenation, kept folded so that the provers reason by the two lemmas.
Cat(a, b) == a \o b

LEMMA Associative ==
  ASSUME NEW a \in Seq(Nat), NEW b \in Seq(Nat), NEW c \in Seq(Nat)
  PROVE  Cat(Cat(a, b), c) = Cat(a, Cat(b, c))
<1>1. (a \o b) \o c = a \o (b \o c)
  BY ConcatAssociative
<1>. QED
  BY <1>1, Zenon DEF Cat

LEMMA Joined ==
  ASSUME NEW a \in Seq(Nat), NEW b \in Seq(Nat)
  PROVE  Cat(a, b) \in Seq(Nat)
  BY ConcatProperties, Zenon DEF Cat

LEMMA StreamType ==
  ASSUME NEW n \in Nat
  PROVE  Stream(n) \in Seq(Nat) /\ Len(Stream(n)) = n
<1>1. Stream(n) \in [1 .. n -> Nat]
  BY DEF Stream
<1>2. Stream(n) \in Seq(Nat)
  BY <1>1, SeqDef
<1>. QED
  BY <1>2, LenProperties DEF Stream

\* What a stream begins with is a stream.
LEMMA PrefixOfStream ==
  ASSUME NEW n \in Nat, NEW a \in Seq(Nat), NEW b \in Seq(Nat), a \o b = Stream(n)
  PROVE  a = Stream(Len(a)) /\ Len(a) <= n
<1>. DEFINE c == a \o b
<1>1. /\ \A i \in 1 .. Len(a) + Len(b) : c[i] = IF i <= Len(a) THEN a[i] ELSE b[i - Len(a)]
      /\ Len(c) = Len(a) + Len(b)
  BY ConcatProperties, Zenon
<1>2. Len(a) \in Nat /\ Len(b) \in Nat
  BY LenProperties
<1>3. c = Stream(n)
  OBVIOUS
<1>. HIDE DEF c
<1>4. n = Len(a) + Len(b)
  BY <1>1, <1>3, StreamType
<1>5. \A i \in 1 .. Len(a) : a[i] = i
  <2>1. \A i \in 1 .. n : c[i] = i
    BY <1>3 DEF Stream
  <2>2. ASSUME NEW i \in 1 .. Len(a) PROVE a[i] = i
    <3>1. i \in 1 .. Len(a) + Len(b) /\ i <= Len(a) /\ i \in 1 .. n
      BY <1>2, <1>4
    <3>2. c[i] = a[i]
      BY <1>1, <3>1
    <3>. QED
      BY <2>1, <3>1, <3>2
  <2>. QED
    BY <2>2
<1>6. a = Stream(Len(a))
  <2>1. Stream(Len(a)) \in Seq(Nat) /\ Len(Stream(Len(a))) = Len(a)
    BY <1>2, StreamType
  <2>2. \A i \in 1 .. Len(a) : a[i] = Stream(Len(a))[i]
    BY <1>5 DEF Stream
  <2>. QED
    BY <2>1, <2>2, SeqEqual
<1>. QED
  BY <1>2, <1>4, <1>6

LEMMA StreamGrows ==
  ASSUME NEW n \in Nat
  PROVE  Append(Stream(n), n + 1) = Stream(n + 1)
<1>1. Stream(n) \in Seq(Nat) /\ Len(Stream(n)) = n
  BY StreamType
<1>2. Stream(n + 1) \in Seq(Nat) /\ Len(Stream(n + 1)) = n + 1
  BY StreamType
<1>. DEFINE c == Append(Stream(n), n + 1)
<1>3. /\ c \in Seq(Nat) /\ Len(c) = n + 1
      /\ \A i \in 1 .. n : c[i] = Stream(n)[i]
      /\ c[n + 1] = n + 1
  BY <1>1, AppendProperties
<1>. HIDE DEF c
<1>4. \A i \in 1 .. n + 1 : c[i] = Stream(n + 1)[i]
  BY <1>3 DEF Stream
<1>5. c = Stream(n + 1)
  BY <1>2, <1>3, <1>4, SeqEqual
<1>. QED
  BY <1>5 DEF c

\* Cutting a sequence anywhere gives two that make it up.
LEMMA Cut ==
  ASSUME NEW a \in Seq(Nat), NEW n \in 0 .. Len(a)
  PROVE  /\ SubSeq(a, 1, n) \in Seq(Nat) /\ Len(SubSeq(a, 1, n)) = n
         /\ SubSeq(a, n + 1, Len(a)) \in Seq(Nat)
         /\ Len(SubSeq(a, n + 1, Len(a))) = Len(a) - n
         /\ SubSeq(a, 1, n) \o SubSeq(a, n + 1, Len(a)) = a
<1>1. Len(a) \in Nat
  BY LenProperties
<1>2. SubSeq(a, 1, n) \in Seq(Nat) /\ SubSeq(a, n + 1, Len(a)) \in Seq(Nat)
  BY <1>1, SubSeqProperties, ElementOfSeq
<1>3. Len(SubSeq(a, 1, n)) = n /\ Len(SubSeq(a, n + 1, Len(a))) = Len(a) - n
  BY <1>1, SubSeqProperties
<1>4. SubSeq(a, 1, n) \o SubSeq(a, n + 1, Len(a)) = SubSeq(a, 1, Len(a))
  <2>1. /\ a \in Seq(Nat) /\ 1 \in 1 .. Len(a) + 1
        /\ n \in 1 - 1 .. Len(a) /\ Len(a) \in n .. Len(a)
    BY <1>1
  <2>. QED
    BY <2>1, ConcatAdjacentSubSeq
<1>5. SubSeq(a, 1, Len(a)) = a
  BY SubSeqFull
<1>. QED
  BY <1>2, <1>3, <1>4, <1>5

-----------------------------------------------------------------------------
(* What the operations of the buffer and the handlers of copy.c do to the  *)
(* bytes under way from s to the other side.                               *)

LEMMA ConsumeKeeps ==
  ASSUME NEW b \in Buffer, Room(b) >= 0, NEW n \in 0 .. Len(b.q)
  PROVE  /\ Consume(b, n) \in Buffer /\ Room(Consume(b, n)) >= 0
         /\ Consume(b, n).q = SubSeq(b.q, n + 1, Len(b.q))
<1>1. b.q \in Seq(Nat) /\ Len(b.q) \in Nat /\ b.gap \in Nat /\ Capacity \in Nat
  BY LenProperties, CopyAssumption DEF Buffer
<1>2. /\ SubSeq(b.q, n + 1, Len(b.q)) \in Seq(Nat)
      /\ Len(SubSeq(b.q, n + 1, Len(b.q))) = Len(b.q) - n
  BY <1>1, Cut
<1>3. CASE n = Len(b.q)
  <2>1. Consume(b, n) = EmptyQueue
    BY <1>3 DEF Consume
  <2>2. <<>> \in Seq(Nat) /\ Len(<<>>) = 0
    BY EmptySeq
  <2>3. SubSeq(b.q, n + 1, Len(b.q)) = <<>>
    BY <1>1, <1>2, <1>3, EmptySeq
  <2>4. EmptyQueue \in Buffer /\ EmptyQueue.q = <<>> /\ EmptyQueue.gap = 0
    BY <1>1, <2>2 DEF EmptyQueue, Buffer
  <2>5. Room(EmptyQueue) >= 0
    BY <1>1, <2>2, <2>4 DEF Room
  <2>. QED
    BY <2>1, <2>3, <2>4, <2>5
<1>4. CASE n # Len(b.q)
  <2>. DEFINE r == SubSeq(b.q, n + 1, Len(b.q))
  <2>1. Consume(b, n) = [q |-> r, gap |-> b.gap + n]
    BY <1>4 DEF Consume
  <2>2. r \in Seq(Nat) /\ Len(r) = Len(b.q) - n
    BY <1>2
  <2>. HIDE DEF r
  <2>3. b.gap + n \in 0 .. Capacity
    BY <1>1 DEF Room
  <2>4. Consume(b, n) \in Buffer
    BY <2>1, <2>2, <2>3 DEF Buffer
  <2>5. Room(Consume(b, n)) = Capacity - (b.gap + n) - Len(r)
    BY <2>1 DEF Room
  <2>6. Room(Consume(b, n)) >= 0
    BY <1>1, <2>2, <2>5 DEF Room
  <2>. QED
    BY <2>1, <2>4, <2>6 DEF r
<1>. QED
  BY <1>3, <1>4

LEMMA ExtendKeeps ==
  ASSUME NEW b \in Buffer, NEW y \in Seq(Nat), Len(y) <= Room(b)
  PROVE  /\ Extend(b, y) \in Buffer /\ Room(Extend(b, y)) >= 0
         /\ Extend(b, y).q = b.q \o y
<1>1. /\ b.q \in Seq(Nat) /\ Len(b.q) \in Nat /\ Len(y) \in Nat /\ b.gap \in 0 .. Capacity
      /\ Capacity \in Nat
  BY LenProperties, CopyAssumption DEF Buffer
<1>2. b.q \o y \in Seq(Nat) /\ Len(b.q \o y) = Len(b.q) + Len(y)
  BY <1>1, ConcatProperties
<1>3. Extend(b, y) = [q |-> b.q \o y, gap |-> b.gap]
  BY DEF Extend
<1>4. Room(Extend(b, y)) = Capacity - b.gap - Len(b.q \o y)
  BY <1>3 DEF Room
<1>5. Room(Extend(b, y)) >= 0
  BY <1>1, <1>2, <1>4 DEF Room
<1>. QED
  BY <1>1, <1>2, <1>3, <1>5 DEF Buffer

\* The part of the types that the handlers set apart from the bytes.
Control == /\ state \in {"COPY", "SOCKS_DONE", "SOCKS_ERROR"}
           /\ eof \in [Side -> BOOLEAN] /\ interest \in [Side -> Op]
           /\ shut \in [Side -> SUBSET {"rd", "wr"}] /\ bytes \in Int

\* The bytes q of side s are given to the other side's socket in part, x,
\* and the rest r stays in the buffer; nothing is given to a reset socket.
Moved(s, q) ==
  \E x \in Seq(Nat), r \in Buffer :
    /\ x \o r.q = q /\ Room(r) >= 0
    /\ buf' = [buf EXCEPT ![s] = r]
    /\ outgoing' = [outgoing EXCEPT ![Other(s)] = @ \o x]
    /\ Len(x) <= SendRoom(Other(s))
    /\ x = <<>> \/ ~reset[Other(s)]

\* A handler takes y from the socket of s and moves what the buffer holds.
Passes(s) ==
  \E y, z \in Seq(Nat) :
    /\ y \o z = arrived[s] /\ arrived' = [arrived EXCEPT ![s] = z]
    /\ Moved(s, buf[s].q \o y)

LEMMA Interests ==
  ASSUME NEW t \in Side, NEW intr \in [Side -> Op], NEW rest
  PROVE  InterestAfterSend(t, intr, rest) \in [Side -> Op]
  BY Sides DEF InterestAfterSend, Op

LEMMA Shuts ==
  ASSUME NEW t \in Side, shut \in [Side -> SUBSET {"rd", "wr"}]
  PROVE  ShutWhenDrained(t) \in [Side -> SUBSET {"rd", "wr"}]
  BY DEF ShutWhenDrained

LEMMA NothingMoved ==
  ASSUME TypeOK, Wires, NEW s \in Side, NEW q \in Buffer, Room(q) >= 0,
         buf' = [buf EXCEPT ![s] = q], outgoing' = outgoing
  PROVE  Moved(s, q.q)
<1>1. <<>> \in Seq(Nat) /\ Len(<<>>) = 0 /\ q.q \in Seq(Nat) /\ <<>> \o q.q = q.q
  BY EmptySeq, ConcatEmptySeq DEF Buffer
<1>2. outgoing[Other(s)] \o <<>> = outgoing[Other(s)]
  BY Sides, ConcatEmptySeq DEF Wires
<1>3. outgoing' = [outgoing EXCEPT ![Other(s)] = @ \o <<>>]
  BY <1>2, Sides DEF Wires
<1>4. Len(<<>>) <= SendRoom(Other(s))
  BY <1>1, Sides DEF TypeOK
<1>. QED
  BY <1>1, <1>3, <1>4 DEF Moved

LEMMA SendMoves ==
  ASSUME TypeOK, Wires, NEW t \in Side, NEW q \in Buffer, Room(q) >= 0,
         NEW intr \in [Side -> Op], copy_write_send(t, q, intr)
  PROVE  Moved(Other(t), q.q) /\ Control'
<1>. DEFINE n == Least(Len(q.q), SendRoom(t))
            x == SubSeq(q.q, 1, n)
            r == Consume(q, n)
<1>1. q.q \in Seq(Nat) /\ Len(q.q) \in Nat /\ SendRoom(t) \in Int /\ SendRoom(t) > 0
  <2>1. Len(outgoing[t]) \in Nat
    BY LenProperties DEF Wires
  <2>. QED
    BY <2>1, LenProperties, CopyAssumption DEF Buffer, SendRoom, copy_write_send
<1>2. n \in 0 .. Len(q.q) /\ n <= SendRoom(t) /\ n \in Int
  BY <1>1 DEF Least
<1>3. /\ outgoing' = [outgoing EXCEPT ![t] = @ \o x]
      /\ buf' = [buf EXCEPT ![Other(t)] = r]
  BY DEF copy_write_send, handle_write_data
<1>4. ~reset[t]
  BY DEF copy_write_send, Broken
<1>5. Control'
  <2>1. interest' \in [Side -> Op]
    BY Interests DEF copy_write_send, handle_write_data
  <2>2. shut' \in [Side -> SUBSET {"rd", "wr"}] /\ state' \in {"COPY", "SOCKS_DONE", "SOCKS_ERROR"}
    BY Shuts DEF copy_write_send, handle_write_data, TypeOK
  <2>3. eof' \in [Side -> BOOLEAN]
    BY DEF copy_write_send, TypeOK
  <2>4. bytes' = bytes + n
    BY DEF copy_write_send
  <2>5. bytes' \in Int
    BY <1>2, <2>4 DEF TypeOK
  <2>. QED
    BY <2>1, <2>2, <2>3, <2>5 DEF Control
<1>. HIDE DEF n
<1>6. x \in Seq(Nat) /\ Len(x) = n /\ r \in Buffer /\ Room(r) >= 0 /\ x \o r.q = q.q
  <2>1. r \in Buffer /\ Room(r) >= 0 /\ r.q = SubSeq(q.q, n + 1, Len(q.q))
    BY <1>2, ConsumeKeeps
  <2>2. x \in Seq(Nat) /\ Len(x) = n /\ x \o SubSeq(q.q, n + 1, Len(q.q)) = q.q
    BY <1>1, <1>2, Cut
  <2>. QED
    BY <2>1, <2>2
<1>7. t = Other(Other(t)) /\ Other(t) \in Side
  BY Sides
<1>. HIDE DEF x, r
<1>8. Moved(Other(t), q.q)
  BY <1>2, <1>3, <1>4, <1>6, <1>7 DEF Moved
<1>. QED
  BY <1>5, <1>8

LEMMA FailMoves ==
  ASSUME TypeOK, Wires, NEW t \in Side, NEW q \in Buffer, Room(q) >= 0,
         NEW intr \in [Side -> Op], copy_write_fail(t, q, intr)
  PROVE  Moved(Other(t), q.q) /\ Control'
<1>1. Other(t) \in Side
  BY Sides
<1>2. Moved(Other(t), q.q)
  BY <1>1, NothingMoved DEF copy_write_fail
<1>3. Control'
  BY DEF copy_write_fail, TypeOK, Control
<1>. QED
  BY <1>2, <1>3

LEMMA NothingTaken ==
  ASSUME TypeOK, Wires, NEW s \in Side, Moved(s, buf[s].q), arrived' = arrived
  PROVE  Passes(s)
<1>1. /\ <<>> \in Seq(Nat) /\ arrived[s] \in Seq(Nat) /\ buf[s].q \in Seq(Nat)
      /\ <<>> \o arrived[s] = arrived[s] /\ buf[s].q \o <<>> = buf[s].q
  BY EmptySeq, ConcatEmptySeq DEF Wires, TypeOK
<1>2. arrived' = [arrived EXCEPT ![s] = arrived[s]]
  BY DEF Wires
<1>. QED
  BY <1>1, <1>2 DEF Passes

LEMMA NothingPasses ==
  ASSUME TypeOK, Wires, NEW s \in Side, UNCHANGED <<buf, arrived, outgoing>>
  PROVE  Passes(s)
<1>1. buf[s] \in Buffer /\ Room(buf[s]) >= 0 /\ buf' = [buf EXCEPT ![s] = buf[s]]
  BY DEF TypeOK, Buffer
<1>. QED
  BY <1>1, NothingMoved, NothingTaken

LEMMA WritePasses ==
  ASSUME TypeOK, Wires, NEW t \in Side, copy_write(t)
  PROVE  Passes(Other(t)) /\ Control'
<1>1. Other(t) \in Side
  BY Sides
<1>. DEFINE q == buf[Other(t)]
<1>2. q \in Buffer /\ Room(q) >= 0 /\ interest \in [Side -> Op]
  BY <1>1 DEF TypeOK, Buffer, Op
<1>3. arrived' = arrived
  BY DEF copy_write
<1>4. CASE copy_write_idle(t)
  <2>1. Passes(Other(t))
    BY <1>1, <1>3, <1>4, NothingPasses DEF copy_write_idle
  <2>2. Control'
    BY <1>4, Shuts DEF copy_write_idle, TypeOK, Control, Op
  <2>. QED
    BY <2>1, <2>2
<1>5. CASE copy_write_send(t, q, interest) \/ copy_write_fail(t, q, interest)
  <2>1. Moved(Other(t), q.q) /\ Control'
    BY <1>2, <1>5, SendMoves, FailMoves
  <2>. QED
    BY <1>1, <1>3, <2>1, NothingTaken
<1>. QED
  BY <1>4, <1>5 DEF copy_write

LEMMA ReadPasses ==
  ASSUME TypeOK, Wires, NEW s \in Side, copy_read(s)
  PROVE  Passes(s) /\ Control'
<1>0. Other(s) \in Side /\ Other(Other(s)) = s
  BY Sides
<1>1. CASE copy_read_full(s)
  <2>1. UNCHANGED <<buf, state, eof, interest, bytes, shut, arrived, outgoing>>
    BY <1>1 DEF copy_read_full, conn
  <2>2. Passes(s)
    BY <2>1, NothingPasses
  <2>. QED
    BY <2>1, <2>2 DEF Control, TypeOK, Op
<1>2. CASE copy_read_error(s)
  <2>1. /\ UNCHANGED <<buf, eof, interest, bytes, shut, arrived, outgoing>>
        /\ state' = "SOCKS_ERROR"
    BY <1>2 DEF copy_read_error
  <2>2. Passes(s)
    BY <2>1, NothingPasses
  <2>. QED
    BY <2>1, <2>2 DEF Control, TypeOK, Op
<1>3. CASE copy_read_eof(s)
  <2>1. Passes(s)
    BY <1>3, NothingPasses DEF copy_read_eof
  <2>2. eof' \in [Side -> BOOLEAN]
    BY <1>3 DEF copy_read_eof, EofAfter, TypeOK
  <2>3. shut' \in [Side -> SUBSET {"rd", "wr"}]
    BY <1>3 DEF copy_read_eof, TypeOK
  <2>4. state' \in {"COPY", "SOCKS_DONE"} /\ interest' = interest /\ bytes' = bytes
    BY <1>3 DEF copy_read_eof
  <2>. QED
    BY <2>1, <2>2, <2>3, <2>4 DEF Control, TypeOK, Op
<1>4. CASE copy_read_data(s)
  <2>. DEFINE t == Other(s)
              n == Least(Len(arrived[s]), Room(buf[s]))
              y == SubSeq(arrived[s], 1, n)
              z == SubSeq(arrived[s], n + 1, Len(arrived[s]))
              q == Extend(buf[s], y)
              intr == [interest EXCEPT ![t] = "write"]
  <2>1. /\ arrived[s] \in Seq(Nat) /\ Len(arrived[s]) \in Nat
        /\ buf[s] \in Buffer /\ Room(buf[s]) \in Nat
    <3>1. arrived[s] \in Seq(Nat) /\ Len(arrived[s]) \in Nat
      BY LenProperties DEF Wires
    <3>2. buf[s] \in Buffer /\ Room(buf[s]) >= 0
      BY DEF TypeOK, Buffer
    <3>3. Len(buf[s].q) \in Nat /\ buf[s].gap \in Nat /\ Capacity \in Nat
      BY <3>2, LenProperties, CopyAssumption DEF Buffer
    <3>. QED
      BY <3>1, <3>2, <3>3 DEF Room
  <2>2. n \in 0 .. Len(arrived[s]) /\ n <= Room(buf[s])
    BY <2>1 DEF Least
  <2>3. arrived' = [arrived EXCEPT ![s] = z]
    BY <1>4 DEF copy_read_data
  <2>4. \/ /\ buf' = [buf EXCEPT ![s] = q]
           /\ UNCHANGED <<state, eof, interest, bytes, shut, outgoing>>
        \/ copy_write_send(t, q, intr)
        \/ copy_write_fail(t, q, intr)
    BY <1>4 DEF copy_read_data
  <2>5. intr \in [Side -> Op]
    BY DEF TypeOK, Op
  <2>. HIDE DEF n, intr
  <2>6. y \in Seq(Nat) /\ Len(y) = n /\ z \in Seq(Nat) /\ y \o z = arrived[s]
    BY <2>1, <2>2, Cut
  <2>. HIDE DEF y, z
  <2>7. q \in Buffer /\ Room(q) >= 0 /\ q.q = buf[s].q \o y
    BY <2>1, <2>2, <2>6, ExtendKeeps
  <2>. HIDE DEF q
  <2>8. Moved(s, q.q) /\ Control'
    <3>1. CASE /\ buf' = [buf EXCEPT ![s] = q]
               /\ UNCHANGED <<state, eof, interest, bytes, shut, outgoing>>
      BY <2>7, <3>1, NothingMoved DEF TypeOK, Control, Op
    <3>2. CASE copy_write_send(t, q, intr)
      BY <1>0, <2>5, <2>7, <3>2, SendMoves
    <3>3. CASE copy_write_fail(t, q, intr)
      BY <1>0, <2>5, <2>7, <3>3, FailMoves
    <3>. QED
      BY <2>4, <3>1, <3>2, <3>3
  <2>. QED
    BY <2>3, <2>6, <2>7, <2>8 DEF Passes
<1>. QED
  BY <1>1, <1>2, <1>3, <1>4 DEF copy_read

-----------------------------------------------------------------------------
(* The invariant, one direction at a time.                                 *)

Given(t) == got[t] \o outgoing[t]

Intact(s) ==
  /\ Len(Given(Other(s))) <= sent[s]
  /\ Given(Other(s)) = Stream(Len(Given(Other(s))))
  /\ state = "COPY" /\ ~reset[Other(s)] =>
       Given(Other(s)) \o buf[s].q \o arrived[s] = Stream(sent[s])

LEMMA Integrity == StreamIntegrity <=> \A s \in Side : Intact(s)
  BY DEF StreamIntegrity, Intact, Given

LEMMA GivenType ==
  ASSUME Wires, NEW t \in Side
  PROVE  Given(t) \in Seq(Nat) /\ Len(Given(t)) \in Nat
<1>1. got[t] \in Seq(Nat) /\ outgoing[t] \in Seq(Nat)
  BY DEF Wires
<1>2. Given(t) \in Seq(Nat)
  BY <1>1, ConcatProperties, Zenon DEF Given
<1>. QED
  BY <1>2, LenProperties

LEMMA PassKeepsIntact ==
  ASSUME TypeOK, Wires, state = "COPY", NEW s \in Side, Passes(s), Intact(s),
         UNCHANGED <<got, sent, reset>>
  PROVE  Intact(s)'
<1>. DEFINE t == Other(s)
<1>1. PICK y \in Seq(Nat), z \in Seq(Nat) :
        /\ y \o z = arrived[s] /\ arrived' = [arrived EXCEPT ![s] = z]
        /\ Moved(s, buf[s].q \o y)
  BY DEF Passes
<1>2. PICK x \in Seq(Nat), r \in Buffer :
        /\ x \o r.q = buf[s].q \o y
        /\ buf' = [buf EXCEPT ![s] = r]
        /\ outgoing' = [outgoing EXCEPT ![t] = @ \o x]
        /\ x = <<>> \/ ~reset[t]
  BY <1>1 DEF Moved
<1>3. /\ t \in Side /\ got[t] \in Seq(Nat) /\ outgoing[t] \in Seq(Nat)
      /\ buf[s].q \in Seq(Nat) /\ r.q \in Seq(Nat) /\ arrived[s] \in Seq(Nat)
  BY Sides DEF Wires, TypeOK, Buffer
<1>4. outgoing'[t] = outgoing[t] \o x /\ buf'[s].q = r.q /\ arrived'[s] = z
  BY <1>1, <1>2, <1>3 DEF Wires, TypeOK
<1>5. Given(t)' = Cat(Given(t), x)
  <2>1. Given(t)' = Cat(got[t], Cat(outgoing[t], x))
    BY <1>4, Zenon DEF Given, Cat
  <2>2. Cat(Cat(got[t], outgoing[t]), x) = Cat(got[t], Cat(outgoing[t], x))
    <3>. DEFINE a == got[t]
                b == outgoing[t]
    <3>1. a \in Seq(Nat) /\ b \in Seq(Nat)
      BY <1>3
    <3>. HIDE DEF a, b
    <3>2. Cat(Cat(a, b), x) = Cat(a, Cat(b, x))
      BY <3>1, Associative
    <3>. QED
      BY <3>2, Zenon DEF a, b
  <2>3. Given(t) = Cat(got[t], outgoing[t])
    BY Zenon DEF Given, Cat
  <2>. QED
    BY <2>1, <2>2, <2>3, Zenon
<1>6. Given(t) \in Seq(Nat) /\ Len(Given(t)) \in Nat
  BY <1>3, GivenType
<1>. DEFINE g == Given(t)
            given == Cat(g, x)
            all == Cat(Cat(given, r.q), z)
<1>7. all = Cat(Cat(g, buf[s].q), arrived[s])
  <2>1. Cat(y, z) = arrived[s] /\ Cat(x, r.q) = Cat(buf[s].q, y)
    BY <1>1, <1>2, Zenon DEF Cat
  <2>. DEFINE S == Seq(Nat)
              b == buf[s].q
              rest == r.q
  <2>2. /\ \A p, q \in S : Cat(p, q) \in S
        /\ \A p, q, o \in S : Cat(Cat(p, q), o) = Cat(p, Cat(q, o))
    BY Joined, Associative
  <2>3. g \in S /\ x \in S /\ rest \in S /\ b \in S /\ y \in S /\ z \in S
    BY <1>3, <1>6
  <2>4. Cat(y, z) = arrived[s] /\ Cat(x, rest) = Cat(b, y)
    BY <2>1
  <2>. HIDE DEF S, b, rest, g
  <2>5. Cat(Cat(g, x), rest) = Cat(g, Cat(x, rest))
    BY <2>2, <2>3
  <2>6. Cat(Cat(g, b), y) = Cat(g, Cat(b, y)) /\ Cat(g, b) \in S
    BY <2>2, <2>3
  <2>7. Cat(Cat(Cat(g, b), y), z) = Cat(Cat(g, b), Cat(y, z))
    BY <2>2, <2>3, <2>6
  <2>. QED
    BY <2>4, <2>5, <2>6, <2>7, Zenon DEF b, rest
<1>8. CASE reset[t]
  <2>1. Given(t)' = Given(t)
    BY <1>2, <1>5, <1>6, <1>8, ConcatEmptySeq, Zenon DEF Cat
  <2>. QED
    BY <1>8, <2>1 DEF Intact
<1>9. CASE ~reset[t]
  <2>1. all = Stream(sent[s])
    BY <1>7, <1>9, Zenon DEF Intact, Cat
  <2>2. given \in Seq(Nat) /\ Cat(given, r.q) \in Seq(Nat) /\ Cat(r.q, z) \in Seq(Nat)
    BY <1>3, <1>6, Joined
  <2>3. all = Cat(given, Cat(r.q, z))
    BY <1>3, <2>2, Associative
  <2>4. sent[s] \in Nat /\ Given(t)' = given
    BY <1>5 DEF Wires
  <2>5. (Given(t)' \o buf'[s].q) \o arrived'[s] = Stream(sent[s])
    BY <1>4, <2>1, <2>4, Zenon DEF Cat
  <2>. HIDE DEF all, given
  <2>6. given \o Cat(r.q, z) = Stream(sent[s])
    BY <2>1, <2>3, Zenon DEF Cat
  <2>7. given = Stream(Len(given)) /\ Len(given) <= sent[s]
    BY <2>2, <2>4, <2>6, PrefixOfStream, Zenon
  <2>. QED
    BY <2>4, <2>5, <2>7 DEF Intact
<1>. QED
  BY <1>8, <1>9

LEMMA OtherWay ==
  ASSUME TypeOK, Wires, state = "COPY", NEW s \in Side, Passes(Other(s)), Intact(s),
         UNCHANGED <<got, sent, reset>>
  PROVE  Intact(s)'
<1>1. Other(s) \in Side /\ Other(s) # s /\ Other(Other(s)) = s
  BY Sides
<1>2. PICK z \in Seq(Nat), x \in Seq(Nat), r \in Buffer :
        /\ arrived' = [arrived EXCEPT ![Other(s)] = z]
        /\ buf' = [buf EXCEPT ![Other(s)] = r]
        /\ outgoing' = [outgoing EXCEPT ![s] = @ \o x]
  BY <1>1, Zenon DEF Passes, Moved
<1>3. /\ arrived'[s] = arrived[s] /\ buf'[s] = buf[s]
      /\ outgoing'[Other(s)] = outgoing[Other(s)]
  BY <1>1, <1>2 DEF Wires, TypeOK
<1>4. Given(Other(s))' = Given(Other(s))
  BY <1>3 DEF Given
<1>. QED
  BY <1>3, <1>4 DEF Intact

LEMMA PassTypes ==
  ASSUME TypeOK, Wires, NEW s \in Side, Passes(s), Control', UNCHANGED <<peer, entry>>,
         pending' \in SUBSET (Side \X Op)
  PROVE  TypeOK' /\ Wires'
<1>1. PICK z \in Seq(Nat), x \in Seq(Nat), r \in Buffer :
        /\ arrived' = [arrived EXCEPT ![s] = z]
        /\ Room(r) >= 0 /\ buf' = [buf EXCEPT ![s] = r]
        /\ outgoing' = [outgoing EXCEPT ![Other(s)] = @ \o x]
        /\ Len(x) <= SendRoom(Other(s))
  BY Zenon DEF Passes, Moved
<1>2. Other(s) \in Side
  BY Sides
<1>3. UNCHANGED <<fin, reset, sent, got, first>>
  BY DEF peer, entry
<1>. DEFINE o == outgoing[Other(s)] \o x
<1>4. o \in Seq(Nat) /\ Len(o) = Len(outgoing[Other(s)]) + Len(x)
  BY <1>2, ConcatProperties DEF Wires
<1>5. outgoing' = [outgoing EXCEPT ![Other(s)] = o]
  BY <1>1
<1>. HIDE DEF o
<1>6. Wires'
  <2>1. outgoing' \in [Side -> Seq(Nat)] /\ arrived' \in [Side -> Seq(Nat)]
    BY <1>1, <1>4, <1>5 DEF Wires
  <2>. QED
    BY <1>3, <2>1 DEF Wires
<1>7. ASSUME NEW u \in Side PROVE Room(buf[u])' >= 0
  <2>1. buf'[u] = IF u = s THEN r ELSE buf[u]
    BY <1>1 DEF TypeOK
  <2>. QED
    BY <1>1, <2>1 DEF TypeOK, Room
<1>8. ASSUME NEW u \in Side PROVE SendRoom(u)' >= 0
  <2>1. outgoing'[u] = IF u = Other(s) THEN o ELSE outgoing[u]
    BY <1>5 DEF Wires
  <2>2. CASE u = Other(s)
    <3>1. Len(outgoing[u]) \in Nat /\ Len(x) \in Nat /\ SndBuf \in Nat
      BY LenProperties, CopyAssumption DEF Wires
    <3>2. SendRoom(u)' = SndBuf - (Len(outgoing[u]) + Len(x))
      BY <1>4, <2>1, <2>2 DEF SendRoom
    <3>3. Len(x) <= SndBuf - Len(outgoing[u])
      BY <1>1, <2>2 DEF SendRoom
    <3>. QED
      BY <3>1, <3>2, <3>3
  <2>3. CASE u # Other(s)
    BY <2>1, <2>3 DEF SendRoom, TypeOK
  <2>. QED
    BY <2>2, <2>3
<1>9. buf' \in [Side -> [q : Seq(Nat), gap : 0 .. Capacity]]
  BY <1>1 DEF TypeOK, Buffer
<1>. QED
  BY <1>3, <1>6, <1>7, <1>8, <1>9 DEF TypeOK, Control, Op

LEMMA PassIInv ==
  ASSUME IInv, state = "COPY", NEW s \in Side, Passes(s), Control',
         UNCHANGED <<peer, entry>>, pending' \in SUBSET (Side \X Op), Closed'
  PROVE  IInv'
<1>1. TypeOK /\ Wires /\ \A u \in Side : Intact(u)
  BY Integrity DEF IInv
<1>2. UNCHANGED <<got, sent, reset>>
  BY DEF peer
<1>3. TypeOK' /\ Wires'
  BY <1>1, PassTypes
<1>4. Intact(s)'
  BY <1>1, <1>2, PassKeepsIntact
<1>5. Intact(Other(s))'
  BY <1>1, <1>2, Sides, OtherWay
<1>6. StreamIntegrity' <=> \A u \in Side : Intact(u)'
  BY DEF StreamIntegrity, Intact, Given
<1>. QED
  BY <1>3, <1>4, <1>5, <1>6, Sides DEF IInv

-----------------------------------------------------------------------------
(* The steps of the event loop and of the peers.                           *)

LEMMA LoopIInv ==
  ASSUME IInv, handle_iteration
  PROVE  IInv'
<1>1. PICK d \in pending :
        /\ \/ d[2] = "read"  /\ interest[d[1]] = "read"  /\ copy_read(d[1])
           \/ d[2] = "write" /\ interest[d[1]] = "write" /\ copy_write(d[1])
           \/ interest[d[1]] # d[2] /\ UNCHANGED <<conn, arrived, outgoing>>
        /\ Dispatched(d)
  BY DEF handle_iteration
<1>2. /\ TypeOK /\ Wires /\ state = "COPY" /\ d[1] \in Side
      /\ pending \in SUBSET (Side \X Op)
  BY <1>1 DEF IInv, Closed, TypeOK
<1>3. /\ pending' \in SUBSET (Side \X Op) /\ Closed'
      /\ UNCHANGED <<peer, entry>>
  BY <1>1, <1>2 DEF Dispatched, Closed, handle_iteration
<1>4. \E s \in Side : Passes(s) /\ Control'
  <2>1. CASE copy_read(d[1])
    BY <1>2, <2>1, ReadPasses
  <2>2. CASE copy_write(d[1])
    BY <1>2, <2>2, WritePasses, Sides
  <2>3. CASE UNCHANGED <<conn, arrived, outgoing>>
    <3>1. UNCHANGED <<buf, state, eof, interest, bytes, shut, arrived, outgoing>>
      BY <2>3 DEF conn
    <3>2. Control'
      BY <1>2, <3>1 DEF TypeOK, Control, Op
    <3>. QED
      BY <1>2, <3>1, <3>2, NothingPasses
  <2>. QED
    BY <1>1, <2>1, <2>2, <2>3
<1>. QED
  BY <1>2, <1>3, <1>4, PassIInv

LEMMA SelectIInv ==
  ASSUME IInv, selector_select
  PROVE  IInv'
<1>1. /\ UNCHANGED <<conn, arrived, outgoing, peer, entry>>
      /\ pending' \in SUBSET (Side \X Op) /\ state = "COPY"
  BY DEF selector_select
<1>2. UNCHANGED <<state, buf, eof, interest, bytes, shut, fin, reset, sent, got, first>>
  BY <1>1 DEF conn, peer, entry
<1>3. TypeOK' /\ Wires' /\ Closed'
  BY <1>1, <1>2 DEF IInv, TypeOK, Wires, Closed, Room, SendRoom
<1>4. StreamIntegrity'
  BY <1>1, <1>2 DEF IInv, StreamIntegrity
<1>. QED
  BY <1>3, <1>4 DEF IInv

LEMMA PeerSendsIInv ==
  ASSUME IInv, NEW s \in Side, PeerSends(s)
  PROVE  IInv'
<1>. DEFINE n == sent[s]
<1>1. /\ arrived' = [arrived EXCEPT ![s] = Append(@, n + 1)]
      /\ sent' = [sent EXCEPT ![s] = n + 1]
      /\ UNCHANGED <<state, buf, eof, interest, bytes, shut, pending, outgoing,
                     fin, reset, got, first>>
  BY DEF PeerSends, conn, entry
<1>2. arrived[s] \in Seq(Nat) /\ n \in Nat /\ Append(arrived[s], n + 1) \in Seq(Nat)
  <2>1. arrived[s] \in Seq(Nat) /\ n \in Nat
    BY DEF IInv, Wires
  <2>. QED
    BY <2>1, AppendProperties
<1>3. TypeOK' /\ Wires' /\ Closed'
  <2>1. TypeOK' /\ Closed'
    BY <1>1 DEF IInv, TypeOK, Closed, Room, SendRoom
  <2>2. n + 1 \in Nat
    BY <1>2
  <2>3. Wires'
    BY <1>1, <1>2, <2>2 DEF IInv, Wires
  <2>. QED
    BY <2>1, <2>3
<1>4. ASSUME NEW u \in Side PROVE Intact(u)'
  <2>1. Intact(u) /\ Given(Other(u))' = Given(Other(u))
    BY <1>1, Integrity DEF IInv, Given
  <2>2. CASE u # s
    BY <1>1, <2>1, <2>2 DEF IInv, Wires, Intact
  <2>3. CASE u = s
    <3>. DEFINE g == Given(Other(s))
                w == Cat(g, buf[s].q)
    <3>1. g \in Seq(Nat) /\ Len(g) \in Nat /\ buf[s].q \in Seq(Nat)
      BY Sides, GivenType DEF IInv, TypeOK
    <3>2. sent'[s] = n + 1 /\ arrived'[s] = Append(arrived[s], n + 1)
      BY <1>1 DEF IInv, Wires
    <3>3. w \in Seq(Nat)
      BY <3>1, Joined, Zenon
    <3>4. state = "COPY" /\ ~reset[Other(s)] =>
            (g \o buf[s].q) \o arrived'[s] = Stream(n + 1)
      <4>. SUFFICES ASSUME state = "COPY", ~reset[Other(s)]
                    PROVE  Cat(w, Append(arrived[s], n + 1)) = Stream(n + 1)
        BY <3>2, Zenon DEF Cat
      <4>1. Cat(w, arrived[s]) = Stream(n)
        BY <2>1, <2>3, Zenon DEF Intact, Cat
      <4>2. /\ Append(arrived[s], n + 1) = Cat(arrived[s], <<n + 1>>)
            /\ Append(Stream(n), n + 1) = Cat(Stream(n), <<n + 1>>)
            /\ <<n + 1>> \in Seq(Nat)
        <5>1. Stream(n) \in Seq(Nat) /\ n + 1 \in Nat /\ arrived[s] \in Seq(Nat)
          BY <1>2, StreamType
        <5>2. <<n + 1>> \in Seq(Nat)
          BY <5>1
        <5>. DEFINE m == n + 1
        <5>. HIDE DEF m
        <5>3. m = n + 1 /\ m \in Nat
          BY <5>1 DEF m
        <5>4. /\ Append(arrived[s], m) = Cat(arrived[s], <<m>>)
              /\ Append(Stream(n), m) = Cat(Stream(n), <<m>>)
          BY <5>1, <5>3, AppendIsConcat, Zenon DEF Cat
        <5>. QED
          BY <5>2, <5>3, <5>4
      <4>. HIDE DEF w
      <4>3. Cat(Cat(w, arrived[s]), <<n + 1>>) = Cat(w, Cat(arrived[s], <<n + 1>>))
        BY <1>2, <3>3, <4>2, Associative
      <4>4. Append(Stream(n), n + 1) = Stream(n + 1)
        BY <1>2, StreamGrows
      <4>. QED
        BY <4>1, <4>2, <4>3, <4>4, Zenon
    <3>5. Len(g) <= n + 1 /\ g = Stream(Len(g))
      BY <1>2, <2>1, <2>3, <3>1 DEF Intact
    <3>. QED
      BY <1>1, <2>1, <2>3, <3>2, <3>4, <3>5 DEF Intact
  <2>. QED
    BY <2>2, <2>3
<1>. QED
  BY <1>3, <1>4 DEF IInv, StreamIntegrity, Intact, Given

LEMMA PeerFinishesIInv ==
  ASSUME IInv, NEW s \in Side, PeerFinishes(s)
  PROVE  IInv'
<1>1. /\ fin' = [fin EXCEPT ![s] = TRUE]
      /\ UNCHANGED <<state, buf, eof, interest, bytes, shut, pending, arrived,
                     outgoing, reset, sent, got, first>>
  BY DEF PeerFinishes, conn, entry
<1>2. TypeOK' /\ Wires' /\ Closed'
  BY <1>1 DEF IInv, TypeOK, Wires, Closed, Room, SendRoom
<1>3. StreamIntegrity'
  BY <1>1 DEF IInv, StreamIntegrity
<1>. QED
  BY <1>2, <1>3 DEF IInv

LEMMA PeerResetsIInv ==
  ASSUME IInv, NEW s \in Side, PeerResets(s)
  PROVE  IInv'
<1>1. /\ reset' = [reset EXCEPT ![s] = TRUE]
      /\ outgoing' = [outgoing EXCEPT ![s] = <<>>]
      /\ UNCHANGED <<state, buf, eof, interest, bytes, shut, pending, arrived,
                     fin, sent, got, first>>
  BY DEF PeerResets, conn, entry
<1>2. <<>> \in Seq(Nat) /\ Len(<<>>) = 0 /\ SndBuf \in Nat
  BY EmptySeq, CopyAssumption
<1>3. Wires' /\ Closed'
  BY <1>1, <1>2 DEF IInv, Wires, Closed
<1>4. TypeOK'
  <2>1. ASSUME NEW u \in Side PROVE SendRoom(u)' >= 0
    <3>1. outgoing'[u] = IF u = s THEN <<>> ELSE outgoing[u]
      BY <1>1 DEF IInv, Wires
    <3>2. CASE u = s
      BY <1>2, <3>1, <3>2 DEF SendRoom
    <3>3. CASE u # s
      BY <3>1, <3>3 DEF IInv, TypeOK, SendRoom
    <3>. QED
      BY <3>2, <3>3
  <2>. QED
    BY <1>1, <2>1 DEF IInv, TypeOK, Room
<1>5. ASSUME NEW u \in Side PROVE Intact(u)'
  <2>1. Intact(u) /\ Other(u) \in Side
    BY Integrity, Sides DEF IInv
  <2>2. CASE Other(u) # s
    <3>1. outgoing'[Other(u)] = outgoing[Other(u)] /\ reset'[Other(u)] = reset[Other(u)]
      BY <1>1, <2>1, <2>2 DEF IInv, Wires, TypeOK
    <3>2. Given(Other(u))' = Given(Other(u))
      BY <1>1, <3>1 DEF Given
    <3>. QED
      BY <1>1, <2>1, <3>1, <3>2 DEF Intact
  <2>3. CASE Other(u) = s
    <3>1. got[s] \in Seq(Nat) /\ outgoing[s] \in Seq(Nat) /\ sent[u] \in Nat
      BY DEF IInv, Wires
    <3>2. Given(s)' = got[s]
      <4>1. outgoing'[s] = <<>> /\ got' = got
        BY <1>1 DEF IInv, Wires
      <4>. QED
        BY <3>1, <4>1, ConcatEmptySeq DEF Given
    <3>3. Given(s) \in Seq(Nat) /\ Len(Given(s)) \in Nat
      BY GivenType DEF IInv
    <3>4. got[s] \o outgoing[s] = Stream(Len(Given(s))) /\ Len(Given(s)) <= sent[u]
      BY <2>1, <2>3, Zenon DEF Intact, Given
    <3>5. got[s] = Stream(Len(got[s])) /\ Len(got[s]) <= Len(Given(s))
      BY <3>1, <3>3, <3>4, PrefixOfStream, Zenon
    <3>6. reset'[s] /\ sent' = sent /\ Len(got[s]) \in Nat
      BY <1>1, <3>1, LenProperties DEF IInv, TypeOK
    <3>. QED
      BY <2>3, <3>1, <3>2, <3>3, <3>4, <3>5, <3>6 DEF Intact
  <2>. QED
    BY <2>2, <2>3
<1>. QED
  BY <1>3, <1>4, <1>5 DEF IInv, StreamIntegrity, Intact, Given

LEMMA PeerReadsIInv ==
  ASSUME IInv, NEW s \in Side, PeerReads(s)
  PROVE  IInv'
<1>1. /\ got' = [got EXCEPT ![s] = @ \o outgoing[s]]
      /\ outgoing' = [outgoing EXCEPT ![s] = <<>>]
      /\ UNCHANGED <<state, buf, eof, interest, bytes, shut, pending, arrived,
                     fin, reset, sent, first>>
  BY DEF PeerReads, conn, entry
<1>2. <<>> \in Seq(Nat) /\ Len(<<>>) = 0 /\ SndBuf \in Nat
  BY EmptySeq, CopyAssumption
<1>3. Given(s) \in Seq(Nat) /\ got' = [got EXCEPT ![s] = Given(s)]
  BY <1>1, GivenType DEF IInv, Given
<1>4. Wires' /\ Closed'
  BY <1>1, <1>2, <1>3 DEF IInv, Wires, Closed
<1>5. TypeOK'
  <2>1. ASSUME NEW u \in Side PROVE SendRoom(u)' >= 0
    <3>1. outgoing'[u] = IF u = s THEN <<>> ELSE outgoing[u]
      BY <1>1 DEF IInv, Wires
    <3>2. CASE u = s
      BY <1>2, <3>1, <3>2 DEF SendRoom
    <3>3. CASE u # s
      BY <3>1, <3>3 DEF IInv, TypeOK, SendRoom
    <3>. QED
      BY <3>2, <3>3
  <2>. QED
    BY <1>1, <2>1 DEF IInv, TypeOK, Room
<1>6. ASSUME NEW t \in Side PROVE Given(t)' = Given(t)
  <2>1. CASE t = s
    <3>1. got'[s] = Given(s) /\ outgoing'[s] = <<>>
      BY <1>1, <1>3 DEF IInv, Wires
    <3>2. Given(s) \o <<>> = Given(s)
      BY <1>3, ConcatEmptySeq
    <3>. QED
      BY <2>1, <3>1, <3>2, Zenon DEF Given
  <2>2. CASE t # s
    BY <1>1, <2>2 DEF IInv, Wires, Given
  <2>. QED
    BY <2>1, <2>2
<1>7. ASSUME NEW u \in Side PROVE Intact(u)'
  <2>1. Intact(u) /\ Given(Other(u))' = Given(Other(u))
    BY <1>6, Integrity, Sides DEF IInv
  <2>. QED
    BY <1>1, <2>1 DEF Intact
<1>. QED
  BY <1>4, <1>5, <1>7 DEF IInv, StreamIntegrity, Intact, Given

LEMMA InitIInv == Init => IInv
<1>. SUFFICES ASSUME Init PROVE IInv
  OBVIOUS
<1>1. <<>> \in Seq(Nat) /\ Len(<<>>) = 0 /\ early \in 0 .. Capacity /\ early \in Nat
  BY EmptySeq, CopyAssumption DEF Init
<1>2. /\ Stream(early) \in Seq(Nat) /\ Len(Stream(early)) = early
      /\ Stream(0) = <<>>
  <2>1. Stream(0) \in Seq(Nat) /\ Len(Stream(0)) = 0
    BY StreamType
  <2>. QED
    BY <1>1, <2>1, StreamType, EmptySeq
<1>3. /\ EmptyQueue \in Buffer /\ EmptyQueue.q = <<>> /\ Room(EmptyQueue) = Capacity
  <2>1. EmptyQueue.q = <<>> /\ EmptyQueue.gap = 0
    BY DEF EmptyQueue
  <2>2. Capacity \in Nat /\ 0 \in 0 .. Capacity
    BY CopyAssumption
  <2>3. EmptyQueue \in Buffer
    BY <1>1, <2>2 DEF EmptyQueue, Buffer
  <2>4. Room(EmptyQueue) = Capacity - 0 - 0
    BY <1>1, <2>1 DEF Room
  <2>. QED
    BY <2>1, <2>2, <2>3, <2>4
<1>. DEFINE b == Extend(EmptyQueue, Stream(early))
<1>4. /\ b \in Buffer /\ Room(b) >= 0 /\ b.q = <<>> \o Stream(early)
  BY <1>1, <1>2, <1>3, ExtendKeeps
<1>5. b.q = Stream(early)
  BY <1>2, <1>4, ConcatEmptySeq
<1>6. \A s \in Side : buf[s] = IF s = "client" THEN b ELSE EmptyQueue
  BY DEF Init
<1>. HIDE DEF b
<1>7. Wires /\ Closed
  BY <1>1 DEF Init, Wires, Closed
<1>8. TypeOK
  <2>1. buf \in [Side -> Buffer]
    BY <1>3, <1>4 DEF Init, b
  <2>2. ASSUME NEW s \in Side PROVE Room(buf[s]) >= 0 /\ SendRoom(s) >= 0
    BY <1>1, <1>3, <1>4, <1>6, CopyAssumption DEF Init, SendRoom
  <2>. QED
    BY <2>1, <2>2 DEF Init, TypeOK, Buffer, Op
<1>9. ASSUME NEW s \in Side PROVE Intact(s)
  <2>1. Given(Other(s)) = <<>>
    BY <1>1, Sides, ConcatEmptySeq DEF Init, Given
  <2>2. arrived[s] = <<>> /\ buf[s].q = Stream(sent[s]) /\ sent[s] \in Nat
    BY <1>1, <1>2, <1>3, <1>5, <1>6 DEF Init
  <2>3. Stream(sent[s]) \in Seq(Nat)
    BY <2>2, StreamType
  <2>4. (<<>> \o Stream(sent[s])) \o <<>> = Stream(sent[s])
    BY <2>3, ConcatEmptySeq
  <2>. QED
    BY <1>1, <1>2, <2>1, <2>2, <2>4 DEF Intact
<1>. QED
  BY <1>7, <1>8, <1>9, Integrity DEF IInv

LEMMA NextIInv == IInv /\ [Next]_vars => IInv'
<1>. SUFFICES ASSUME IInv, [Next]_vars PROVE IInv'
  OBVIOUS
<1>1. CASE UNCHANGED vars
  <2>1. UNCHANGED <<conn, pending, arrived, outgoing, peer, entry>>
    BY <1>1 DEF vars
  <2>2. UNCHANGED <<state, buf, eof, interest, bytes, shut, pending, arrived, outgoing,
                    fin, reset, sent, got, first>>
    BY <2>1 DEF conn, peer, entry
  <2>. QED
    BY <2>2 DEF IInv, TypeOK, Wires, Closed, StreamIntegrity, Room, SendRoom
<1>2. CASE Next
  BY <1>2, LoopIInv, SelectIInv, PeerSendsIInv, PeerFinishesIInv, PeerResetsIInv,
     PeerReadsIInv DEF Next
<1>. QED
  BY <1>1, <1>2

\* The types of copy.c's state: a buffer never holds more than its size, nor
\* a socket more than its room, however the sends of copy_write are cut.
THEOREM TypeCorrect == Spec => []TypeOK
<1>1. IInv => TypeOK
  BY DEF IInv
<1>. QED
  BY <1>1, InitIInv, NextIInv, PTL DEF Spec

\* No byte is lost, repeated or reordered between the two peers by copy.c,
\* for every buffer size, socket room and length of the two streams.
THEOREM StreamsStayWhole == Spec => []StreamIntegrity
<1>1. IInv => StreamIntegrity
  BY DEF IInv
<1>. QED
  BY <1>1, InitIInv, NextIInv, PTL DEF Spec
-----------------------------------------------------------------------------
(* The control, when no data of the client came with its request: what     *)
(* waits in a buffer is watched for, no data is left behind an ended       *)
(* origin, and a connection ends with everything forwarded, or with an     *)
(* error because a peer reset it.                                          *)

Waiting(s) == CanRead(buf[s])

\* One direction at a time: while bytes wait for a side, that side is not
\* ended, is watched for room only and has sent nothing that waits.
OneDirection ==
  \A s \in Side :
    Waiting(s) => /\ ~eof[Other(s)] /\ ~Waiting(Other(s))
                  /\ interest[Other(s)] = "write"

OneEnded == ~(eof["client"] /\ eof["origin"])

\* A side is marked, or shut down for reading, only after its FIN was read,
\* and then stays watched for reading.
ReadToEnd ==
  \A s \in Side : eof[s] \/ "rd" \in shut[s] =>
    eof[s] /\ fin[s] /\ arrived[s] = <<>> /\ interest[s] = "read"

\* The client's last bytes are on their way: sending them ends the phase.
ClientEnded == eof["client"] => Waiting("client")

\* When the origin's last bytes are out, the client is read no more before
\* the end of the origin is read once again, which ends the phase.
OriginEnded ==
  eof["origin"] /\ ~Waiting("origin") =>
    /\ <<"client", "read">> \notin pending
    /\ \/ <<"origin", "read">> \in pending
       \/ interest["client"] = "write" /\ <<"client", "write">> \notin pending

OneOp == \A s \in Side : ~(<<s, "read">> \in pending /\ <<s, "write">> \in pending)

\* Only the client is shut down for writing while the phase lasts, and then
\* nothing waits for it.
Shutdowns ==
  \A t \in Side : "wr" \in shut[t] => t = "client" /\ eof["origin"] /\ ~Waiting("origin")

\* A buffer that is drained is compacted, so that it can be read into.
Emptied == \A s \in Side : Waiting(s) \/ CanWrite(buf[s])

Relaying == /\ OneDirection /\ OneEnded /\ ReadToEnd /\ ClientEnded
            /\ OriginEnded /\ OneOp /\ Shutdowns /\ Emptied

Ends == /\ state = "COPY" => Relaying
        /\ ErrorOnlyOnReset
        /\ NothingDroppedAtDone

LEMMA Pair == /\ Side = {"client", "origin"}
              /\ Other("client") = "origin" /\ Other("origin") = "client"
  BY DEF Other, Side

-----------------------------------------------------------------------------
(* One lemma per handler.                                                  *)

\* Where InterestAfterSend leaves the two interests.
LEMMA AfterSend ==
  ASSUME NEW t \in Side, NEW intr \in [Side -> Op], NEW rest,
         interest' = InterestAfterSend(t, intr, rest)
  PROVE  /\ CanRead(rest) => interest'[t] = "write"
         /\ ~CanRead(rest) => interest'[t] = IF t = "origin" THEN "read" ELSE intr[t]
         /\ interest'[Other(t)] \in {"read", intr[Other(t)]}
         /\ eof[Other(t)] => interest'[Other(t)] = intr[Other(t)]
<1>1. Other(t) \in Side /\ Other(t) # t
  BY Sides
<1>. QED
  BY <1>1 DEF InterestAfterSend

LEMMA ConsumeEmpties ==
  ASSUME NEW q \in Buffer, NEW n \in 0 .. Len(q.q)
  PROVE  CanRead(Consume(q, n)) \/ CanWrite(Consume(q, n))
<1>1. q.q \in Seq(Nat) /\ Len(q.q) \in Nat /\ Capacity \in Nat \ {0}
  BY LenProperties, CopyAssumption DEF Buffer
<1>2. CASE n = Len(q.q)
  <2>1. Consume(q, n).q = <<>> /\ Consume(q, n).gap = 0
    BY <1>2 DEF Consume, EmptyQueue
  <2>2. Room(Consume(q, n)) = Capacity - 0 - 0
    BY <2>1, EmptySeq DEF Room
  <2>. QED
    BY <1>1, <2>2 DEF CanWrite
<1>3. CASE n # Len(q.q)
  <2>1. Consume(q, n).q = SubSeq(q.q, n + 1, Len(q.q))
    BY <1>3 DEF Consume
  <2>2. Len(Consume(q, n).q) = Len(q.q) - n
    BY <1>1, <2>1, Cut
  <2>. QED
    BY <1>1, <1>3, <2>2 DEF CanRead
<1>. QED
  BY <1>2, <1>3

\* A send to t that empties the buffer or not.
LEMMA Sent ==
  ASSUME NEW t \in Side, outgoing[t] \in Seq(Nat), NEW q \in Buffer,
         NEW intr \in [Side -> Op], copy_write_send(t, q, intr)
  PROVE  /\ CanRead(q) /\ ~Broken(t) /\ eof' = eof
         /\ \E rest :
              /\ buf' = [buf EXCEPT ![Other(t)] = rest]
              /\ CanRead(rest) \/ CanWrite(rest)
              /\ interest' = InterestAfterSend(t, intr, rest)
              /\ \/ CanRead(rest) /\ UNCHANGED <<shut, state>>
                 \/ /\ ~CanRead(rest) /\ shut' = ShutWhenDrained(t)
                    /\ state' = IF eof["client"] THEN "SOCKS_DONE" ELSE "COPY"
<1>. DEFINE n == Least(Len(q.q), SendRoom(t))
            rest == Consume(q, n)
<1>1. /\ CanRead(q) /\ ~Broken(t) /\ SendRoom(t) > 0 /\ eof' = eof
      /\ handle_write_data(t, q, intr, n)
  BY Zenon DEF copy_write_send
<1>2. n \in 0 .. Len(q.q)
  <2>1. Len(q.q) \in Nat /\ SendRoom(t) \in Int
    BY LenProperties, CopyAssumption DEF Buffer, SendRoom
  <2>. QED
    BY <1>1, <2>1 DEF Least
<1>. HIDE DEF n
<1>3. CanRead(rest) \/ CanWrite(rest)
  BY <1>2, ConsumeEmpties
<1>4. /\ buf' = [buf EXCEPT ![Other(t)] = rest]
      /\ interest' = InterestAfterSend(t, intr, rest)
      /\ \/ CanRead(rest) /\ UNCHANGED <<shut, state>>
         \/ /\ ~CanRead(rest) /\ shut' = ShutWhenDrained(t)
            /\ state' = IF eof["client"] THEN "SOCKS_DONE" ELSE "COPY"
  BY <1>1, Zenon DEF handle_write_data
<1>. HIDE DEF rest
<1>. QED
  BY <1>1, <1>3, <1>4, Zenon

LEMMA WriteEnds ==
  ASSUME TypeOK, Wires, state = "COPY", Relaying, UNCHANGED <<peer, entry>>,
         NEW t \in Side, <<t, "write">> \in pending, interest[t] = "write",
         copy_write(t), Dispatched(<<t, "write">>)
  PROVE  Ends'
<1>. DEFINE s == Other(t)
<1>1. s \in Side /\ s # t /\ Other(s) = t /\ \A u \in Side : u = s \/ u = t
  BY Sides
<1>2. UNCHANGED <<arrived, fin, reset>> /\ ~eof[t] /\ interest \in [Side -> Op]
  BY DEF copy_write, peer, Relaying, ReadToEnd, TypeOK, Op
<1>6. buf[s] \in Buffer /\ outgoing[t] \in Seq(Nat)
  BY <1>1 DEF TypeOK, Wires, Buffer
<1>3. CASE copy_write_idle(t)
  <2>1. /\ ~Waiting(s) /\ UNCHANGED <<buf, eof>> /\ shut' = ShutWhenDrained(t)
        /\ interest' = [interest EXCEPT ![t] = "read"]
    BY <1>3 DEF copy_write_idle, Waiting
  <2>2. ~eof["client"]
    <3>1. t = "client" => ~eof["client"]
      BY <1>2
    <3>2. t = "origin" => s = "client"
      BY Pair
    <3>. QED
      BY <1>1, <2>1, <3>1, <3>2, Pair DEF Relaying, ClientEnded
  <2>3. state' = "COPY" /\ pending' = pending \ {<<t, "write">>}
    BY <1>3, <2>2, Pair DEF copy_write_idle, Finished, Dispatched
  <2>4. interest'[t] = "read" /\ interest'[s] = interest[s]
    BY <1>1, <1>2, <2>1
  <2>5. \A u \in Side : Waiting(u)' = Waiting(u)
    BY <2>1 DEF Waiting
  <2>6. OneDirection'
    BY <1>1, <2>1, <2>4, <2>5 DEF Relaying, OneDirection
  <2>7. OneEnded' /\ ClientEnded'
    BY <2>1, <2>5, Pair DEF Relaying, OneEnded, ClientEnded
  <2>8. \A u \in Side : "rd" \in shut'[u] => "rd" \in shut[u]
    BY <2>1 DEF ShutWhenDrained
  <2>9. ReadToEnd'
    BY <1>1, <1>2, <2>1, <2>4, <2>8 DEF Relaying, ReadToEnd
  <2>10. OneOp'
    BY <2>3 DEF Relaying, OneOp
  <2>11. OriginEnded'
    BY <1>1, <1>2, <2>1, <2>3, <2>4, <2>5, Pair DEF Relaying, OriginEnded, OneOp
  <2>12. Shutdowns'
    BY <1>1, <1>2, <2>1, <2>2, <2>5, Pair DEF Relaying, Shutdowns, ShutWhenDrained
  <2>13. Emptied'
    BY <2>1, <2>5 DEF Relaying, Emptied
  <2>. QED
    BY <2>3, <2>6, <2>7, <2>9, <2>10, <2>11, <2>12, <2>13
       DEF Ends, Relaying, ErrorOnlyOnReset, NothingDroppedAtDone
<1>4. CASE copy_write_send(t, buf[s], interest)
  <2>1. PICK rest :
          /\ buf' = [buf EXCEPT ![s] = rest]
          /\ CanRead(rest) \/ CanWrite(rest)
          /\ interest' = InterestAfterSend(t, interest, rest)
          /\ \/ CanRead(rest) /\ UNCHANGED <<shut, state>>
             \/ /\ ~CanRead(rest) /\ shut' = ShutWhenDrained(t)
                /\ state' = IF eof["client"] THEN "SOCKS_DONE" ELSE "COPY"
    BY <1>2, <1>4, <1>6, Sent
  <2>2. Waiting(s) /\ eof' = eof
    BY <1>2, <1>4, <1>6, Sent DEF Waiting
  <2>3. /\ CanRead(rest) => interest'[t] = "write"
        /\ ~CanRead(rest) => interest'[t] = IF t = "origin" THEN "read" ELSE "write"
        /\ eof[s] => interest'[s] = interest[s]
    BY <1>2, <2>1, AfterSend
  <2>4. ~Waiting(t) /\ \A u \in Side : "wr" \notin shut[u]
    BY <1>1, <1>2, <2>2, Pair DEF Relaying, OneDirection, Shutdowns
  <2>5. (Waiting(s)' <=> CanRead(rest)) /\ ~Waiting(t)'
    BY <1>1, <2>1, <2>4 DEF Waiting, TypeOK
  <2>6. \A u \in Side : "rd" \in shut'[u] => "rd" \in shut[u]
    BY <2>1 DEF ShutWhenDrained
  <2>7. ReadToEnd'
    BY <1>1, <1>2, <2>2, <2>3, <2>6 DEF Relaying, ReadToEnd
  <2>8. OneDirection'
    BY <1>1, <1>2, <2>2, <2>3, <2>5 DEF Relaying, OneDirection
  <2>9. OneEnded' /\ OneOp'
    BY <2>2 DEF Relaying, OneEnded, OneOp, Dispatched
  <2>13. Emptied'
    BY <1>1, <2>1 DEF Relaying, Emptied, Waiting, TypeOK
  <2>10. CASE CanRead(rest)
    <3>1. state' = "COPY" /\ shut' = shut
      BY <2>1, <2>10
    <3>2. ClientEnded' /\ OriginEnded' /\ Shutdowns'
      BY <1>1, <1>2, <2>2, <2>4, <2>5, <2>10, <3>1, Pair
         DEF ClientEnded, OriginEnded, Shutdowns
    <3>. QED
      BY <2>7, <2>8, <2>9, <2>13, <3>1, <3>2
         DEF Ends, Relaying, ErrorOnlyOnReset, NothingDroppedAtDone
  <2>11. CASE ~CanRead(rest) /\ eof["client"]
    <3>1. state' = "SOCKS_DONE" /\ s = "client" /\ t = "origin"
      BY <1>1, <1>2, <2>1, <2>11, Pair
    <3>2. fin'["client"] /\ arrived'["client"] = <<>> /\ ~CanRead(buf'["client"])
      BY <1>2, <2>5, <2>11, <3>1, Pair DEF Relaying, ReadToEnd, Waiting
    <3>. QED
      BY <3>1, <3>2, Pair DEF Ends, ErrorOnlyOnReset, NothingDroppedAtDone
  <2>12. CASE ~CanRead(rest) /\ ~eof["client"]
    <3>1. /\ state' = "COPY" /\ shut' = ShutWhenDrained(t)
          /\ pending' = pending \ {<<t, "write">>}
      BY <2>1, <2>12 DEF Dispatched
    <3>2. ClientEnded'
      BY <2>2, <2>12 DEF ClientEnded
    <3>3. OriginEnded'
      BY <1>1, <1>2, <2>2, <2>3, <2>12, <3>1, Pair DEF OriginEnded, Relaying, OneOp
    <3>4. Shutdowns'
      BY <1>1, <1>2, <2>2, <2>4, <2>5, <2>12, <3>1, Pair DEF Shutdowns, ShutWhenDrained
    <3>. QED
      BY <2>7, <2>8, <2>9, <2>13, <3>1, <3>2, <3>3, <3>4
         DEF Ends, Relaying, ErrorOnlyOnReset, NothingDroppedAtDone
  <2>. QED
    BY <2>10, <2>11, <2>12
<1>5. CASE copy_write_fail(t, buf[s], interest)
  <2>1. /\ Waiting(s) /\ UNCHANGED <<eof, interest, shut>>
        /\ state' = IF Broken(t) THEN "SOCKS_ERROR" ELSE "COPY"
        /\ buf' = [buf EXCEPT ![s] = buf[s]]
    BY <1>5 DEF copy_write_fail, Waiting
  <2>2. \A u \in Side : "wr" \notin shut[u]
    BY <1>1, <1>2, <2>1, Pair DEF Relaying, OneDirection, Shutdowns
  <2>3. Broken(t) => reset'[t]
    BY <1>2, <2>2 DEF Broken
  <2>4. \A u \in Side : Waiting(u)' = Waiting(u)
    BY <2>1 DEF Waiting, TypeOK
  <2>5. CASE Broken(t)
    BY <2>1, <2>3, <2>5 DEF Ends, ErrorOnlyOnReset, NothingDroppedAtDone
  <2>6. CASE ~Broken(t)
    <3>1. state' = "COPY" /\ pending' = pending \ {<<t, "write">>}
      BY <2>1, <2>6 DEF Dispatched
    <3>2. OneDirection' /\ ReadToEnd'
      BY <1>1, <1>2, <2>1, <2>4 DEF Relaying, OneDirection, ReadToEnd
    <3>5. Emptied'
      BY <2>1 DEF Relaying, Emptied, Waiting, TypeOK
    <3>3. OneEnded' /\ ClientEnded' /\ OneOp' /\ Shutdowns'
      BY <2>1, <2>2, <2>4, <3>1, Pair
         DEF Relaying, OneEnded, ClientEnded, OneOp, Shutdowns
    <3>4. OriginEnded'
      BY <1>1, <1>2, <2>1, <2>4, Pair DEF OriginEnded
    <3>. QED
      BY <3>1, <3>2, <3>3, <3>4, <3>5
         DEF Ends, Relaying, ErrorOnlyOnReset, NothingDroppedAtDone
  <2>. QED
    BY <2>5, <2>6
<1>. QED
  BY <1>3, <1>4, <1>5 DEF copy_write

LEMMA ReadBuffer ==
  ASSUME TypeOK, Wires, NEW s \in Side, CanWrite(buf[s]),
         NEW n, n = Least(Len(arrived[s]), Room(buf[s]))
  PROVE  Extend(buf[s], SubSeq(arrived[s], 1, n)) \in Buffer
<1>1. arrived[s] \in Seq(Nat) /\ Len(arrived[s]) \in Nat /\ buf[s] \in Buffer
  BY LenProperties DEF Wires, TypeOK, Buffer
<1>2. Len(buf[s].q) \in Nat /\ buf[s].gap \in Nat /\ Capacity \in Nat
  BY <1>1, LenProperties, CopyAssumption DEF Buffer
<1>3. Room(buf[s]) \in Int /\ Room(buf[s]) > 0
  BY <1>2 DEF Room, CanWrite
<1>4. n \in 0 .. Len(arrived[s]) /\ n <= Room(buf[s])
  BY <1>1, <1>3 DEF Least
<1>. DEFINE y == SubSeq(arrived[s], 1, n)
<1>5. y \in Seq(Nat) /\ Len(y) = n
  BY <1>1, <1>4, Cut
<1>. HIDE DEF y
<1>6. Extend(buf[s], y) \in Buffer
  BY <1>1, <1>4, <1>5, ExtendKeeps
<1>. QED
  BY <1>6 DEF y

LEMMA ReadEnds ==
  ASSUME TypeOK, Wires, state = "COPY", Relaying, UNCHANGED <<peer, entry>>,
         NEW s \in Side, <<s, "read">> \in pending, interest[s] = "read",
         copy_read(s), Dispatched(<<s, "read">>)
  PROVE  Ends'
<1>. DEFINE t == Other(s)
<1>1. t \in Side /\ t # s /\ Other(t) = s /\ \A u \in Side : u = s \/ u = t
  BY Sides
<1>2. UNCHANGED <<fin, reset>> /\ ~Waiting(t) /\ interest \in [Side -> Op]
  BY <1>1 DEF peer, Relaying, OneDirection, TypeOK, Op
<1>3. CASE copy_read_full(s)
  <2>1. UNCHANGED <<state, buf, eof, interest, bytes, shut, arrived, outgoing>>
    BY <1>3 DEF copy_read_full, conn
  <2>2. Waiting(s)
    BY <1>3 DEF copy_read_full, Relaying, Emptied
  <2>3. ~(eof["origin"] /\ ~Waiting("origin"))
    BY <1>1, <2>2, Pair DEF Relaying, OneDirection
  <2>4. pending' \in SUBSET pending
    BY <2>1 DEF Dispatched
  <2>5. \A u \in Side : Waiting(u)' = Waiting(u)
    BY <2>1 DEF Waiting
  <2>6. OneDirection' /\ OneEnded' /\ ReadToEnd'
    <3>1. OneDirection'
      BY <2>1, <2>5, Sides DEF Relaying, OneDirection
    <3>2. OneEnded' /\ ReadToEnd'
      BY <1>2, <2>1 DEF Relaying, OneEnded, ReadToEnd
    <3>. QED
      BY <3>1, <3>2
  <2>7. ClientEnded' /\ OriginEnded' /\ OneOp' /\ Shutdowns' /\ Emptied'
    BY <2>1, <2>3, <2>4, <2>5, Pair
       DEF Relaying, ClientEnded, OriginEnded, OneOp, Shutdowns, Emptied
  <2>. QED
    BY <2>1, <2>6, <2>7 DEF Ends, Relaying, ErrorOnlyOnReset, NothingDroppedAtDone
<1>4. CASE copy_read_error(s)
  BY <1>2, <1>4 DEF copy_read_error, Ends, ErrorOnlyOnReset, NothingDroppedAtDone
<1>5. CASE copy_read_eof(s)
  <2>1. /\ eof' = EofAfter(s) /\ UNCHANGED <<buf, interest, arrived>>
        /\ state' = IF Finished(EofAfter(s)) THEN "SOCKS_DONE" ELSE "COPY"
        /\ shut' = [u \in Side |-> CASE u = s -> shut[u] \cup {"rd"}
                              [] u # s /\ eof'[u] # eof[u] -> shut[u] \cup {"wr"}
                              [] OTHER -> shut[u]]
    BY <1>5, Zenon DEF copy_read_eof
  <2>2. fin[s] /\ arrived[s] = <<>>
    BY <1>5 DEF copy_read_eof, AtEof, Relaying, ReadToEnd
  <2>3. eof'[s] /\ eof'[t] = (eof[t] \/ ~Waiting(s))
    BY <1>1, <2>1 DEF EofAfter, TypeOK, Waiting
  <2>4. CASE ~Waiting(s)
    <3>1. Finished(EofAfter(s))
      BY <1>1, <1>2, <2>1, <2>3, <2>4 DEF Finished, Waiting
    <3>. QED
      BY <1>1, <1>2, <2>1, <2>2, <2>4, <3>1
         DEF Ends, ErrorOnlyOnReset, NothingDroppedAtDone, Waiting
  <2>5. CASE Waiting(s)
    <3>1. ~eof[t] /\ ~eof'[t]
      BY <2>3, <2>5 DEF Relaying, OneDirection
    <3>2. state' = "COPY" /\ pending' \in SUBSET pending
      BY <1>1, <2>1, <3>1 DEF Finished, Dispatched
    <3>3. shut'[s] = shut[s] \cup {"rd"} /\ shut'[t] = shut[t]
      <4>1. eof'[t] = FALSE /\ eof[t] = FALSE
        BY <1>1, <2>3, <2>5, <3>1 DEF TypeOK
      <4>. QED
        BY <1>1, <2>1, <4>1
    <3>4. \A u \in Side : Waiting(u)' = Waiting(u)
      BY <2>1 DEF Waiting
    <3>5. \A u \in Side : "wr" \notin shut[u]
      BY <1>1, <2>5, <3>1, Pair DEF Relaying, Shutdowns
    <3>6. OneDirection' /\ ReadToEnd'
      BY <1>1, <1>2, <2>1, <2>2, <2>3, <3>1, <3>3, <3>4
         DEF Relaying, OneDirection, ReadToEnd
    <3>7. OneEnded' /\ ClientEnded' /\ OriginEnded'
      BY <1>1, <2>5, <3>1, <3>4, Pair DEF OneEnded, ClientEnded, OriginEnded
    <3>8. OneOp' /\ Shutdowns' /\ Emptied'
      BY <1>1, <2>1, <3>2, <3>3, <3>4, <3>5 DEF Relaying, OneOp, Shutdowns, Emptied
    <3>. QED
      BY <3>2, <3>6, <3>7, <3>8 DEF Ends, Relaying, ErrorOnlyOnReset, NothingDroppedAtDone
  <2>. QED
    BY <2>4, <2>5
<1>6. CASE copy_read_data(s)
  <2>1. \A u \in Side : ~eof[u]
    <3>1. ~eof[s]
      BY <1>6 DEF copy_read_data, Relaying, ReadToEnd
    <3>2. ~eof[t]
      BY <1>1, <1>2, <3>1, Pair DEF Relaying, ClientEnded, OriginEnded
    <3>. QED
      BY <1>1, <3>1, <3>2
  <2>2. \A u \in Side : "rd" \notin shut[u] /\ "wr" \notin shut[u]
    BY <2>1, Pair DEF Relaying, ReadToEnd, Shutdowns
  <2>. DEFINE n == Least(Len(arrived[s]), Room(buf[s]))
              q == Extend(buf[s], SubSeq(arrived[s], 1, n))
              intr == [interest EXCEPT ![t] = "write"]
  <2>3. /\ CanWrite(buf[s])
        /\ copy_write_send(t, q, intr) \/ copy_write_fail(t, q, intr)
    BY <1>1, <1>6, <2>1, Zenon DEF copy_read_data
  <2>4. q \in Buffer /\ outgoing[t] \in Seq(Nat) /\ intr \in [Side -> Op]
    BY <1>1, <1>2, <2>3, ReadBuffer DEF Wires, Op
  <2>5. intr[t] = "write" /\ intr[s] = "read"
    BY <1>1, <1>2
  <2>. HIDE DEF q, intr
  <2>6. CASE copy_write_fail(t, q, intr)
    <3>1. /\ CanRead(q) /\ UNCHANGED <<eof, shut>> /\ interest' = intr
          /\ buf' = [buf EXCEPT ![s] = q]
          /\ state' = IF Broken(t) THEN "SOCKS_ERROR" ELSE "COPY"
      BY <1>1, <2>6 DEF copy_write_fail
    <3>2. Broken(t) => reset'[t]
      BY <1>1, <1>2, <2>2 DEF Broken
    <3>3. Waiting(s)' /\ ~Waiting(t)'
      BY <1>1, <1>2, <3>1 DEF Waiting, TypeOK
    <3>4. OneDirection' /\ ReadToEnd' /\ OneEnded' /\ ClientEnded' /\ OriginEnded'
      BY <1>1, <2>1, <2>2, <2>5, <3>1, <3>3, Pair
         DEF OneDirection, ReadToEnd, OneEnded, ClientEnded, OriginEnded
    <3>5. OneOp' /\ Shutdowns'
      BY <2>2, <3>1 DEF Relaying, OneOp, Shutdowns, Dispatched
    <3>6. Emptied'
      BY <1>1, <3>1, <3>3 DEF Relaying, Emptied, Waiting, TypeOK
    <3>. QED
      BY <1>1, <3>1, <3>2, <3>4, <3>5, <3>6
         DEF Ends, Relaying, ErrorOnlyOnReset, NothingDroppedAtDone
  <2>7. CASE copy_write_send(t, q, intr)
    <3>1. PICK rest :
            /\ buf' = [buf EXCEPT ![s] = rest]
            /\ CanRead(rest) \/ CanWrite(rest)
            /\ interest' = InterestAfterSend(t, intr, rest)
            /\ \/ CanRead(rest) /\ UNCHANGED <<shut, state>>
               \/ /\ ~CanRead(rest) /\ shut' = ShutWhenDrained(t)
                  /\ state' = IF eof["client"] THEN "SOCKS_DONE" ELSE "COPY"
      BY <1>1, <2>4, <2>7, Sent
    <3>2. eof' = eof
      BY <1>1, <2>4, <2>7, Sent
    <3>3. /\ CanRead(rest) => interest'[t] = "write"
          /\ interest'[s] = "read"
      BY <1>1, <2>4, <2>5, <3>1, AfterSend
    <3>4. \A u \in Side : shut'[u] = shut[u]
      BY <1>1, <2>1, <3>1, Pair DEF ShutWhenDrained
    <3>5. state' = "COPY"
      BY <2>1, <3>1, Pair
    <3>6. (Waiting(s)' <=> CanRead(rest)) /\ ~Waiting(t)'
      BY <1>1, <1>2, <3>1 DEF Waiting, TypeOK
    <3>7. OneDirection' /\ ReadToEnd' /\ OneEnded' /\ ClientEnded' /\ OriginEnded'
      BY <1>1, <2>1, <2>2, <3>2, <3>3, <3>4, <3>6, Pair
         DEF OneDirection, ReadToEnd, OneEnded, ClientEnded, OriginEnded
    <3>8. OneOp' /\ Shutdowns'
      BY <2>2, <3>4 DEF Relaying, OneOp, Shutdowns, Dispatched
    <3>9. Emptied'
      BY <1>1, <3>1, <3>6 DEF Relaying, Emptied, Waiting, TypeOK
    <3>. QED
      BY <3>5, <3>7, <3>8, <3>9 DEF Ends, Relaying, ErrorOnlyOnReset, NothingDroppedAtDone
  <2>. QED
    BY <2>3, <2>6, <2>7
<1>. QED
  BY <1>3, <1>4, <1>5, <1>6 DEF copy_read

-----------------------------------------------------------------------------
(* The other steps, and the theorems.                                      *)

EInv == IInv /\ (early = 0 => Ends)

LEMMA LoopEnds ==
  ASSUME IInv, Ends, handle_iteration
  PROVE  Ends'
<1>1. PICK d \in pending :
        /\ \/ d[2] = "read"  /\ interest[d[1]] = "read"  /\ copy_read(d[1])
           \/ d[2] = "write" /\ interest[d[1]] = "write" /\ copy_write(d[1])
           \/ interest[d[1]] # d[2] /\ UNCHANGED <<conn, arrived, outgoing>>
        /\ Dispatched(d)
  BY DEF handle_iteration
<1>2. /\ TypeOK /\ Wires /\ state = "COPY" /\ Relaying
      /\ d \in Side \X Op /\ d = <<d[1], d[2]>> /\ UNCHANGED <<peer, entry>>
  BY <1>1 DEF IInv, Closed, TypeOK, Ends, handle_iteration
<1>3. CASE d[2] = "read" /\ interest[d[1]] = "read" /\ copy_read(d[1])
  BY <1>1, <1>2, <1>3, ReadEnds
<1>4. CASE d[2] = "write" /\ interest[d[1]] = "write" /\ copy_write(d[1])
  BY <1>1, <1>2, <1>4, WriteEnds
<1>5. CASE interest[d[1]] # d[2] /\ UNCHANGED <<conn, arrived, outgoing>>
  <2>1. UNCHANGED <<state, buf, eof, interest, shut, arrived, fin, reset>>
    BY <1>2, <1>5 DEF conn, peer
  <2>2. pending' = pending \ {d} /\ state' = "COPY"
    BY <1>1, <1>2, <2>1 DEF Dispatched
  <2>3. \A u \in Side : Waiting(u)' = Waiting(u)
    BY <2>1 DEF Waiting
  <2>4. OneDirection' /\ Emptied'
    BY <1>2, <2>1, <2>3, Sides DEF Relaying, OneDirection, Emptied
  <2>5. OneEnded' /\ ReadToEnd' /\ ClientEnded' /\ Shutdowns' /\ OneOp'
    BY <1>2, <2>1, <2>2, <2>3, Pair
       DEF Relaying, OneEnded, ReadToEnd, ClientEnded, Shutdowns, OneOp
  <2>6. OriginEnded'
    <3>1. eof["origin"] => interest["origin"] = "read"
      BY <1>2, Pair DEF Relaying, ReadToEnd
    <3>2. eof["origin"] => d # <<"origin", "read">>
      BY <1>2, <1>5, <3>1
    <3>. QED
      BY <1>2, <2>1, <2>2, <2>3, <3>2, Pair DEF Relaying, OriginEnded
  <2>. QED
    BY <2>2, <2>4, <2>5, <2>6
       DEF Ends, Relaying, ErrorOnlyOnReset, NothingDroppedAtDone
<1>. QED
  BY <1>1, <1>3, <1>4, <1>5

LEMMA SelectEnds ==
  ASSUME IInv, Ends, selector_select
  PROVE  Ends'
<1>1. /\ UNCHANGED <<state, buf, eof, interest, shut, arrived, fin, reset>>
      /\ state = "COPY" /\ pending = {} /\ Relaying
      /\ pending' = {d \in Side \X Op : Ready(d[1], d[2])}
  BY DEF selector_select, conn, peer, Ends
<1>2. \A u \in Side : Waiting(u)' = Waiting(u)
  BY <1>1 DEF Waiting
<1>3. OneDirection' /\ Emptied'
  BY <1>1, <1>2, Sides DEF Relaying, OneDirection, Emptied
<1>4. OneEnded' /\ ReadToEnd' /\ ClientEnded' /\ Shutdowns'
  BY <1>1, <1>2, Pair DEF Relaying, OneEnded, ReadToEnd, ClientEnded, Shutdowns
<1>5. \A u \in Side, op \in Op : <<u, op>> \in pending' => interest[u] = op
  BY <1>1 DEF Ready
<1>6. OneOp'
  BY <1>5 DEF OneOp, Op
<1>7. OriginEnded'
  <2>. SUFFICES ASSUME eof["origin"], ~Waiting("origin")
                PROVE  /\ <<"client", "read">> \notin pending'
                       /\ <<"origin", "read">> \in pending'
    BY <1>1, <1>2, Pair DEF OriginEnded
  <2>1. interest["client"] = "write"
    BY <1>1 DEF Relaying, OriginEnded
  <2>2. <<"client", "read">> \notin pending'
    BY <1>5, <2>1, Pair DEF Op
  <2>3. fin["origin"] /\ arrived["origin"] = <<>> /\ interest["origin"] = "read"
    BY <1>1, Pair DEF Relaying, ReadToEnd
  <2>4. Ready("origin", "read")
    BY <2>3 DEF Ready, Readable, AtEof
  <2>5. <<"origin", "read">> \in pending'
    BY <1>1, <2>4, Pair DEF Op
  <2>. QED
    BY <2>2, <2>5
<1>. QED
  BY <1>1, <1>3, <1>4, <1>6, <1>7
     DEF Ends, Relaying, ErrorOnlyOnReset, NothingDroppedAtDone

\* A peer that has finished sends no more; what it did before stays done.
LEMMA PeerEnds ==
  ASSUME IInv, Ends, NEW s \in Side,
         PeerSends(s) \/ PeerFinishes(s) \/ PeerResets(s) \/ PeerReads(s)
  PROVE  Ends'
<1>1. /\ UNCHANGED <<state, buf, eof, interest, shut, pending>>
      /\ \A u \in Side : (fin[u] => fin'[u]) /\ (reset[u] => reset'[u])
      /\ \A u \in Side : fin[u] => arrived'[u] = arrived[u]
      /\ state # "COPY" => UNCHANGED <<fin, arrived>>
  BY DEF IInv, TypeOK, Wires, conn, PeerSends, PeerFinishes, PeerResets, PeerReads
<1>2. \A u \in Side : Waiting(u)' = Waiting(u)
  BY <1>1 DEF Waiting
<1>3. ErrorOnlyOnReset'
  BY <1>1 DEF Ends, ErrorOnlyOnReset
<1>4. NothingDroppedAtDone'
  BY <1>1 DEF Ends, NothingDroppedAtDone
<1>5. ASSUME state = "COPY" PROVE Relaying'
  <2>1. Relaying
    BY <1>5 DEF Ends
  <2>2. OneDirection' /\ Emptied'
    BY <1>1, <1>2, <2>1, Sides DEF Relaying, OneDirection, Emptied
  <2>3. ReadToEnd'
    BY <1>1, <2>1 DEF Relaying, ReadToEnd
  <2>4. OneEnded' /\ ClientEnded' /\ OriginEnded' /\ OneOp' /\ Shutdowns'
    BY <1>1, <1>2, <2>1, Pair
       DEF Relaying, OneEnded, ClientEnded, OriginEnded, OneOp, Shutdowns
  <2>. QED
    BY <2>2, <2>3, <2>4 DEF Relaying
<1>. QED
  BY <1>1, <1>3, <1>4, <1>5 DEF Ends

LEMMA InitEInv == Init => EInv
<1>. SUFFICES ASSUME Init, early = 0 PROVE Ends
  BY InitIInv DEF EInv
<1>1. ASSUME NEW s \in Side PROVE buf[s].q = <<>> /\ buf[s].gap = 0
  <2>1. Stream(0) = <<>>
    BY StreamType, EmptySeq
  <2>2. <<>> \o <<>> = <<>>
    BY EmptySeq, ConcatEmptySeq
  <2>3. Extend(EmptyQueue, Stream(0)) = [q |-> <<>>, gap |-> 0]
    BY <2>1, <2>2 DEF Extend, EmptyQueue
  <2>4. buf[s] = IF s = "client" THEN Extend(EmptyQueue, Stream(0)) ELSE EmptyQueue
    BY DEF Init
  <2>. QED
    BY <2>3, <2>4 DEF EmptyQueue
<1>2. \A s \in Side : ~Waiting(s) /\ CanWrite(buf[s])
  <2>1. Len(<<>>) = 0 /\ Capacity \in Nat \ {0}
    BY EmptySeq, CopyAssumption
  <2>2. ASSUME NEW s \in Side PROVE ~Waiting(s) /\ Room(buf[s]) = Capacity - 0 - 0
    BY <1>1, <2>1 DEF Waiting, CanRead, Room
  <2>. QED
    BY <2>1, <2>2 DEF CanWrite
<1>3. Relaying
  BY <1>2, Pair DEF Init, Relaying, OneDirection, OneEnded, ReadToEnd, ClientEnded,
                    OriginEnded, OneOp, Shutdowns, Emptied
<1>. QED
  BY <1>3 DEF Init, Ends, ErrorOnlyOnReset, NothingDroppedAtDone

LEMMA NextEInv == EInv /\ [Next]_vars => EInv'
<1>. SUFFICES ASSUME EInv, [Next]_vars PROVE EInv'
  OBVIOUS
<1>1. IInv' /\ IInv
  BY NextIInv DEF EInv
<1>2. ASSUME early' = 0 PROVE Ends'
  <2>1. early = 0
    BY <1>2 DEF Next, selector_select, handle_iteration, PeerSends, PeerFinishes,
                PeerResets, PeerReads, entry, vars
  <2>2. Ends
    BY <2>1 DEF EInv
  <2>3. CASE UNCHANGED vars
    <3>1. UNCHANGED <<state, buf, eof, interest, shut, arrived, fin, reset, pending>>
      BY <2>3 DEF vars, conn, peer
    <3>. QED
      BY <2>2, <3>1
         DEF Ends, Relaying, ErrorOnlyOnReset, NothingDroppedAtDone, OneDirection, Waiting,
             OneEnded, ReadToEnd, ClientEnded, OriginEnded, OneOp, Shutdowns, Emptied
  <2>4. CASE Next
    BY <1>1, <2>2, <2>4, LoopEnds, SelectEnds, PeerEnds DEF Next
  <2>. QED
    BY <2>3, <2>4
<1>. QED
  BY <1>1, <1>2 DEF EInv

\* Nothing waits in a buffer unwatched: copy.c never leaves bytes behind
\* without the interest that will forward them.
THEOREM WaitingIsWatched == Spec => []BufferedIsWatched
<1>1. EInv => BufferedIsWatched
  BY DEF EInv, Ends, Relaying, OneDirection, Waiting, BufferedIsWatched
<1>. QED
  BY <1>1, InitEInv, NextEInv, PTL DEF Spec

\* No data of the client is left for an origin that counts as ended, which
\* copy.c would never send and never discard.
THEOREM NoWedge == Spec => []NeverWedged
<1>1. EInv => NeverWedged
  BY Pair DEF EInv, Ends, Relaying, OneDirection, Waiting, NeverWedged
<1>. QED
  BY <1>1, InitEInv, NextEInv, PTL DEF Spec

\* Without early data, SOCKS_ERROR means that a peer reset its connection:
\* copy.c does not send on what it has shut down itself.
THEOREM ErrorsAreResets == ASSUME Early \subseteq {0} PROVE Spec => []ErrorOnlyOnReset
<1>. DEFINE None == early = 0
<1>1. Init => None
  BY DEF Init
<1>2. None /\ [Next]_vars => None'
  BY DEF Next, selector_select, handle_iteration, PeerSends, PeerFinishes,
         PeerResets, PeerReads, entry, vars
<1>3. EInv /\ None => ErrorOnlyOnReset
  BY DEF EInv, Ends
<1>. HIDE DEF None
<1>. QED
  BY <1>1, <1>2, <1>3, InitEInv, NextEInv, PTL DEF Spec

\* Without early data, SOCKS_DONE means that all a side sent was forwarded,
\* unless the side it was for had finished.
THEOREM AllForwardedAtDone == ASSUME Early \subseteq {0} PROVE Spec => []NothingDroppedAtDone
<1>. DEFINE None == early = 0
<1>1. Init => None
  BY DEF Init
<1>2. None /\ [Next]_vars => None'
  BY DEF Next, selector_select, handle_iteration, PeerSends, PeerFinishes,
         PeerResets, PeerReads, entry, vars
<1>3. EInv /\ None => NothingDroppedAtDone
  BY DEF EInv, Ends
<1>. HIDE DEF None
<1>. QED
  BY <1>1, <1>2, <1>3, InitEInv, NextEInv, PTL DEF Spec
=============================================================================
