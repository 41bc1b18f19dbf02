---------------------------- MODULE BufferProofs ----------------------------
(***************************************************************************)
(* Proofs about server/buffer.c for every capacity and every set of bytes: *)
(* the pointer order buffer.h states is an invariant, a drained buffer is  *)
(* reset, and the pointers implement the bounded FIFO.                     *)
(***************************************************************************)
EXTENDS Buffer, SequenceTheorems, TLAPS

\* The inductive invariant: the pointers are ordered, and equal only at 0.
\* The second conjunct is what buffer_read_adv's own compaction buys.
IInv == TypeOK /\ (read = write => read = 0)

LEMMA InitIInv == Init => IInv
  BY BufferAssumption DEF Init, IInv, TypeOK, Cells

\* A failed or successful advance keeps the pointers ordered.
LEMMA ReadAdvIInv ==
  ASSUME IInv, NEW n \in {-1} \cup 1 .. read_available, buffer_read_adv(n)
  PROVE  /\ read' \in 0 .. write' /\ write' \in 0 .. Capacity
         /\ read' = write' => read' = 0
  BY BufferAssumption DEF IInv, TypeOK, read_available, buffer_read_adv

LEMMA NextIInv == IInv /\ [Next]_vars => IInv'
<1> SUFFICES ASSUME IInv, [Next]_vars PROVE IInv'
  OBVIOUS
<1> USE BufferAssumption
<1>1. CASE recv
  <2>1. PICK n \in {-1} \cup 1 .. write_available :
          /\ \E block \in [1 .. n -> Byte] :
               data' = [i \in Cells |-> IF write <= i /\ i < write + n
                                        THEN block[i - write + 1] ELSE data[i]]
          /\ buffer_write_adv(n)
          /\ UNCHANGED <<read, taken>>
    BY <1>1 DEF recv
  <2>2. PICK block \in [1 .. n -> Byte] :
          data' = [i \in Cells |-> IF write <= i /\ i < write + n
                                   THEN block[i - write + 1] ELSE data[i]]
    BY <2>1
  <2>3. ASSUME NEW i \in Cells, write <= i, i < write + n
        PROVE  block[i - write + 1] \in Byte
    BY <2>2, <2>3 DEF IInv, TypeOK, Cells, write_available
  <2>4. data' \in [Cells -> Byte]
    BY <2>2, <2>3 DEF IInv, TypeOK
  <2>5. write' \in 0 .. Capacity /\ read' \in 0 .. write'
        /\ (read' = write' => read' = 0)
    BY <2>1 DEF IInv, TypeOK, buffer_write_adv, write_available
  <2> QED BY <2>1, <2>4, <2>5 DEF IInv, TypeOK
<1>2. CASE buffer_write
  BY <1>2 DEF buffer_write, buffer_can_write, buffer_write_adv, IInv, TypeOK, Cells
<1>3. CASE buffer_read
  <2>1. 1 \in {-1} \cup 1 .. read_available
    BY <1>3 DEF buffer_read, buffer_can_read, read_available, IInv, TypeOK
  <2>2. data[read] \in Byte
    BY <1>3 DEF buffer_read, buffer_can_read, IInv, TypeOK, Cells
  <2> QED BY <1>3, <2>1, <2>2, ReadAdvIInv DEF buffer_read, IInv, TypeOK
<1>4. CASE send
  <2>1. PICK n \in {-1} \cup 1 .. read_available :
          /\ taken' = IF n = -1 THEN taken
                      ELSE [i \in 1 .. n |-> data[read + i - 1]]
          /\ buffer_read_adv(n)
          /\ UNCHANGED data
    BY <1>4 DEF send
  <2>2. ASSUME n # -1 PROVE [i \in 1 .. n |-> data[read + i - 1]] \in Seq(Byte)
    <3>1. ASSUME NEW i \in 1 .. n PROVE data[read + i - 1] \in Byte
      BY <2>2 DEF IInv, TypeOK, Cells, read_available
    <3>2. n \in Nat
      BY <2>2 DEF read_available, IInv, TypeOK
    <3> QED BY <3>1, <3>2
  <2> QED BY <2>1, <2>2, ReadAdvIInv DEF IInv, TypeOK
<1>5. CASE buffer_compact
  <2>1. CASE read = write
    BY <1>5, <2>1 DEF buffer_compact, IInv, TypeOK
  <2>2. CASE read # write
    <3>1. ASSUME NEW i \in Cells, i < write - read PROVE data[read + i] \in Byte
      BY <2>2, <3>1 DEF IInv, TypeOK, Cells
    <3>2. data' \in [Cells -> Byte]
      BY <1>5, <2>2, <3>1 DEF buffer_compact, Moved, IInv, TypeOK
    <3> QED BY <1>5, <2>2, <3>2 DEF buffer_compact, IInv, TypeOK
  <2> QED BY <2>1, <2>2
<1>6. CASE UNCHANGED vars
  BY <1>6 DEF vars, IInv, TypeOK
<1> QED BY <1>1, <1>2, <1>3, <1>4, <1>5, <1>6 DEF Next

\* R <= W <= limit in every state: no assert of buffer.c ever fires.
THEOREM PointersOrdered == Spec => []TypeOK
<1>1. IInv => TypeOK
  BY DEF IInv
<1> QED BY <1>1, InitIInv, NextIInv, PTL DEF Spec

\* With nothing left to read, the whole capacity is writable again.
THEOREM DrainedReset == Spec => []DrainedIsReset
<1>1. IInv => DrainedIsReset
  BY BufferAssumption
     DEF IInv, TypeOK, DrainedIsReset, buffer_can_read, write_available
<1> QED BY <1>1, InitIInv, NextIInv, PTL DEF Spec

-----------------------------------------------------------------------------
\* The content is a sequence of write - read bytes.
LEMMA ContentSeq ==
  ASSUME IInv
  PROVE  Content \in Seq(Byte) /\ Len(Content) = write - read
<1>1. ASSUME NEW i \in 1 .. write - read PROVE data[read + i - 1] \in Byte
  BY BufferAssumption DEF IInv, TypeOK, Cells
<1>2. write - read \in Nat
  BY DEF IInv, TypeOK
<1> QED BY <1>1, <1>2 DEF Content

\* Storing a block at the write pointer appends it to the content.
LEMMA StoreAppends ==
  ASSUME IInv, NEW n \in 1 .. write_available, NEW block \in [1 .. n -> Byte],
         data' = [i \in Cells |-> IF write <= i /\ i < write + n
                                  THEN block[i - write + 1] ELSE data[i]],
         write' = write + n, read' = read
  PROVE  Content' = Content \o block
<1> USE BufferAssumption
<1> DEFINE W == write - read
<1>1. W \in Nat /\ n \in Nat /\ write' - read' = W + n
  BY DEF IInv, TypeOK, write_available
<1>2. Content \in Seq(Byte) /\ Len(Content) = W
  BY ContentSeq
<1>3. block \in Seq(Byte) /\ Len(block) = n
  <2>1. block \in Seq(Byte)
    BY <1>1, SeqDef
  <2>2. DOMAIN block = 1 .. n
    OBVIOUS
  <2> QED BY <1>1, <2>1, <2>2, LenProperties
<1> HIDE DEF W
<1>4. /\ Content \o block \in Seq(Byte)
      /\ Len(Content \o block) = W + n
      /\ \A i \in 1 .. W + n : (Content \o block)[i] =
                               IF i <= W THEN Content[i] ELSE block[i - W]
  BY <1>2, <1>3, ConcatProperties
<1>5. Content' = [i \in 1 .. W + n |-> data'[read + i - 1]]
  BY <1>1 DEF Content, W
<1>6. ASSUME NEW i \in 1 .. W + n
      PROVE  data'[read + i - 1] = (Content \o block)[i]
  <2>1. read + i - 1 \in Cells
    BY <1>1 DEF IInv, TypeOK, Cells, write_available, W
  <2>2. CASE i <= W
    <3>1. data'[read + i - 1] = data[read + i - 1]
      BY <2>1, <2>2, <1>1 DEF IInv, TypeOK, W
    <3>2. Content[i] = data[read + i - 1]
      BY <2>2, <1>1 DEF Content, W
    <3> QED BY <3>1, <3>2, <2>2, <1>4
  <2>3. CASE i > W
    <3>1. data'[read + i - 1] = block[i - W]
      BY <2>1, <2>3, <1>1 DEF IInv, TypeOK, W
    <3> QED BY <3>1, <2>3, <1>1, <1>4
  <2>4. i <= W \/ i > W
    BY <1>1
  <2> QED BY <2>2, <2>3, <2>4
<1>7. Content \o block = [i \in 1 .. W + n |-> (Content \o block)[i]]
  BY <1>4, LenProperties
<1> QED BY <1>5, <1>6, <1>7

\* Advancing the read pointer by n takes the first n bytes off the content.
LEMMA AdvanceConsumes ==
  ASSUME IInv, NEW n \in 1 .. read_available, buffer_read_adv(n), data' = data
  PROVE  [q |-> Content', gap |-> read'] =
            Fifo!Consume([q |-> Content, gap |-> read], n)
<1> DEFINE W == write - read
<1>1. W \in Nat /\ n \in 1 .. W
  BY DEF IInv, TypeOK, read_available
<1>2. Content \in Seq(Byte) /\ Len(Content) = W
  BY ContentSeq
<1>3. CASE n = W
  <2>1. read' = 0 /\ write' = 0
    BY <1>3 DEF buffer_read_adv, IInv, TypeOK
  <2>2. Content' = <<>>
    BY <2>1 DEF Content
  <2> QED BY <1>2, <1>3, <2>1, <2>2 DEF Fifo!Consume, Fifo!EmptyQueue
<1>4. CASE n # W
  <2>1. read' = read + n /\ write' = write
    BY <1>1, <1>4 DEF buffer_read_adv, IInv, TypeOK
  <2>2. write' - read' = W - n
    BY <1>1, <2>1 DEF IInv, TypeOK
  <2>3. Content' = [i \in 1 .. W - n |-> data[read + n + i - 1]]
    BY <2>1, <2>2 DEF Content
  <2>4. SubSeq(Content, n + 1, W) = [i \in 1 .. W - n |-> Content[i + n]]
    BY <1>1, <1>2, <1>4
  <2>5. ASSUME NEW i \in 1 .. W - n
        PROVE  Content[i + n] = data[read + n + i - 1]
    <3>1. i + n \in 1 .. W /\ read + (i + n) - 1 = read + n + i - 1
      BY <1>1 DEF IInv, TypeOK
    <3> QED BY <3>1 DEF Content
  <2>6. Content' = SubSeq(Content, n + 1, W)
    BY <2>3, <2>4, <2>5
  <2> QED BY <1>2, <1>4, <2>1, <2>6 DEF Fifo!Consume
<1> QED BY <1>3, <1>4

\* What a read of n bytes hands out is the first n bytes of the content.
LEMMA PrefixTaken ==
  ASSUME IInv, NEW n \in 1 .. read_available
  PROVE  [i \in 1 .. n |-> data[read + i - 1]] = SubSeq(Content, 1, n)
<1>1. write - read \in Nat /\ n \in 1 .. write - read
  BY DEF IInv, TypeOK, read_available
<1>2. Content \in Seq(Byte) /\ Len(Content) = write - read
  BY ContentSeq
<1>3. SubSeq(Content, 1, n) = [i \in 1 .. n |-> Content[i]]
  BY <1>1, <1>2
<1>4. ASSUME NEW i \in 1 .. n PROVE Content[i] = data[read + i - 1]
  BY <1>1 DEF Content
<1> QED BY <1>3, <1>4

\* memmove keeps the content.
LEMMA CompactKeeps ==
  ASSUME IInv, buffer_compact
  PROVE  Content' = Content /\ read' = 0
<1> USE BufferAssumption
<1>1. read' = 0
  BY DEF buffer_compact
<1>2. write' - read' = write - read
  BY DEF buffer_compact, IInv, TypeOK
<1>3. CASE read = write
  <2>1. 1 .. write - read = {} /\ 1 .. write' - read' = {}
    BY <1>2, <1>3 DEF IInv, TypeOK
  <2> QED BY <1>1, <2>1 DEF Content
<1>4. CASE read # write
  <2>1. ASSUME NEW i \in 1 .. write - read
        PROVE  data'[read' + i - 1] = data[read + i - 1]
    <3>1. i - 1 \in Cells /\ i - 1 < write - read
      BY DEF IInv, TypeOK, Cells
    <3>2. data'[i - 1] = data[read + (i - 1)]
      BY <1>4, <3>1 DEF buffer_compact, Moved
    <3>3. read' + i - 1 = i - 1 /\ read + i - 1 = read + (i - 1)
      BY <1>1 DEF IInv, TypeOK
    <3> QED BY <3>2, <3>3
  <2> DEFINE W == write - read
  <2>2. Content = [i \in 1 .. W |-> data[read + i - 1]]
    BY DEF Content
  <2>3. Content' = [i \in 1 .. W |-> data'[read' + i - 1]]
    BY <1>2 DEF Content
  <2> QED BY <1>1, <2>1, <2>2, <2>3
<1> QED BY <1>1, <1>3, <1>4

\* Every step of the buffer is a step of the FIFO or a stutter.
LEMMA StepRefines == IInv /\ [Next]_vars => [Fifo!Next]_Fifo!vars
<1> SUFFICES ASSUME IInv, [Next]_vars PROVE [Fifo!Next]_Fifo!vars
  OBVIOUS
<1> USE BufferAssumption
<1> DEFINE b == [q |-> Content, gap |-> read]
<1>1. Content \in Seq(Byte) /\ Len(Content) = write - read
  BY ContentSeq
<1>2. Fifo!Room(b) = write_available
  BY <1>1 DEF Fifo!Room, write_available, IInv, TypeOK
<1>3. ASSUME NEW n \in 1 .. write_available, NEW block \in [1 .. n -> Byte],
             Content' = Content \o block, read' = read, taken' = taken
      PROVE  Fifo!Put
  <2>1. [q |-> Content', gap |-> read'] = Fifo!Extend(b, block)
    BY <1>3 DEF Fifo!Extend
  <2> QED BY <1>2, <1>3, <2>1 DEF Fifo!Put
<1>4. ASSUME NEW n \in 1 .. read_available, buffer_read_adv(n), data' = data,
             taken' = [i \in 1 .. n |-> data[read + i - 1]]
      PROVE  Fifo!Take
  <2>1. n \in 1 .. Len(Content)
    BY <1>1 DEF read_available
  <2>2. taken' = SubSeq(Content, 1, n)
    BY <1>4, PrefixTaken
  <2>3. [q |-> Content', gap |-> read'] = Fifo!Consume(b, n)
    BY <1>4, AdvanceConsumes
  <2> QED BY <2>1, <2>2, <2>3 DEF Fifo!Take
<1>5. ASSUME data' = data, read' = read, write' = write, taken' = taken
      PROVE  UNCHANGED Fifo!vars
  BY <1>5 DEF Fifo!vars, Content
<1>6. CASE recv
  <2>1. PICK n \in {-1} \cup 1 .. write_available :
          /\ \E block \in [1 .. n -> Byte] :
               data' = [i \in Cells |-> IF write <= i /\ i < write + n
                                        THEN block[i - write + 1] ELSE data[i]]
          /\ buffer_write_adv(n)
          /\ UNCHANGED <<read, taken>>
    BY <1>6 DEF recv
  <2>2. PICK block \in [1 .. n -> Byte] :
          data' = [i \in Cells |-> IF write <= i /\ i < write + n
                                   THEN block[i - write + 1] ELSE data[i]]
    BY <2>1
  <2>3. CASE n = -1
    <3>1. write' = write
      BY <2>1, <2>3 DEF buffer_write_adv
    <3>2. data' = [i \in Cells |-> data[i]]
      BY <2>2, <2>3 DEF IInv, TypeOK, Cells
    <3>3. data' = data
      BY <3>2 DEF IInv, TypeOK
    <3> QED BY <2>1, <3>1, <3>3, <1>5
  <2>4. CASE n # -1
    <3>1. n \in 1 .. write_available /\ write' = write + n
      BY <2>1, <2>4 DEF buffer_write_adv, write_available, IInv, TypeOK
    <3>2. Content' = Content \o block
      BY <2>1, <2>2, <3>1, StoreAppends
    <3> QED BY <2>1, <2>2, <3>1, <3>2, <1>3 DEF Fifo!Next
  <2> QED BY <2>3, <2>4
<1>7. CASE buffer_write
  <2>1. PICK c \in Byte : data' = [data EXCEPT ![write] = c]
    BY <1>7 DEF buffer_write
  <2>2. 1 \in 1 .. write_available /\ write' = write + 1
    BY <1>7 DEF buffer_write, buffer_can_write, buffer_write_adv, write_available,
                IInv, TypeOK
  <2> DEFINE block == [i \in 1 .. 1 |-> c]
  <2>3. block \in [1 .. 1 -> Byte]
    OBVIOUS
  <2>4. data' = [i \in Cells |-> IF write <= i /\ i < write + 1
                                 THEN block[i - write + 1] ELSE data[i]]
    <3>1. ASSUME NEW i \in Cells
          PROVE  (write <= i /\ i < write + 1) <=> i = write
      BY DEF IInv, TypeOK, Cells
    <3>2. block[write - write + 1] = c
      BY DEF IInv, TypeOK
    <3>3. data' = [i \in Cells |-> IF i = write THEN c ELSE data[i]]
      BY <2>1 DEF IInv, TypeOK
    <3> HIDE DEF block
    <3> QED BY <3>1, <3>2, <3>3
  <2>5. UNCHANGED <<read, taken>>
    BY <1>7 DEF buffer_write
  <2> HIDE DEF block
  <2>6. Content' = Content \o block
    BY <2>2, <2>3, <2>4, <2>5, StoreAppends
  <2> QED BY <2>2, <2>3, <2>5, <2>6, <1>3 DEF Fifo!Next
<1>8. CASE buffer_read
  <2>1. 1 \in 1 .. read_available
    BY <1>8 DEF buffer_read, buffer_can_read, read_available, IInv, TypeOK
  <2>2. taken' = [i \in 1 .. 1 |-> data[read + i - 1]]
    BY <1>8 DEF buffer_read, IInv, TypeOK
  <2> QED BY <1>8, <2>1, <2>2, <1>4 DEF buffer_read, Fifo!Next
<1>9. CASE send
  <2>1. PICK n \in {-1} \cup 1 .. read_available :
          /\ taken' = IF n = -1 THEN taken
                      ELSE [i \in 1 .. n |-> data[read + i - 1]]
          /\ buffer_read_adv(n)
          /\ UNCHANGED data
    BY <1>9 DEF send
  <2>2. CASE n = -1
    BY <2>1, <2>2, <1>5 DEF buffer_read_adv
  <2>3. CASE n # -1
    BY <2>1, <2>3, <1>4 DEF Fifo!Next
  <2> QED BY <2>2, <2>3
<1>10. CASE buffer_compact
  <2>1. Content' = Content /\ read' = 0
    BY <1>10, CompactKeeps
  <2>2. [q |-> Content', gap |-> read'] = Fifo!Compacted(b)
    BY <2>1 DEF Fifo!Compacted
  <2> QED BY <1>10, <2>2 DEF Fifo!Compact, Fifo!Next, buffer_compact
<1>11. CASE UNCHANGED vars
  BY <1>11, <1>5 DEF vars
<1> QED BY <1>6, <1>7, <1>8, <1>9, <1>10, <1>11 DEF Next, Fifo!Next

\* The pointer buffer implements the bounded FIFO: bytes come out once, in
\* the order they went in, and none is overwritten before it is read.
THEOREM BufferImplementsFifo == Spec => ImplementsFifo
<1>1. Init => Fifo!Init
  <2> SUFFICES ASSUME Init PROVE Fifo!Init
    OBVIOUS
  <2>1. Content = <<>>
    BY DEF Init, Content
  <2> QED BY <2>1 DEF Init, Fifo!Init, Fifo!EmptyQueue
<1> QED BY <1>1, InitIInv, NextIInv, StepRefines, PTL
        DEF Spec, ImplementsFifo, Fifo!Spec
=============================================================================
