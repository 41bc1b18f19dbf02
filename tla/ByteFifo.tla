------------------------------ MODULE ByteFifo ------------------------------
(***************************************************************************)
(* What a `struct buffer' promises: a bounded FIFO of bytes.  Buffer, the  *)
(* pointer implementation, refines this specification.                     *)
(***************************************************************************)
EXTENDS ByteQueue

CONSTANT Byte

VARIABLES queue,  \* the bytes in the buffer and the gap in front of them
          taken   \* the bytes the last read handed to its caller

vars == <<queue, taken>>

Init == queue = EmptyQueue /\ taken = <<>>

Put == \E n \in 1 .. Room(queue) : \E s \in [1 .. n -> Byte] :
          /\ queue' = Extend(queue, s)
          /\ UNCHANGED taken

Take == \E n \in 1 .. Len(queue.q) :
          /\ queue' = Consume(queue, n)
          /\ taken' = SubSeq(queue.q, 1, n)

Compact == /\ queue' = Compacted(queue)
           /\ UNCHANGED taken

Next == Put \/ Take \/ Compact

Spec == Init /\ [][Next]_vars
=============================================================================
