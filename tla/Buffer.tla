------------------------------- MODULE Buffer -------------------------------
(***************************************************************************)
(* server/buffer.c: a byte buffer over a fixed array with a read and a     *)
(* write pointer.  Pointers are offsets from `data'; `limit' is Capacity.  *)
(*                                                                         *)
(* The actions are the operations the server performs on a buffer: recv    *)
(* into buffer_write_ptr, a parser's buffer_read, a response generator's   *)
(* buffer_write, send from buffer_read_ptr, and the compaction that        *)
(* buffer.h offers "a demanda".                                            *)
(***************************************************************************)
EXTENDS Integers, Sequences

CONSTANTS Byte, Capacity

ASSUME BufferAssumption == Capacity \in Nat \ {0} /\ Byte # {}

VARIABLES data,   \* the array, [0 .. Capacity - 1 -> Byte]
          read,   \* next byte to hand out
          write,  \* first free position
          taken   \* history: the bytes the last read handed out

vars == <<data, read, write, taken>>

Cells == 0 .. Capacity - 1

\* buffer_init over calloc'ed storage: buffer_reset puts both pointers at data.
Init == /\ data \in {[i \in Cells |-> b] : b \in Byte}
        /\ read = 0
        /\ write = 0
        /\ taken = <<>>

-----------------------------------------------------------------------------
buffer_can_write == Capacity - write > 0

buffer_can_read == write - read > 0

\* What buffer_write_ptr and buffer_read_ptr report in *nbyte.
write_available == Capacity - write

read_available == write - read

\* The bytes between the pointers, oldest first.
Content == [i \in 1 .. write - read |-> data[read + i - 1]]

\* Mutant: the pointers move and the bytes do not.
Moved_Not(n) == data

\* memmove of n bytes from the read pointer to the start of the array.
Moved(n) == [i \in Cells |-> IF i < n THEN data[read + i] ELSE data[i]]

\* Mutant: recv's -1 moves the pointer.
buffer_write_adv_Unchecked(n) == write' = write + n

\* A negative count (recv or send failed) leaves the pointer alone.
buffer_write_adv(n) == write' = IF n > -1 THEN write + n ELSE write

\* Mutant: no compaction when the buffer is drained.
buffer_read_adv_NoCompact(n) ==
  /\ read' = IF n > -1 THEN read + n ELSE read
  /\ UNCHANGED write

\* Reading up to the write pointer compacts, which here only resets.
buffer_read_adv(n) ==
  LET r == IF n > -1 THEN read + n ELSE read
      drained == n > -1 /\ r = write
  IN /\ read' = IF drained THEN 0 ELSE r
     /\ write' = IF drained THEN 0 ELSE write

-----------------------------------------------------------------------------
\* recv(fd, ptr, avail) stores n bytes at the write pointer, or fails with -1.
recv ==
  \E n \in {-1} \cup 1 .. write_available :
    /\ \E block \in [1 .. n -> Byte] :
         data' = [i \in Cells |-> IF write <= i /\ i < write + n
                                  THEN block[i - write + 1] ELSE data[i]]
    /\ buffer_write_adv(n)
    /\ UNCHANGED <<read, taken>>

buffer_write ==
  /\ buffer_can_write
  /\ \E c \in Byte : data' = [data EXCEPT ![write] = c]
  /\ buffer_write_adv(1)
  /\ UNCHANGED <<read, taken>>

buffer_read ==
  /\ buffer_can_read
  /\ taken' = <<data[read]>>
  /\ buffer_read_adv(1)
  /\ UNCHANGED data

\* send(fd, ptr, avail) takes a prefix of the content, or fails with -1.
send ==
  \E n \in {-1} \cup 1 .. read_available :
    /\ taken' = IF n = -1 THEN taken ELSE [i \in 1 .. n |-> data[read + i - 1]]
    /\ buffer_read_adv(n)
    /\ UNCHANGED data

buffer_compact ==
  /\ read # 0
  /\ IF read = write
     THEN /\ write' = 0
          /\ UNCHANGED data
     ELSE /\ data' = Moved(write - read)
          /\ write' = write - read
  /\ read' = 0
  /\ UNCHANGED taken

Next == recv \/ buffer_write \/ buffer_read \/ send \/ buffer_compact

Spec == Init /\ [][Next]_vars

-----------------------------------------------------------------------------
\* Type invariant: buffer.h's "R <= W <= limit", which the asserts of
\* buffer_write_ptr, buffer_read_ptr and the two _adv functions check.
TypeOK == /\ data \in [Cells -> Byte]
          /\ write \in 0 .. Capacity
          /\ read \in 0 .. write
          /\ taken \in Seq(Byte)

\* A buffer with nothing to read offers its whole capacity: this is what
\* lets a connection go on after a full buffer has been sent, since every
\* reader gives up when buffer_write_ptr reports no room.
DrainedIsReset == ~buffer_can_read => write_available = Capacity

\* The pointers and the array implement the bounded ByteFifo: no
\* byte is lost, repeated, reordered or overwritten before it is read, and
\* room comes back exactly when the queue drains or is compacted.
Fifo == INSTANCE ByteFifo
          WITH queue <- [q |-> Content, gap |-> read]

ImplementsFifo == Fifo!Spec
=============================================================================
