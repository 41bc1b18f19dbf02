----------------------------- MODULE ByteQueue -----------------------------
(***************************************************************************)
(* The value of a `struct buffer' as its callers see it: the bytes between *)
(* the pointers, oldest first, and the gap that consumed bytes leave in    *)
(* front of them.  The gap is not writable: it is given back by a          *)
(* compaction or by the read that drains the queue.                        *)
(***************************************************************************)
EXTENDS Naturals, Sequences

CONSTANT Capacity  \* limit - data; BUFFER_SIZE in the server

EmptyQueue == [q |-> <<>>, gap |-> 0]

Room(b) == Capacity - b.gap - Len(b.q)

CanWrite(b) == Room(b) > 0

CanRead(b) == Len(b.q) > 0

\* Mutant: the bytes are stored at data instead of write.
Extend_AtData(b, s) == [q |-> s, gap |-> b.gap]

Extend(b, s) == [q |-> b.q \o s, gap |-> b.gap]

\* Mutants: the read pointer moves past what was read; no compaction when
\* the last byte is consumed.
Consume_KeepsGap(b, n) == [q |-> b.q, gap |-> b.gap + n]
Consume_NoCompact(b, n) ==
  [q |-> SubSeq(b.q, n + 1, Len(b.q)), gap |-> b.gap + n]

\* Consuming the last byte compacts.
Consume(b, n) == IF n = Len(b.q) THEN EmptyQueue
                 ELSE [q |-> SubSeq(b.q, n + 1, Len(b.q)), gap |-> b.gap + n]

Compacted(b) == [q |-> b.q, gap |-> 0]
=============================================================================
