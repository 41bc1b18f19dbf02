--------------------------- MODULE StringBuilder ----------------------------
(***************************************************************************)
(* The growing strings of shared/logger.c, which keep the accesses of a    *)
(* user and the log of the server.  A string is the sequence of the lines  *)
(* appended; of a line only its owner and its size matter.                 *)
(***************************************************************************)
EXTENDS Naturals, Sequences

CONSTANTS
  SB_INITIAL_CAPACITY,  \* 64
  Line                  \* what is appended: records with a size

ASSUME BuilderAssumption ==
  /\ SB_INITIAL_CAPACITY \in Nat \ {0}
  /\ \A l \in Line : /\ l.size \in Nat \ {0}
                    /\ \A n \in 1 .. l.size : [l EXCEPT !.size = n] \in Line

StringBuilder == [lines : Seq(Line), length : Nat, capacity : Nat]

sb_create == [lines |-> <<>>, length |-> 0, capacity |-> SB_INITIAL_CAPACITY]

\* Mutant: the terminating zero is not counted.
Needed_NoZero(sb, l) == sb.length + l.size

Needed(sb, l) == sb.length + l.size + 1

\* new_capacity after the loop has doubled it so many times.
new_capacity(capacity) ==
  LET grown[times \in Nat] == IF times = 0 THEN capacity * 2 ELSE grown[times - 1] * 2
  IN grown

\* The first of them that is enough.
Doubled(capacity, needed) ==
  LET enough == {k \in 0 .. needed : new_capacity(capacity)[k] >= needed}
  IN new_capacity(capacity)[CHOOSE k \in enough : \A j \in enough : k <= j]

\* What sb_append leaves of l, when realloc finds the memory.
sb_append(sb, l) ==
  [lines |-> Append(sb.lines, l), length |-> sb.length + l.size,
   capacity |-> IF Needed(sb, l) > sb.capacity THEN Doubled(sb.capacity, Needed(sb, l))
                ELSE sb.capacity]

\* A line is written by some fifteen calls of sb_append, whose -1 no caller
\* looks at: each time realloc fails the line lacks a piece, or all of them.
\* The capacity of what was written piece by piece is that of writing it at
\* once, for it is the first doubling with room for it.
Pieces(l) == {[l EXCEPT !.size = n] : n \in 1 .. l.size}

\* Mutant: the NULL of realloc takes the place of the buffer.
Appended_Lost(sb, l) ==
  {sb_append(sb, l)} \cup IF Needed(sb, l) > sb.capacity THEN {sb_create} ELSE {}

Appended(sb, l) ==
  IF Needed(sb, l) > sb.capacity THEN {sb_append(sb, m) : m \in Pieces(l)} \cup {sb}
  ELSE {sb_append(sb, l)}

\* The bytes written, the terminating zero included, are within the buffer.
Fits(sb) == sb.length + 1 <= sb.capacity
=============================================================================
