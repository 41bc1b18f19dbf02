------------------------------ MODULE MCAccess ------------------------------
(* Bounds for Access: names and command lines.                          *)
EXTENDS Access, TLC

AllStored == [w \in Name \cup Password |-> w]

Names3 == {"admin", "ana", "bo"}

\* None; one that is empty or taken, and one more.
CommandLines2 == {<<>>, <<<<"", "admin">>, <<"ana", "admin">>>>,
                  <<<<"admin", "admin">>, <<"ana", "admin">>>>}

\* The lines of ana are of two pieces, one of which a failed realloc can
\* lose.  None fits in what sb_create allocates.
Lines2 == [user : Name, size : {1}] \cup [user : {"ana"}, size : {2}]

Symmetry == Permutations(Builder) \cup Permutations(Conn)
=============================================================================
