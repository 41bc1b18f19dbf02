----------------------------- MODULE MCManager ------------------------------
(* Bounds for Manager: names, passwords, lines and sessions.               *)
EXTENDS Manager, TLC

AllStored == [w \in Name \cup Password |-> w]

\* "anabel" stands for a name of more than 255 bytes that begins with "ana".
CutStored == [w \in Name \cup Password |-> IF w = "anabel" THEN "ana" ELSE w]

\* "anabel" stands for a name of more than 49 bytes that begins with "ana".
Names3 == {"admin", "ana", "anabel"}
Passwords2 == {"admin", "x"}
KeptNames == [n \in Name |-> IF n = "anabel" THEN "ana" ELSE n]

Numbers == "0" :> 0 @@ "1" :> 1 @@ "3" :> 3

\* None; one that is empty, and one more.
CommandLines2 == {<<>>, <<<<"", "x">>, <<"ana", "x">>>>}

\* The last reply is not part of the state of the program.
Program == <<vars, session>>

Symmetry == Permutations(Session)
=============================================================================
