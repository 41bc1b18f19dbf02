------------------------------- MODULE MCCopy -------------------------------
(***************************************************************************)
(* Model-checking instances of Copy.  A buffer of three bytes is the least *)
(* that can hold two bytes and still be read into, so that a stream ends   *)
(* while more than one send is left to do; with one byte of socket room a  *)
(* send is then partial and the next one refused.  A fourth byte needs the *)
(* room of the first three to have been given back.                        *)
(***************************************************************************)
EXTENDS Copy

Sends43 == [s \in Side |-> IF s = "client" THEN 4 ELSE 3]
Sends41 == [s \in Side |-> IF s = "client" THEN 4 ELSE 1]
=============================================================================
