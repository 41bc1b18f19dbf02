------------------------------ MODULE MCServer ------------------------------
(* Server, as the configurations instantiate it.  The connections would be *)
(* interchangeable; no symmetry is declared, since it is not sound for the *)
(* liveness property.                                                      *)
EXTENDS Server
=============================================================================
