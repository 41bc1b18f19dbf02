----------------------------- MODULE MCSelector -----------------------------
(* Bounds for Selector: which interests the handlers ask for.              *)
EXTENDS Selector

OneWay == {{}, {"read"}, {"write"}}
=============================================================================
