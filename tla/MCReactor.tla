------------------------------- MODULE MCReactor -------------------------------
(* Model values for the model checker. *)
EXTENDS Reactor

CONSTANTS c1, c2, d1, d2

==============================================================================
