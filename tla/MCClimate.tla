------------------------------ MODULE MCClimate ------------------------------
(* Small instances of Climate for TLC. *)
EXTENDS Climate, TLC

Requests == Permutations(Request)
=============================================================================
