---------------------------- MODULE MCAudioOutput ----------------------------
(* Small instances of AudioOutput for TLC. *)
EXTENDS AudioOutput, TLC

Requests == Permutations(Request)
=============================================================================
