-------------------------- MODULE MCMediaPlayback --------------------------
(* Small instances of MediaPlayback for TLC. *)
EXTENDS MediaPlayback, TLC

Tasks == Permutations(Task)
=============================================================================
