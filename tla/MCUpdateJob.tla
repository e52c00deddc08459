----------------------------- MODULE MCUpdateJob -----------------------------
(* Small instances of UpdateJob for TLC. *)
EXTENDS UpdateJob, TLC

Commits == Permutations(Commit)
=============================================================================
