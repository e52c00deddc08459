------------------------- MODULE MCActivityHistory -------------------------
(* Small instances of ActivityHistory for TLC. *)
EXTENDS ActivityHistory
=============================================================================
