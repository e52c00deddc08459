---------------------------- MODULE MCServerAuth ----------------------------
(* Small instances of ServerAuth for TLC. *)
EXTENDS ServerAuth, TLC

\* Connection slots are interchangeable, and so are the ids that may be issued.
ConnsAndDisplays == Permutations(Conn) \cup Permutations(Display)

NeverOrOneDay == {0, 1}
OneDay == {1}
=============================================================================
