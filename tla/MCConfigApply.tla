---------------------------- MODULE MCConfigApply ----------------------------
(* Small instances of ConfigApply for TLC. *)
EXTENDS ConfigApply, TLC

Followed == {"audio.volumePercent", "timeZone", "logging.level", "logging.debugMinutes"}
Panels == Permutations(Client)
=============================================================================
