---------------------------- MODULE MCDeviceScan ----------------------------
(* Small instances of DeviceScan for TLC. *)
EXTENDS DeviceScan, TLC

Scans == Permutations(Scan)
=============================================================================
