----------------------------- MODULE MCUsbImport -----------------------------
(* Small instances of UsbImport for TLC. *)
EXTENDS UsbImport, TLC

CONSTANT d1

\* Two cameras that both number from IMG_0001.
Camera == d1 :> {[name |-> "IMG_0001", size |-> 1], [name |-> "IMG_0002", size |-> 1]}
OtherCamera == {[name |-> "IMG_0001", nth |-> 1, size |-> 2]}
=============================================================================
