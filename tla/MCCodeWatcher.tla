--------------------------- MODULE MCCodeWatcher ---------------------------
(* Small instances of CodeWatcher for TLC. *)
EXTENDS CodeWatcher

CONSTANTS f1, f2

(* Nothing is lost, however files change and emissions fail; and contents  *)
(* are lost in every way.                                                  *)
LosslessOrNot == {FaultKinds \ LosingFaults, LosingFaults}
NoFault == {{}}
=============================================================================
