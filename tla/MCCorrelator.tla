---------------------------- MODULE MCCorrelator ----------------------------
(* A small instance of Correlator for TLC. *)
EXTENDS Correlator

CONSTANTS a1, c1, c2, x1

(* a1 shares its scope with two code findings. *)
Forked == {<<a1, c1>>, <<a1, c2>>}

AllFaults == FaultKinds
=============================================================================
