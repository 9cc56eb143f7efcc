---------------------------- MODULE MCApiWatcher ----------------------------
(* Small instances of ApiWatcher for TLC. *)
EXTENDS ApiWatcher

CONSTANTS u1, u2

(* u1 is listed twice. *)
Repeated == <<u1, u2, u1>>
=============================================================================
