--------------------------- MODULE AlertCooldown ---------------------------
(***************************************************************************)
(* What the alert cooldown promises to whoever reads the notifications:    *)
(* a fingerprint is free until one correlator acquires it; the holder      *)
(* either settles it, after which it cools down, or gives it back.  Only   *)
(* the passing of the cooldown frees a settled fingerprint, and no         *)
(* fingerprint is blocked for ever.  When the parties are not reliable a   *)
(* holder may also vanish and leave the fingerprint orphaned: blocked,     *)
(* although nobody is working on it and nobody was told.                   *)
(*                                                                         *)
(* AlertPipeline, the model of the code, implements this specification.    *)
(***************************************************************************)

CONSTANTS
  Fingerprints,   \* the alerts that are told apart
  Reliable        \* BOOLEAN: no holder vanishes

VARIABLE phase    \* phase[f]: how far the current cooldown of f has come

Phases == {"free", "held", "cooling", "orphaned"}

PhaseOK == phase \in [Fingerprints -> Phases]

Init == phase = [f \in Fingerprints |-> "free"]

Move(f, from, to) ==
  /\ phase[f] = from
  /\ phase' = [phase EXCEPT ![f] = to]

Acquire(f) == Move(f, "free", "held")
Settle(f)  == Move(f, "held", "cooling")
GiveUp(f)  == Move(f, "held", "free")

(* The holder vanishes, perhaps before it learned that it had become one.  *)
Abandon(f) ==
  /\ ~Reliable
  /\ phase[f] \in {"free", "held"}
  /\ Move(f, phase[f], "orphaned")

(* A cooldown runs out whatever its holder is doing. *)
Lapse(f) == phase[f] # "free" /\ Move(f, phase[f], "free")

Next ==
  \E f \in Fingerprints :
    Acquire(f) \/ Settle(f) \/ GiveUp(f) \/ Abandon(f) \/ Lapse(f)

Fairness == \A f \in Fingerprints : WF_phase(Lapse(f))

Safety == Init /\ [][Next]_phase

Spec == Safety /\ Fairness

(* A blocked fingerprint becomes free again. *)
NeverBlockedForever ==
  \A f \in Fingerprints : phase[f] # "free" ~> phase[f] = "free"
=============================================================================
