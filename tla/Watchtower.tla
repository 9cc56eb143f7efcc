----------------------------- MODULE Watchtower -----------------------------
(***************************************************************************)
(* The correlator as a whole: the loop of Correlator hands the matches it  *)
(* finds to the pipeline of AlertPipeline, one at a time, and what the     *)
(* findings say decides about it: which pairs are matches, which of them   *)
(* are likely enough, and what their alert is called (Scoring).            *)
(*                                                                         *)
(* Its steps are those of the two parts.  The loop stands still while the  *)
(* pipeline works on a match; producers, clocks and Redis do not.          *)
(***************************************************************************)
EXTENDS Scoring, FiniteSets, Sequences

CONSTANTS
  ApiFindings, CodeFindings, OtherFindings,  \* findings, as in Scoring
  Gaps,            \* seconds that may lie between two findings of a match
  MaxSize, Window,                           \* of Correlator
  Engine,          \* the thread: the only correlator of AlertPipeline
  Tokens, NoToken, MinSeverity, NumChannels, \* of AlertPipeline
  MaxAttempts, LoopFaults, PipeFaults

(* Findings are those that the watchers push, and others that correlate    *)
(* drops: malformed ones and ones of a source it does not know.            *)
ASSUME FindingAssumption ==
  /\ \A a \in ApiFindings :
       \E k \in ApiKinds : a = ApiFinding(k, a.service, a.endpoint)
  /\ \A c \in CodeFindings :
       \E k \in CodeKinds : c = CodeFinding(k, c.service, c.file, c.line)
  /\ OtherFindings \cap (ApiFindings \cup CodeFindings) = {}
ASSUME SettingsAssumption ==
  /\ MaxSize \in Nat \ {0} /\ Window \in Nat \ {0}
  /\ MinSeverity \in Low..Critical
  /\ NumChannels \in 0..3
  /\ MaxAttempts \in Nat \ {0}
ASSUME TokenAssumption == NoToken \notin Tokens

Pairs == {p \in ApiFindings \X CodeFindings : ShareScope(p[1], p[2], 0)}

Alerts == {Fingerprint(p[1], p[2]) : p \in Pairs}

VARIABLES
  tries, age, queue, pc, arrivals, api, code, todo, matches, added, alerts,
  job, claim, record, ledger

loopVars == <<tries, age, queue, pc, arrivals, api, code, todo, matches, added,
              alerts>>
pipeVars == <<job, claim, record, ledger>>
vars == <<loopVars, pipeVars>>

Loop == INSTANCE Correlator
          WITH Related <- Pairs, Faults <- LoopFaults

Pipe == INSTANCE AlertPipeline
          WITH Correlators <- {Engine}, Fingerprints <- Alerts,
               Severities <- Low..Critical, Faults <- PipeFaults

ASSUME FaultAssumption ==
  LoopFaults \subseteq Loop!FaultKinds /\ PipeFaults \subseteq Pipe!FaultKinds

TypeOK == Loop!TypeOK /\ Pipe!TypeOK

Init == Loop!Init /\ Pipe!Init

----------------------------------------------------------------------------
(* The producers push, and time passes. *)
Feed ==
  /\ (\E f \in Loop!Findings : Loop!Push(f)) \/ Loop!Tick
  /\ UNCHANGED pipeVars

(* A finding is taken out of the queue; a pass over the buffers.           *)
Consume ==
  /\ \/ Loop!Receive \/ Loop!LosePop \/ Loop!PopNothing \/ Loop!Evict
     \/ Loop!Scan \/ Loop!EndScan \/ Loop!EndPass
  /\ UNCHANGED pipeVars

(* The match the loop is at, and nothing has been done about it.           *)
Pending == pc = "handle" /\ matches # <<>> /\ ~Pipe!Busy(Engine)

ApiOf == Head(matches)[1].finding
CodeOf == Head(matches)[2].finding

(* Fault: a match that is not likely stays in the buffers. *)
DiscardMatchOnly ==
  /\ Pending
  /\ \E dt \in Gaps : ~Likely(ApiOf, CodeOf, dt)
  /\ matches' = Tail(matches)
  /\ UNCHANGED <<tries, age, queue, pc, arrivals, api, code, todo, added, alerts,
                 pipeVars>>

(* confidence < min_confidence *)
Discard ==
  /\ Pending
  /\ \E dt \in Gaps : ~Likely(ApiOf, CodeOf, dt)
  /\ Loop!HandleMatch /\ alerts' = alerts
  /\ UNCHANGED pipeVars

(* new_correlated_alert *)
HandOver ==
  /\ Pending
  /\ \E dt \in Gaps : Likely(ApiOf, CodeOf, dt)
  /\ Pipe!Match(Engine)
  /\ job'[Engine].fp = Fingerprint(ApiOf, CodeOf)
  /\ job'[Engine].severity = AlertSeverity(ApiOf, CodeOf)
  /\ UNCHANGED loopVars

(* What correlate() does about the match it has handed over.              *)
Handle == Pipe!Handle(Engine)

(* Fault: a match whose alert was not delivered is tried again. *)
WorkUntilTold ==
  /\ Handle
  /\ IF job'[Engine] = Pipe!Idle /\ ledger'[job[Engine].fp].mark = "kept"
       THEN Loop!HandleMatch /\ alerts' # alerts
       ELSE UNCHANGED loopVars

(* A step of the pipeline; with the last one, remove_pair.                 *)
Work ==
  /\ Handle
  /\ IF job'[Engine] = Pipe!Idle
       THEN Loop!HandleMatch /\ alerts' # alerts
       ELSE UNCHANGED loopVars

(* Fault: the alert under way survives. *)
CrashOfLoop ==
  /\ Loop!Crash
  /\ UNCHANGED pipeVars

(* The process dies: the buffers and the alert under way are gone.         *)
Crash ==
  /\ Loop!Crash
  /\ IF Pipe!Busy(Engine) THEN Pipe!Crash(Engine) ELSE UNCHANGED pipeVars

Expire ==
  /\ \E f \in Alerts : Pipe!ExpireClaim(f) \/ Pipe!ExpireRecord(f)
  /\ UNCHANGED loopVars

----------------------------------------------------------------------------
Thread == Consume \/ Discard \/ HandOver \/ Work

Next == Feed \/ Thread \/ Crash \/ Expire

(* The thread keeps running, and Redis expires keys. *)
Fairness ==
  /\ WF_vars(Thread)
  /\ \A f \in Alerts :
       WF_vars(Pipe!ExpireClaim(f) /\ UNCHANGED loopVars)

Spec == Init /\ [][Next]_vars /\ Fairness

----------------------------------------------------------------------------
(* Properties *)

(* An alert worth a notification is suppressed only if somebody was told   *)
(* of one with its fingerprint during this cooldown, or its correlator has *)
(* left a claim behind.  The cooldown that send_alert starts for an alert  *)
(* below the threshold, of which nobody is told, never hides a worse one:  *)
(* the fingerprint of new_correlated_alert has no severity and no type of  *)
(* the code finding in it, yet alerts that share one are equally severe.   *)
SuppressedWasTold ==
  LET f == job[Engine].fp
  IN  /\ Pipe!At(Engine, "claim") /\ Pipe!ShouldNotify(Engine)
      /\ claim[f] # NoToken
      => \/ ledger[f].told \/ ledger[f].mark = "lost" \/ Pipe!Owns(Engine)
         \/ <<"send", "redirect">> \in PipeFaults

(* The queue is worked off, however long Redis and the channels take over  *)
(* the alerts of the findings in front: each finding that is waiting when  *)
(* the producers fall silent is taken out.                                 *)
QueueDrains == queue # <<>> ~> queue = <<>>

(* The whole does what each part promises: the pipeline's work on a match  *)
(* is one step of the loop, and the loop gives the pipeline its alerts.    *)
ImplementsLoop == Loop!Spec
ImplementsPipeline == Pipe!Spec
=============================================================================
