-------------------------- MODULE WatchtowerProofs --------------------------
(***************************************************************************)
(* Theorems about Watchtower, for any findings the watchers may report and *)
(* any settings and faults.                                                *)
(*                                                                         *)
(* The steps of the whole are steps of its parts or leave them alone, so   *)
(* that what is proved of Correlator and of AlertPipeline holds of them    *)
(* here: LoopPart and PipePart are the theorems about the two, for the     *)
(* parameters the whole gives them.                                        *)
(***************************************************************************)
EXTENDS Watchtower, ScoringProofs, FiniteSetTheorems

LoopPart == INSTANCE CorrelatorProofs
              WITH Related <- Pairs, Faults <- LoopFaults

PipePart == INSTANCE AlertPipelineProofs
              WITH Correlators <- {Engine}, Fingerprints <- Alerts,
                   Severities <- Low..Critical, Faults <- PipeFaults

----------------------------------------------------------------------------
(* The parts' assumptions about their parameters                           *)

LEMMA Sources ==
  /\ \A a \in ApiFindings : FromApi(a)
  /\ \A c \in CodeFindings : FromCode(c)
  BY FindingAssumption DEF FromApi, FromCode

LEMMA LoopAssumptions ==
  LoopPart!FindingAssumption /\ LoopPart!SettingsAssumption
    /\ LoopPart!FaultAssumption
<1>1. ApiFindings \cap CodeFindings = {}
  BY Sources, ApiFacts, CodeFacts
<1>2. Pairs \subseteq ApiFindings \X CodeFindings
  BY DEF Pairs
<1> QED
  BY <1>1, <1>2, FindingAssumption, SettingsAssumption, FaultAssumption
     DEF LoopPart!FindingAssumption, LoopPart!SettingsAssumption,
         LoopPart!FaultAssumption, LoopPart!FaultKinds, Loop!FaultKinds

LEMMA PipeAssumptions ==
  PipePart!CorrelatorAssumption /\ PipePart!TokenAssumption
    /\ PipePart!SettingsAssumption /\ PipePart!FaultAssumption
<1>1. PipePart!IsFiniteSet({Engine})
  <2>1. IsFiniteSet({Engine})
    BY FS_Singleton
  <2> QED
    BY <2>1 DEF PipePart!IsFiniteSet, IsFiniteSet
<1>2. Low..Critical = 1..4
  BY Levels
<1> QED
  BY <1>1, <1>2, TokenAssumption, SettingsAssumption, FaultAssumption
     DEF PipePart!CorrelatorAssumption, PipePart!TokenAssumption,
         PipePart!SettingsAssumption, PipePart!FaultAssumption,
         PipePart!FaultKinds, Pipe!FaultKinds

----------------------------------------------------------------------------
(* The parts as Watchtower names them *)

LEMMA SameLoop ==
  /\ Loop!Init <=> LoopPart!Init
  /\ Loop!Next <=> LoopPart!Next
  /\ Loop!Loop <=> LoopPart!Loop
  /\ Loop!vars = LoopPart!vars
<1> USE DEF Loop!producer, LoopPart!producer, Loop!buffers, LoopPart!buffers,
            Loop!history, LoopPart!history, Loop!vars, LoopPart!vars,
            Loop!Findings, LoopPart!Findings, Loop!Oldest, LoopPart!Oldest
<1>1. Loop!Init <=> LoopPart!Init
  BY DEF Loop!Init, LoopPart!Init
<1>2. ASSUME NEW f PROVE Loop!Push(f) <=> LoopPart!Push(f)
  BY DEF Loop!Push, LoopPart!Push
<1>3. Loop!Tick <=> LoopPart!Tick
  BY DEF Loop!Tick, LoopPart!Tick
<1>4. Loop!Receive <=> LoopPart!Receive
  BY DEF Loop!Receive, LoopPart!Receive, Loop!AppendTo, LoopPart!AppendTo,
         Loop!Cardinality, LoopPart!Cardinality
<1>5. Loop!LosePop <=> LoopPart!LosePop
  BY DEF Loop!LosePop, LoopPart!LosePop
<1>6. Loop!PopNothing <=> LoopPart!PopNothing
  BY DEF Loop!PopNothing, LoopPart!PopNothing
<1>7. Loop!Evict <=> LoopPart!Evict
  BY DEF Loop!Evict, LoopPart!Evict, Loop!Fresh, LoopPart!Fresh
<1>8. Loop!Scan <=> LoopPart!Scan
  BY DEF Loop!Scan, LoopPart!Scan, Loop!Used, LoopPart!Used
<1>9. Loop!EndScan <=> LoopPart!EndScan
  BY DEF Loop!EndScan, LoopPart!EndScan
<1>10. Loop!HandleMatch <=> LoopPart!HandleMatch
  BY DEF Loop!HandleMatch, LoopPart!HandleMatch, Loop!Without, LoopPart!Without
<1>11. Loop!EndPass <=> LoopPart!EndPass
  BY DEF Loop!EndPass, LoopPart!EndPass
<1>12. Loop!Crash <=> LoopPart!Crash
  BY DEF Loop!Crash, LoopPart!Crash
<1>13. Loop!Findings = LoopPart!Findings /\ Loop!vars = LoopPart!vars
  OBVIOUS
<1>14. (\E f \in Loop!Findings : Loop!Push(f))
         <=> (\E f \in LoopPart!Findings : LoopPart!Push(f))
  BY <1>2
<1>15. Loop!Loop <=> LoopPart!Loop
  BY <1>4, <1>5, <1>6, <1>7, <1>8, <1>9, <1>10, <1>11 DEF Loop!Loop, LoopPart!Loop
<1>16. Loop!Next <=> LoopPart!Next
  BY <1>3, <1>12, <1>14, <1>15 DEF Loop!Next, LoopPart!Next
<1> QED
  BY <1>1, <1>13, <1>15, <1>16

LEMMA SameSteps ==
  ASSUME NEW c, NEW f
  PROVE  /\ Pipe!Match(c) <=> PipePart!Match(c)
         /\ Pipe!Claim(c) <=> PipePart!Claim(c)
         /\ Pipe!Handle(c) <=> PipePart!Handle(c)
         /\ Pipe!Crash(c) <=> PipePart!Crash(c)
         /\ Pipe!ExpireClaim(f) <=> PipePart!ExpireClaim(f)
         /\ Pipe!ExpireRecord(f) <=> PipePart!ExpireRecord(f)
<1> USE DEF Pipe!Blank, PipePart!Blank,
            Pipe!Idle, PipePart!Idle, Pipe!Busy, PipePart!Busy,
            Pipe!At, PipePart!At, Pipe!Owns, PipePart!Owns,
            Pipe!Outcomes, PipePart!Outcomes, Pipe!Executed, PipePart!Executed,
            Pipe!Transient, PipePart!Transient, Pipe!Retried, PipePart!Retried,
            Pipe!Raised, PipePart!Raised, Pipe!Become, PipePart!Become,
            Pipe!Retry, PipePart!Retry, Pipe!GoTo, PipePart!GoTo,
            Pipe!Mark, PipePart!Mark, Pipe!Finish, PipePart!Finish,
            Pipe!FreshTokens, PipePart!FreshTokens,
            Pipe!ShouldNotify, PipePart!ShouldNotify
<1>1. Pipe!Match(c) <=> PipePart!Match(c)
  BY DEF Pipe!Match, PipePart!Match
<1>2. Pipe!Store(c) <=> PipePart!Store(c)
  BY DEF Pipe!Store, PipePart!Store, Pipe!StoreAttempt, PipePart!StoreAttempt
<1>3. Pipe!Claim(c) <=> PipePart!Claim(c)
  BY DEF Pipe!Claim, PipePart!Claim, Pipe!ClaimAttempt, PipePart!ClaimAttempt
<1>4. Pipe!Publish(c) <=> PipePart!Publish(c)
  BY DEF Pipe!Publish, PipePart!Publish
<1>5. Pipe!Release(c) <=> PipePart!Release(c)
  BY DEF Pipe!Release, PipePart!Release, Pipe!ReleaseAttempt,
         PipePart!ReleaseAttempt
<1>6. Pipe!Post(c) <=> PipePart!Post(c)
  BY DEF Pipe!Post, PipePart!Post
<1>7. Pipe!SendAlert(c) <=> PipePart!SendAlert(c)
  BY DEF Pipe!SendAlert, PipePart!SendAlert
<1>8. Pipe!Crash(c) <=> PipePart!Crash(c)
  BY DEF Pipe!Crash, PipePart!Crash
<1>9. /\ Pipe!ExpireClaim(f) <=> PipePart!ExpireClaim(f)
      /\ Pipe!ExpireRecord(f) <=> PipePart!ExpireRecord(f)
  BY DEF Pipe!ExpireClaim, PipePart!ExpireClaim,
         Pipe!ExpireRecord, PipePart!ExpireRecord
<1>10. Pipe!Handle(c) <=> PipePart!Handle(c)
  BY <1>2, <1>3, <1>4, <1>5, <1>6, <1>7 DEF Pipe!Handle, PipePart!Handle
<1> QED
  BY <1>1, <1>3, <1>8, <1>9, <1>10

LEMMA SamePipe ==
  /\ Pipe!Init <=> PipePart!Init
  /\ Pipe!Next <=> PipePart!Next
  /\ Pipe!vars = PipePart!vars
<1>1. Pipe!Init <=> PipePart!Init
  BY DEF Pipe!Init, PipePart!Init, Pipe!Blank, PipePart!Blank,
         Pipe!Idle, PipePart!Idle
<1>2. Pipe!Next <=> PipePart!Next
  BY SameSteps DEF Pipe!Next, PipePart!Next
<1>3. Pipe!vars = PipePart!vars
  BY DEF Pipe!vars, PipePart!vars
<1> QED
  BY <1>1, <1>2, <1>3

----------------------------------------------------------------------------
(* Every step is a step of the parts                                       *)

LEMMA EngineThere == Engine \in {Engine}
  OBVIOUS

(* What a step of the thread on the match under way does to the pipeline. *)
LEMMA HandleIsPipe == Handle => Pipe!Handle(Engine)
  BY DEF Handle

LEMMA LoopSteps == Next => [Loop!Next]_(Loop!vars)
<1> SUFFICES ASSUME Next PROVE Loop!Next \/ UNCHANGED Loop!vars
  OBVIOUS
<1>1. UNCHANGED loopVars => UNCHANGED Loop!vars
  BY DEF Loop!vars, loopVars
<1>2. CASE Feed
  BY <1>2 DEF Feed, Loop!Next
<1>3. CASE Consume
  BY <1>3 DEF Consume, Loop!Next, Loop!Loop
<1>4. CASE Discard
  BY <1>4 DEF Discard, Loop!Next, Loop!Loop
<1>5. CASE HandOver
  BY <1>1, <1>5 DEF HandOver
<1>6. CASE Work
  BY <1>1, <1>6 DEF Work, Loop!Next, Loop!Loop
<1>7. CASE Crash
  BY <1>7 DEF Crash, Loop!Next
<1>8. CASE Expire
  BY <1>1, <1>8 DEF Expire
<1> QED
  BY <1>2, <1>3, <1>4, <1>5, <1>6, <1>7, <1>8 DEF Next, Thread

LEMMA PipeSteps == Next => [Pipe!Next]_(Pipe!vars)
<1> SUFFICES ASSUME Next PROVE Pipe!Next \/ UNCHANGED Pipe!vars
  OBVIOUS
<1>1. UNCHANGED pipeVars => UNCHANGED Pipe!vars
  BY DEF Pipe!vars, pipeVars
<1>2. CASE Feed \/ Consume \/ Discard
  BY <1>1, <1>2 DEF Feed, Consume, Discard
<1>3. CASE HandOver
  BY <1>3, EngineThere DEF HandOver, Pipe!Next
<1>4. CASE Work
  BY <1>4, EngineThere, HandleIsPipe DEF Work, Pipe!Next
<1>5. CASE Crash
  BY <1>1, <1>5, EngineThere DEF Crash, Pipe!Next
<1>6. CASE Expire
  BY <1>6 DEF Expire, Pipe!Next
<1> QED
  BY <1>2, <1>3, <1>4, <1>5, <1>6 DEF Next, Thread

LEMMA StutterOfParts ==
  UNCHANGED vars => UNCHANGED Loop!vars /\ UNCHANGED Pipe!vars
  BY DEF vars, loopVars, pipeVars, Loop!vars, Pipe!vars

(* What the whole does to its buffers and matches is what the loop of      *)
(* correlate() does: the handling of an alert, however many steps it takes *)
(* and wherever it fails, is one HandleMatch.  This is the safety part of  *)
(* ImplementsLoop.                                                         *)
THEOREM WholeImplementsLoop == Spec => Loop!Init /\ [][Loop!Next]_(Loop!vars)
<1>1. Init => Loop!Init
  BY DEF Init
<1>2. [Next]_vars => [Loop!Next]_(Loop!vars)
  BY LoopSteps, StutterOfParts
<1> QED
  BY <1>1, <1>2, PTL DEF Spec

(* What the whole does to Redis and the channels is what one correlator of *)
(* AlertPipeline may do: the alerts that the loop makes of its matches are *)
(* among those it can be given, and each call happens where it may.  This  *)
(* is the safety part of ImplementsPipeline.                               *)
THEOREM WholeImplementsPipeline == Spec => Pipe!Init /\ [][Pipe!Next]_(Pipe!vars)
<1>1. Init => Pipe!Init
  BY DEF Init
<1>2. [Next]_vars => [Pipe!Next]_(Pipe!vars)
  BY PipeSteps, StutterOfParts
<1> QED
  BY <1>1, <1>2, PTL DEF Spec

----------------------------------------------------------------------------
(* What is proved of the parts holds of them here                          *)

LEMMA LoopInvariant == Spec => []LoopPart!LoopInv
<1>1. Init => LoopPart!LoopInv
  BY LoopAssumptions, SameLoop, LoopPart!LoopInvInit DEF Init
<1>2. LoopPart!LoopInv /\ [Next]_vars => LoopPart!LoopInv'
  <2>1. [Next]_vars => [LoopPart!Next]_(LoopPart!vars)
    BY LoopSteps, StutterOfParts, SameLoop DEF Loop!vars, LoopPart!vars
  <2>2. LoopPart!LoopInv /\ [LoopPart!Next]_(LoopPart!vars) => LoopPart!LoopInv'
    BY LoopAssumptions, LoopPart!LoopStep
  <2> QED
    BY <2>1, <2>2
<1> QED
  BY <1>1, <1>2, PTL DEF Spec

LEMMA PipeInvariant == Spec => []PipePart!IInv
<1>1. Init => PipePart!IInv
  BY PipeAssumptions, SamePipe, PipePart!InvInit DEF Init
<1>2. PipePart!IInv /\ [Next]_vars => PipePart!IInv'
  <2>1. [Next]_vars => [PipePart!Next]_(PipePart!vars)
    BY PipeSteps, StutterOfParts, SamePipe DEF Pipe!vars, PipePart!vars
  <2>2. PipePart!IInv /\ [PipePart!Next]_(PipePart!vars) => PipePart!IInv'
    BY PipeAssumptions, PipePart!InvStep
  <2> QED
    BY <2>1, <2>2
<1> QED
  BY <1>1, <1>2, PTL DEF Spec

LEMMA CountInvariant == Spec => []LoopPart!CountInv
<1>1. Init => LoopPart!CountInv
  BY LoopAssumptions, SameLoop, LoopPart!CountInit DEF Init
<1>2. LoopPart!CountInv /\ [Next]_vars => LoopPart!CountInv'
  <2>1. [Next]_vars => [LoopPart!Next]_(LoopPart!vars)
    BY LoopSteps, StutterOfParts, SameLoop DEF Loop!vars, LoopPart!vars
  <2>2. LoopPart!CountInv /\ [LoopPart!Next]_(LoopPart!vars) => LoopPart!CountInv'
    BY LoopAssumptions, LoopPart!CountStep
  <2> QED
    BY <2>1, <2>2
<1> QED
  BY <1>1, <1>2, PTL DEF Spec

LEMMA PipeStepsOfPart == [Next]_vars => [PipePart!Next]_(PipePart!vars)
  BY PipeSteps, StutterOfParts, SamePipe DEF Pipe!vars, PipePart!vars

(* The buffers of the whole keep what Correlator promises, although a      *)
(* match now stays at the head of its list for as long as its alert is     *)
(* under way: no pair waits between two passes, a pass finds one match,    *)
(* what it finds is still there to be removed, the deques stay bounded,    *)
(* and no copy of a finding alerts twice.                                  *)
THEOREM LoopPromises ==
  Spec => []( /\ Loop!NoPairWaiting /\ Loop!OneMatchPerPass
              /\ Loop!MatchIsBuffered /\ Loop!BuffersBounded
              /\ Loop!OneAlertPerCopy )
<1>1. LoopPart!LoopInv => Loop!NoPairWaiting /\ Loop!OneMatchPerPass
                            /\ Loop!MatchIsBuffered
  BY LoopAssumptions, LoopPart!LoopInvSafe
     DEF Loop!NoPairWaiting, LoopPart!NoPairWaiting,
         Loop!OneMatchPerPass, LoopPart!OneMatchPerPass,
         Loop!MatchIsBuffered, LoopPart!MatchIsBuffered
<1>2. LoopPart!CountInv => Loop!BuffersBounded /\ Loop!OneAlertPerCopy
  BY LoopAssumptions, LoopPart!CountInvSafe
     DEF Loop!BuffersBounded, LoopPart!BuffersBounded,
         Loop!Cardinality, LoopPart!Cardinality,
         Loop!OneAlertPerCopy, LoopPart!OneAlertPerCopy,
         Loop!Findings, LoopPart!Findings
<1> QED
  BY <1>1, <1>2, LoopInvariant, CountInvariant, PTL

(* Redis and the channels see what AlertPipeline promises: a claim is kept *)
(* after a delivery or given back, a notification has a record, and a      *)
(* cooldown a delivery, for the alerts of real matches.                    *)
THEOREM PipePromises ==
  Spec => [](Pipe!NoOrphan /\ Pipe!RecordBeforeNotification /\ Pipe!CooldownWasTold)
<1>1. PipePart!IInv =>
        Pipe!NoOrphan /\ Pipe!RecordBeforeNotification /\ Pipe!CooldownWasTold
  BY PipeAssumptions, PipePart!IInvSafe
     DEF Pipe!NoOrphan, PipePart!NoOrphan, Pipe!OrphanFaults,
         PipePart!OrphanFaults, Pipe!Busy, PipePart!Busy, Pipe!Owns, PipePart!Owns,
         Pipe!RecordBeforeNotification, PipePart!RecordBeforeNotification,
         Pipe!Steps, PipePart!Steps,
         Pipe!CooldownWasTold, PipePart!CooldownWasTold
<1> QED
  BY <1>1, PipeInvariant, PTL

(* The claim of a settled alert of the whole goes by its expiry only.      *)
THEOREM WholeSettles == Spec => Pipe!SettledUntilExpiry
<1>1. ASSUME PipePart!IInv, [Next]_vars, NEW f \in Alerts,
             ledger[f].mark \in {"kept", "quiet"}, claim'[f] # claim[f]
      PROVE  Pipe!ExpireClaim(f)
  <2>1. PipePart!ExpireClaim(f)
    BY <1>1, PipeStepsOfPart, PipeAssumptions, PipePart!SettledStep
  <2> QED
    BY <2>1 DEF Pipe!ExpireClaim, PipePart!ExpireClaim, Pipe!Blank, PipePart!Blank,
            Pipe!Owns, PipePart!Owns, Pipe!Busy, PipePart!Busy
<1>2. PipePart!IInv /\ [Next]_vars =>
        [\A f \in Alerts :
           /\ ledger[f].mark \in {"kept", "quiet"}
           /\ claim'[f] # claim[f]
           => Pipe!ExpireClaim(f)]_(Pipe!vars)
  BY <1>1
<1> QED
  BY <1>2, PipeInvariant, PTL DEF Spec, Pipe!SettledUntilExpiry

(* The handling of the alerts of real matches is an abstract cooldown.     *)
THEOREM WholeImplementsCooldown == Spec => Pipe!Cooldown!Safety
<1> DEFINE Phase == [f \in Alerts |-> Pipe!PhaseOf(f)]
<1>1. Init => Pipe!Cooldown!Init
  BY DEF Init, Pipe!Init, Pipe!Cooldown!Init, Pipe!PhaseOf
<1>2. PipePart!IInv /\ [Next]_vars => [Pipe!Cooldown!Next]_Phase
  <2>1. PipePart!IInv /\ [Next]_vars => PipePart!CooldownStep
    BY PipeStepsOfPart, PipeAssumptions, PipePart!StepRefines
  <2> QED
    BY <2>1 DEF PipePart!CooldownStep, PipePart!Phase, PipePart!PhaseOf, Pipe!PhaseOf,
            PipePart!Cooldown!Next, Pipe!Cooldown!Next,
            PipePart!Cooldown!Acquire, Pipe!Cooldown!Acquire,
            PipePart!Cooldown!Settle, Pipe!Cooldown!Settle,
            PipePart!Cooldown!GiveUp, Pipe!Cooldown!GiveUp,
            PipePart!Cooldown!Abandon, Pipe!Cooldown!Abandon,
            PipePart!Cooldown!Lapse, Pipe!Cooldown!Lapse,
            PipePart!Cooldown!Move, Pipe!Cooldown!Move,
            PipePart!OrphanFaults, Pipe!OrphanFaults
<1> QED
  BY <1>1, <1>2, PipeInvariant, PTL DEF Spec, Pipe!Cooldown!Safety, Phase

----------------------------------------------------------------------------
(* Types                                                                   *)

LEMMA TypesOfParts ==
  /\ LoopPart!LoopInv => Loop!TypeOK
  /\ PipePart!IInv => Pipe!TypeOK
<1>1. LoopPart!LoopInv => Loop!TypeOK
  BY DEF LoopPart!LoopInv, LoopPart!TypeOK, Loop!TypeOK, LoopPart!Findings,
         Loop!Findings, LoopPart!Entries, Loop!Entries
<1>2. PipePart!IInv => Pipe!TypeOK
  BY DEF PipePart!IInv, PipePart!TypeOK, Pipe!TypeOK, PipePart!Jobs, Pipe!Jobs,
         PipePart!Idle, Pipe!Idle, PipePart!Steps, Pipe!Steps,
         PipePart!Marks, Pipe!Marks
<1> QED
  BY <1>1, <1>2

LEMMA HandleBusy == Handle => Pipe!Busy(Engine)
<1>1. Pipe!Store(Engine) \/ Pipe!Claim(Engine) \/ Pipe!Release(Engine)
        => Pipe!Busy(Engine)
  BY DEF Pipe!At, Pipe!Busy, Pipe!Store, Pipe!Claim, Pipe!Release
<1>2. Pipe!Publish(Engine) \/ Pipe!Post(Engine) \/ Pipe!SendAlert(Engine)
        => Pipe!Busy(Engine)
  BY DEF Pipe!At, Pipe!Busy, Pipe!Publish, Pipe!Post, Pipe!SendAlert
<1> QED
  BY <1>1, <1>2 DEF Handle, Pipe!Handle

(* An alert under way has a fingerprint and a severity. *)
LEMMA AlertUnderWay ==
  ASSUME Pipe!TypeOK, Pipe!Busy(Engine)
  PROVE  job[Engine].fp \in Alerts /\ job[Engine].severity \in 1..Critical
<1>1. job[Engine] \in Pipe!Jobs
  BY EngineThere DEF Pipe!TypeOK, Pipe!Busy, Pipe!Idle
<1> QED
  BY <1>1, Levels DEF Pipe!Jobs

(* Every state of every behaviour is of the declared type. *)
THEOREM TypeCorrect == Spec => []TypeOK
<1>1. LoopPart!LoopInv /\ PipePart!IInv => TypeOK
  BY TypesOfParts DEF TypeOK
<1> QED
  BY <1>1, LoopInvariant, PipeInvariant, PTL
----------------------------------------------------------------------------
(* The alert under way is that of the match at the head                    *)

(* While the pipeline works the loop stands at the match it works on, and  *)
(* the alert is what the two findings of the match make it.                *)
AtWork ==
  Pipe!Busy(Engine) =>
    /\ pc = "handle" /\ matches # <<>>
    /\ job[Engine].fp = Fingerprint(ApiOf, CodeOf)
    /\ job[Engine].severity = AlertSeverity(ApiOf, CodeOf)

(* A match is a pair that shares a scope, and its severity is that of its  *)
(* fingerprint.                                                            *)
LEMMA MatchGraded ==
  ASSUME LoopPart!LoopInv, pc = "handle", matches # <<>>
  PROVE  /\ Fingerprint(ApiOf, CodeOf) \in Alerts
         /\ AlertSeverity(ApiOf, CodeOf) = Grade(Fingerprint(ApiOf, CodeOf)[3])
<1>1. <<ApiOf, CodeOf>> \in Pairs
  BY DEF LoopPart!LoopInv, LoopPart!Matched, LoopPart!Pair, ApiOf, CodeOf
<1>2. /\ ApiOf \in ApiFindings /\ CodeOf \in CodeFindings
      /\ ShareScope(ApiOf, CodeOf, 0)
  BY <1>1 DEF Pairs
<1>3. AlertSeverity(ApiOf, CodeOf) = Grade(Fingerprint(ApiOf, CodeOf)[3])
  BY <1>2, Sources, SeverityOfPair
<1>4. Fingerprint(<<ApiOf, CodeOf>>[1], <<ApiOf, CodeOf>>[2]) \in Alerts
  BY <1>1 DEF Alerts
<1> QED
  BY <1>3, <1>4

(* The severity of the alert under way is that of its fingerprint. *)
LEMMA WorkGraded ==
  ASSUME LoopPart!LoopInv, AtWork, Pipe!Busy(Engine)
  PROVE  job[Engine].severity = Grade(job[Engine].fp[3])
  BY MatchGraded DEF AtWork

LEMMA IdleIsIdle ==
  ASSUME job'[Engine] = Pipe!Idle PROVE ~Pipe!Busy(Engine)'
  BY DEF Pipe!Idle, Pipe!Busy

LEMMA AtWorkStep ==
  LoopPart!LoopInv /\ PipePart!IInv /\ AtWork /\ [Next]_vars => AtWork'
<1> SUFFICES ASSUME LoopPart!LoopInv, PipePart!IInv, AtWork, [Next]_vars
             PROVE  AtWork'
  OBVIOUS
<1>1. PipePart!TypeOK
  BY DEF PipePart!IInv
<1>2. CASE UNCHANGED <<pc, matches, job>>
  BY <1>2 DEF AtWork, Pipe!Busy, ApiOf, CodeOf
<1>3. CASE Feed
  BY <1>2, <1>3 DEF Feed, Loop!Push, Loop!Tick, pipeVars
<1>4. CASE Consume
  <2>1. pc # "handle" \/ matches = <<>>
    BY <1>4 DEF Consume, Loop!Receive, Loop!LosePop, Loop!PopNothing, Loop!Evict,
            Loop!Scan, Loop!EndScan, Loop!EndPass
  <2> QED
    BY <1>4, <2>1 DEF AtWork, Consume, pipeVars, Pipe!Busy
<1>5. CASE Discard
  BY <1>5 DEF Discard, Pending, AtWork, pipeVars, Pipe!Busy
<1>6. CASE HandOver
  BY <1>6 DEF HandOver, Pending, AtWork, loopVars, ApiOf, CodeOf
<1>7. CASE Work
  <2>1. Pipe!Busy(Engine) /\ PipePart!Handle(Engine)
    BY <1>7, HandleBusy, HandleIsPipe, SameSteps DEF Work
  <2>2. job'[Engine] = PipePart!Idle \/ PipePart!KeepsAlert(Engine)
    BY <1>1, <2>1, PipeAssumptions, EngineThere, PipePart!AlertKept
  <2>3. CASE job'[Engine] = Pipe!Idle
    BY <2>3, IdleIsIdle DEF AtWork
  <2>4. CASE job'[Engine] # Pipe!Idle
    <3>1. UNCHANGED <<pc, matches>>
      BY <1>7, <2>4 DEF Work, loopVars
    <3>2. job'[Engine].fp = job[Engine].fp
            /\ job'[Engine].severity = job[Engine].severity
      BY <2>2, <2>4 DEF PipePart!KeepsAlert, PipePart!Idle, Pipe!Idle
    <3> QED
      BY <2>1, <3>1, <3>2 DEF AtWork, ApiOf, CodeOf
  <2> QED
    BY <2>3, <2>4
<1>8. CASE Crash
  <2>1. CASE Pipe!Busy(Engine)
    <3>1. job' = [job EXCEPT ![Engine] = Pipe!Idle]
      BY <1>8, <2>1 DEF Crash, Pipe!Crash, Pipe!Finish, Pipe!Become
    <3>2. job'[Engine] = Pipe!Idle
      BY <1>1, <3>1, EngineThere DEF PipePart!TypeOK
    <3> QED
      BY <3>2, IdleIsIdle DEF AtWork
  <2>2. CASE ~Pipe!Busy(Engine)
    BY <1>8, <2>2 DEF Crash, AtWork, pipeVars, Pipe!Busy
  <2> QED
    BY <2>1, <2>2
<1>9. CASE Expire
  <2>1. UNCHANGED <<pc, matches>>
    BY <1>9 DEF Expire, loopVars
  <2>2. CASE \E f \in Alerts : Pipe!ExpireRecord(f)
    BY <1>2, <2>1, <2>2 DEF Pipe!ExpireRecord
  <2>3. ASSUME NEW f \in Alerts, Pipe!ExpireClaim(f) PROVE AtWork'
    <3>1. CASE Pipe!Busy(Engine)
      <4>1. PipePart!ExpireClaim(f) /\ PipePart!Busy(Engine)
        BY <2>3, <3>1, SameSteps DEF Pipe!Busy, PipePart!Busy
      <4>2. PipePart!KeepsAlert(Engine)
        BY <1>1, <4>1, PipeAssumptions, EngineThere, PipePart!AlertKeptByExpiry
      <4> QED
        BY <2>1, <3>1, <4>2 DEF PipePart!KeepsAlert, AtWork, ApiOf, CodeOf
    <3>2. CASE ~Pipe!Busy(Engine)
      <4>1. job'[Engine] = job[Engine]
        BY <2>3, <3>2, EngineThere DEF Pipe!ExpireClaim, Pipe!Owns
      <4> QED
        BY <3>2, <4>1 DEF AtWork, Pipe!Busy
    <3> QED
      BY <3>1, <3>2
  <2> QED
    BY <1>9, <2>2, <2>3 DEF Expire
<1>10. CASE UNCHANGED vars
  BY <1>2, <1>10 DEF vars, loopVars, pipeVars
<1> QED
  BY <1>3, <1>4, <1>5, <1>6, <1>7, <1>8, <1>9, <1>10 DEF Next, Thread

LEMMA AtWorkInit == Init => AtWork
  BY EngineThere DEF Init, Pipe!Init, Pipe!Idle, Pipe!Busy, AtWork
----------------------------------------------------------------------------
(* Which cooldowns may be of an alert that nobody is told of               *)

(* Nobody is told of an alert below the threshold, and its fingerprint is  *)
(* that of such alerts only.                                               *)
QuietIsMild ==
  \A f \in Alerts : ledger[f].mark = "quiet" => Grade(f[3]) < MinSeverity

LEMMA QuietStep ==
  ASSUME LoopPart!LoopInv, PipePart!IInv, AtWork, QuietIsMild, [Next]_vars
  PROVE  QuietIsMild'
<1> SUFFICES ASSUME NEW f \in Alerts, ledger'[f].mark = "quiet"
             PROVE  Grade(f[3]) < MinSeverity
  BY DEF QuietIsMild
<1>1. PipePart!TypeOK
  BY DEF PipePart!IInv
<1>2. \/ ledger[f].mark = "quiet"
      \/ \E c \in {Engine} : /\ PipePart!Busy(c) /\ job[c].fp = f
                             /\ ~PipePart!ShouldNotify(c)
  BY <1>1, PipeStepsOfPart, PipeAssumptions, PipePart!QuietBelowThreshold
<1>3. CASE ledger[f].mark = "quiet"
  BY <1>3 DEF QuietIsMild
<1>4. CASE /\ PipePart!Busy(Engine) /\ job[Engine].fp = f
           /\ ~PipePart!ShouldNotify(Engine)
  <2>1. job[Engine].severity = Grade(f[3])
    BY <1>4, WorkGraded DEF PipePart!Busy, Pipe!Busy
  <2>2. ~(Grade(f[3]) >= MinSeverity)
    BY <1>4, <2>1 DEF PipePart!ShouldNotify
  <2>3. Grade(f[3]) \in Int /\ MinSeverity \in Int
    BY SettingsAssumption, Levels DEF Grade
  <2> QED
    BY <2>2, <2>3
<1> QED
  BY <1>2, <1>3, <1>4

(* The invariant of the whole: those of the parts, and how the places that *)
(* know of an alert agree on it.                                           *)
WholeInv ==
  /\ LoopPart!LoopInv
  /\ PipePart!IInv
  /\ AtWork
  /\ QuietIsMild

LEMMA WholeInvariant == Spec => []WholeInv
<1>1. Init => AtWork /\ QuietIsMild
  BY AtWorkInit DEF Init, Pipe!Init, Pipe!Blank, QuietIsMild
<1>2. LoopPart!LoopInv /\ PipePart!IInv /\ AtWork /\ QuietIsMild
        /\ [Next]_vars => AtWork' /\ QuietIsMild'
  BY AtWorkStep, QuietStep
<1> QED
  BY <1>1, <1>2, LoopInvariant, PipeInvariant, PTL DEF Spec, WholeInv

(* The match that correlate() hands to new_correlated_alert stays at the   *)
(* head of the list until its alert is done with, whatever arrives, runs   *)
(* out or fails meanwhile: remove_pair takes out the findings the alert    *)
(* was made of.                                                            *)
THEOREM AlertOfHeadMatch == Spec => []AtWork
<1>1. WholeInv => AtWork
  BY DEF WholeInv
<1> QED
  BY <1>1, WholeInvariant, PTL

(* claim_alert suppresses an alert that is worth a notification only if    *)
(* somebody was told of one with its fingerprint under the same claim, or  *)
(* the claim was left behind: the quiet cooldown of an alert below the     *)
(* threshold never hides a worse one, whatever the findings, the threshold *)
(* and the failures.                                                       *)
THEOREM SuppressedMeansTold == Spec => []SuppressedWasTold
<1>1. WholeInv => SuppressedWasTold
  <2> DEFINE f == job[Engine].fp
  <2> SUFFICES ASSUME WholeInv, Pipe!At(Engine, "claim"),
                      Pipe!ShouldNotify(Engine), claim[f] # NoToken
               PROVE  \/ ledger[f].told \/ ledger[f].mark = "lost"
                      \/ Pipe!Owns(Engine)
                      \/ <<"send", "redirect">> \in PipeFaults
    BY DEF SuppressedWasTold
  <2>1. Pipe!Busy(Engine)
    BY DEF Pipe!At, Pipe!Busy
  <2>2. f \in Alerts
    BY <2>1, AlertUnderWay, TypesOfParts DEF WholeInv
  <2>3. ledger[f].mark \in PipePart!Marks \ {"none"}
    BY <2>2 DEF WholeInv, PipePart!IInv, PipePart!TypeOK, PipePart!BlankIffFree
  <2>4. CASE ledger[f].mark = "open"
    <3>1. \E c \in {Engine} : PipePart!Owns(c)
      BY <2>2, <2>4 DEF WholeInv, PipePart!IInv, PipePart!OpenIsOwned
    <3> QED
      BY <3>1 DEF PipePart!Owns, Pipe!Owns, PipePart!Busy, Pipe!Busy
  <2>5. CASE ledger[f].mark = "kept"
    BY <2>2, <2>5 DEF WholeInv, PipePart!IInv, PipePart!CooldownWasTold
  <2>6. ledger[f].mark # "quiet"
    <3>1. job[Engine].severity = Grade(f[3]) /\ job[Engine].severity >= MinSeverity
      BY <2>1, WorkGraded DEF WholeInv, Pipe!ShouldNotify
    <3>2. Grade(f[3]) \in Int /\ MinSeverity \in Int
      BY SettingsAssumption, Levels DEF Grade
    <3>3. ~(Grade(f[3]) < MinSeverity)
      BY <3>1, <3>2
    <3> QED
      BY <2>2, <3>3 DEF WholeInv, QuietIsMild
  <2> QED
    BY <2>3, <2>4, <2>5, <2>6 DEF PipePart!Marks
<1> QED
  BY <1>1, WholeInvariant, PTL

----------------------------------------------------------------------------
(* Who is told of the alerts                                               *)

(* With the default threshold of the notifier (high), or a lower one,      *)
(* send_alert never counts an alert as delivered because it is too mild:   *)
(* every cooldown that runs after an alert stands for a notification that  *)
(* a channel took, or for a redirection.                                   *)
THEOREM CooldownMeansTold ==
  ASSUME MinSeverity <= High
  PROVE  Spec => [](\A f \in Alerts :
                      Pipe!PhaseOf(f) = "cooling" =>
                        ledger[f].told \/ <<"send", "redirect">> \in PipeFaults)
<1>1. ASSUME WholeInv, NEW f \in Alerts, Pipe!PhaseOf(f) = "cooling"
      PROVE  ledger[f].told \/ <<"send", "redirect">> \in PipeFaults
  <2>1. ledger[f].mark \in {"kept", "quiet"}
    BY <1>1 DEF Pipe!PhaseOf
  <2>2. Grade(f[3]) \in {High, Critical} /\ MinSeverity \in Int
    BY SettingsAssumption, Levels DEF Grade
  <2>3. ~(Grade(f[3]) < MinSeverity)
    BY <2>2, Levels
  <2>4. ledger[f].mark = "kept"
    BY <1>1, <2>1, <2>3 DEF WholeInv, QuietIsMild
  <2> QED
    BY <1>1, <2>4 DEF WholeInv, PipePart!IInv, PipePart!CooldownWasTold
<1>2. WholeInv =>
        \A f \in Alerts : Pipe!PhaseOf(f) = "cooling" =>
          ledger[f].told \/ <<"send", "redirect">> \in PipeFaults
  BY <1>1
<1> QED
  BY <1>2, WholeInvariant, PTL

(* Of the findings of real matches nobody is notified twice while the      *)
(* cooldown runs, as long as a POST that is taken is answered and none     *)
(* raises.                                                                 *)
THEOREM WholeNotifiesOnce ==
  ASSUME PipeFaults \cap PipePart!RepeatFaults = {}
  PROVE  Spec => Pipe!NoRepeatWithinCooldown
<1>1. Init => PipePart!ToldIsDelivered
  BY PipeAssumptions, SamePipe, PipePart!ToldInit DEF Init
<1>2. PipePart!IInv /\ PipePart!ToldIsDelivered /\ [Next]_vars =>
        PipePart!ToldIsDelivered'
  BY PipeStepsOfPart, PipeAssumptions, PipePart!ToldStep
<1>3. PipePart!IInv /\ PipePart!ToldIsDelivered /\ [Next]_vars =>
        [\A f \in Alerts :
           ledger[f].told /\ claim'[f] # claim[f] => Pipe!ExpireClaim(f)]_(Pipe!vars)
  BY PipeStepsOfPart, PipeAssumptions, PipePart!ToldClaimStep, SameSteps
<1> QED
  BY <1>1, <1>2, <1>3, PipeInvariant, PTL DEF Spec, Pipe!NoRepeatWithinCooldown
----------------------------------------------------------------------------
(* How long a finding holds the loop up                                    *)

AlertBound == 4 * MaxAttempts + NumChannels + 1

(* Steps left of the work on the match that a pass may find. *)
AlertLeft ==
  CASE pc \in {"match", "scan"} -> AlertBound + 1
    [] pc = "handle" /\ matches # <<>> ->
         IF Pipe!Busy(Engine) THEN PipePart!StepsLeft(Engine) ELSE AlertBound + 1
    [] OTHER -> 0

ThreadLeft == LoopPart!PassLeft + AlertLeft

CountedInv == WholeInv /\ LoopPart!CountInv

LeftOK ==
  /\ PipePart!StepsLeft(Engine) \in 0..AlertBound
  /\ Pipe!Busy(Engine) => PipePart!StepsLeft(Engine) > 0
  /\ LoopPart!PassLeft \in 0..(MaxSize + 4)
  /\ pc = "pop" <=> LoopPart!PassLeft = 0
  /\ AlertLeft \in 0..(AlertBound + 1)
  /\ pc = "pop" => AlertLeft = 0

LEMMA LeftRanges == CountedInv => LeftOK
<1> SUFFICES ASSUME CountedInv PROVE LeftOK
  OBVIOUS
<1>1. AlertBound \in Nat
  BY SettingsAssumption DEF AlertBound
<1>2. PipePart!StepsLeft(Engine) \in 0..AlertBound
        /\ (Pipe!Busy(Engine) => PipePart!StepsLeft(Engine) > 0)
  <2>1. job[Engine] \in {PipePart!Idle} \cup PipePart!Jobs
    BY EngineThere DEF CountedInv, WholeInv, PipePart!IInv, PipePart!TypeOK
  <2>2. /\ PipePart!Left(job[Engine]) \in 0..(4 * MaxAttempts + NumChannels + 1)
        /\ job[Engine] \in PipePart!Jobs => PipePart!Left(job[Engine]) > 0
    BY <2>1, PipeAssumptions, PipePart!LeftRange
  <2>3. Pipe!Busy(Engine) => job[Engine] \in PipePart!Jobs
    BY <2>1 DEF Pipe!Busy, PipePart!Idle
  <2> QED
    BY <2>2, <2>3 DEF PipePart!StepsLeft, AlertBound
<1>3. LoopPart!PassLeft \in 0..(MaxSize + 4) /\ (pc = "pop" <=> LoopPart!PassLeft = 0)
  BY LoopAssumptions, LoopPart!PassFacts DEF CountedInv, LoopPart!PassOK
<1>4. AlertLeft \in 0..(AlertBound + 1) /\ (pc = "pop" => AlertLeft = 0)
  BY <1>1, <1>2 DEF AlertLeft
<1> QED
  BY <1>2, <1>3, <1>4 DEF LeftOK

LEMMA LeftRangesNext == CountedInv' => LeftOK'
  BY LeftRanges, PTL

(* When the loop goes on the alert has no more steps left than before. *)
LEMMA ConsumeLeft ==
  ASSUME CountedInv, CountedInv', Consume \/ Discard, pc # "pop"
  PROVE  LoopPart!PassLeft' < LoopPart!PassLeft /\ AlertLeft' <= AlertLeft
<1>1. Loop!Loop
  BY DEF Consume, Discard, Loop!Loop
<1>2. LoopPart!PassLeft' < LoopPart!PassLeft
  BY <1>1, SameLoop, LoopAssumptions, LoopPart!PassShrinks DEF CountedInv
<1>3. AlertLeft \in 0..(AlertBound + 1) /\ AlertLeft' \in 0..(AlertBound + 1)
        /\ AlertBound \in Nat
  BY LeftRanges, LeftRangesNext, SettingsAssumption DEF LeftOK, AlertBound
<1>4. CASE Discard \/ Loop!EndPass
  <2>1. matches' = <<>>
    <3>1. Discard => LoopPart!HandleMatch
      BY DEF Discard, Loop!HandleMatch, LoopPart!HandleMatch, Loop!Without,
             LoopPart!Without, Loop!Oldest, LoopPart!Oldest, Loop!producer,
             LoopPart!producer
    <3>2. Discard => matches' = <<>>
      BY <3>1, LoopAssumptions, LoopPart!OnlyMatch
         DEF CountedInv, WholeInv, LoopPart!HandleMatch
    <3>3. Loop!EndPass => matches' = <<>>
      BY DEF Loop!EndPass
    <3> QED
      BY <1>4, <3>2, <3>3
  <2>2. pc' \in {"handle", "pop"}
    BY <1>4 DEF Discard, Loop!HandleMatch, Loop!EndPass
  <2>3. AlertLeft' = 0
    BY <2>1, <2>2 DEF AlertLeft
  <2> QED
    BY <1>2, <1>3, <2>3
<1>5. CASE Loop!Evict \/ Loop!Scan \/ Loop!EndScan
  <2>1. AlertLeft = AlertBound + 1
    BY <1>5 DEF Loop!Evict, Loop!Scan, Loop!EndScan, AlertLeft
  <2> QED
    BY <1>2, <1>3, <2>1
<1> QED
  BY <1>2, <1>4, <1>5 DEF Consume, Loop!Receive, Loop!LosePop, Loop!PopNothing

LEMMA HandOverLeft ==
  ASSUME CountedInv, CountedInv', HandOver
  PROVE  LoopPart!PassLeft' = LoopPart!PassLeft /\ AlertLeft' < AlertLeft
<1>1. UNCHANGED <<pc, todo, matches>>
  BY DEF HandOver, loopVars
<1>2. LoopPart!PassLeft' = LoopPart!PassLeft
  BY <1>1 DEF LoopPart!PassLeft, LoopPart!Cardinality
<1>3. pc = "handle" /\ matches # <<>> /\ ~Pipe!Busy(Engine)
  BY DEF HandOver, Pending
<1>4. AlertLeft = AlertBound + 1
  BY <1>3 DEF AlertLeft
<1>5. Pipe!Busy(Engine)'
  <2>1. job \in [{Engine} -> {PipePart!Idle} \cup PipePart!Jobs]
    BY DEF CountedInv, WholeInv, PipePart!IInv, PipePart!TypeOK
  <2>2. PICK j : Pipe!Become(Engine, j) /\ j.step = "store"
    BY DEF HandOver, Pipe!Match
  <2>3. job'[Engine] = j
    BY <2>1, <2>2, EngineThere DEF Pipe!Become
  <2> QED
    BY <2>2, <2>3 DEF Pipe!Busy
<1>6. AlertLeft' = PipePart!StepsLeft(Engine)'
  BY <1>1, <1>3, <1>5 DEF AlertLeft
<1>7. PipePart!StepsLeft(Engine)' \in 0..AlertBound /\ AlertBound \in Nat
  BY LeftRangesNext, SettingsAssumption DEF LeftOK, AlertBound
<1> QED
  BY <1>2, <1>4, <1>6, <1>7
LEMMA WorkLeft ==
  ASSUME CountedInv, CountedInv', Work
  PROVE  /\ LoopPart!PassLeft' <= LoopPart!PassLeft
         /\ AlertLeft' <= AlertLeft
         /\ \/ LoopPart!PassLeft' < LoopPart!PassLeft
            \/ AlertLeft' < AlertLeft
<1>1. /\ Pipe!Busy(Engine) /\ PipePart!Handle(Engine)
      /\ pc = "handle" /\ matches # <<>>
  BY HandleBusy, HandleIsPipe, SameSteps DEF Work, CountedInv, WholeInv, AtWork
<1>2. AlertLeft = PipePart!StepsLeft(Engine)
  BY <1>1 DEF AlertLeft
<1>3. PipePart!StepsLeft(Engine)' < PipePart!StepsLeft(Engine)
  BY <1>1, PipeAssumptions, EngineThere, PipePart!LeftShrinks
     DEF CountedInv, WholeInv, PipePart!IInv
<1>4. /\ AlertLeft \in Nat /\ AlertLeft' \in Nat
      /\ LoopPart!PassLeft \in Int /\ LoopPart!PassLeft' \in Int
  <2>1. AlertBound \in Nat /\ MaxSize \in Nat
    BY SettingsAssumption DEF AlertBound
  <2> QED
    BY <2>1, LeftRanges, LeftRangesNext DEF LeftOK
<1>5. CASE job'[Engine] = Pipe!Idle
  <2>1. Loop!HandleMatch
    BY <1>5 DEF Work
  <2>2. LoopPart!PassLeft' < LoopPart!PassLeft
    <3>1. LoopPart!Loop
      BY <2>1, SameLoop DEF Loop!Loop
    <3> QED
      BY <1>1, <3>1, LoopAssumptions, LoopPart!PassShrinks DEF CountedInv
  <2>3. matches' = <<>> /\ pc' = "handle"
    <3>1. LoopPart!HandleMatch
      BY <2>1 DEF Loop!HandleMatch, LoopPart!HandleMatch, Loop!Without,
             LoopPart!Without, Loop!Oldest, LoopPart!Oldest, Loop!producer,
             LoopPart!producer
    <3> QED
      BY <1>1, <3>1, LoopAssumptions, LoopPart!OnlyMatch
         DEF CountedInv, WholeInv, LoopPart!HandleMatch
  <2>4. AlertLeft' = 0
    BY <2>3 DEF AlertLeft
  <2> QED
    BY <1>4, <2>2, <2>4
<1>6. CASE job'[Engine] # Pipe!Idle
  <2>1. UNCHANGED <<pc, todo, matches>>
    BY <1>6 DEF Work, loopVars
  <2>2. LoopPart!PassLeft' = LoopPart!PassLeft
    BY <2>1 DEF LoopPart!PassLeft, LoopPart!Cardinality
  <2>3. Pipe!Busy(Engine)'
    <3>1. job' \in [{Engine} -> {PipePart!Idle} \cup PipePart!Jobs]
      BY DEF CountedInv, WholeInv, PipePart!IInv, PipePart!TypeOK,
             PipePart!Idle, PipePart!Jobs, PipePart!Steps
    <3>2. job'[Engine] \in PipePart!Jobs
      BY <1>6, <3>1, EngineThere DEF PipePart!Idle, Pipe!Idle
    <3> QED
      BY <3>2 DEF PipePart!Jobs, PipePart!Steps, Pipe!Busy
  <2>4. AlertLeft' = PipePart!StepsLeft(Engine)'
    BY <1>1, <2>1, <2>3 DEF AlertLeft
  <2> QED
    BY <1>2, <1>3, <1>4, <2>2, <2>4
<1> QED
  BY <1>5, <1>6

(* The producers, the clocks and a crash do not hold the loop up. *)
LEMMA OthersLeft ==
  ASSUME CountedInv, CountedInv', Feed \/ Crash \/ Expire \/ UNCHANGED vars,
         pc # "pop"
  PROVE  /\ LoopPart!PassLeft' <= LoopPart!PassLeft
         /\ AlertLeft' <= AlertLeft
<1>1. /\ AlertLeft \in Nat /\ AlertLeft' \in Nat
      /\ LoopPart!PassLeft \in Nat /\ LoopPart!PassLeft' \in Nat
  <2>1. AlertBound \in Nat /\ MaxSize \in Nat
    BY SettingsAssumption DEF AlertBound
  <2> QED
    BY <2>1, LeftRanges, LeftRangesNext DEF LeftOK
<1>2. CASE Crash
  <2>1. pc' = "pop"
    BY <1>2 DEF Crash, Loop!Crash
  <2>2. LoopPart!PassLeft' = 0 /\ AlertLeft' = 0
    BY <2>1, LeftRangesNext DEF LeftOK
  <2> QED
    BY <1>1, <2>2
<1>3. ASSUME UNCHANGED <<pc, todo, matches>>
      PROVE  LoopPart!PassLeft' = LoopPart!PassLeft
  BY <1>3 DEF LoopPart!PassLeft, LoopPart!Cardinality
<1>4. CASE Feed \/ UNCHANGED vars
  <2>1. UNCHANGED <<pc, todo, matches, job>>
    BY <1>4 DEF Feed, Loop!Push, Loop!Tick, pipeVars, vars, loopVars
  <2>2. PipePart!StepsLeft(Engine)' = PipePart!StepsLeft(Engine)
    BY <2>1 DEF PipePart!StepsLeft, PipePart!Left, PipePart!AttemptsLeft
  <2>3. AlertLeft' = AlertLeft
    BY <2>1, <2>2 DEF AlertLeft, Pipe!Busy
  <2> QED
    BY <1>1, <1>3, <2>1, <2>3
<1>5. CASE Expire
  <2>1. UNCHANGED <<pc, todo, matches>>
    BY <1>5 DEF Expire, loopVars
  <2>2. CASE Pipe!Busy(Engine)
    <3>1. PipePart!StepsLeft(Engine)' <= PipePart!StepsLeft(Engine)
      <4>1. [PipePart!Next]_(PipePart!vars) /\ PipePart!Busy(Engine)
        BY <1>5, <2>2, PipeStepsOfPart DEF Next, Pipe!Busy, PipePart!Busy
      <4> QED
        BY <4>1, PipeAssumptions, EngineThere, PipePart!LeftNeverGrows
           DEF CountedInv, WholeInv, PipePart!IInv
    <3>2. Pipe!Busy(Engine)'
      <4>1. job[Engine] \in PipePart!Jobs
        BY <2>2, EngineThere
           DEF CountedInv, WholeInv, PipePart!IInv, PipePart!TypeOK,
               PipePart!Idle, Pipe!Busy
      <4>2. \/ job'[Engine] = job[Engine]
            \/ job'[Engine] = [job[Engine] EXCEPT !.lapsed = TRUE]
        BY <1>5, EngineThere DEF Expire, Pipe!ExpireClaim, Pipe!ExpireRecord
      <4>3. job'[Engine].step = job[Engine].step
        BY <4>1, <4>2 DEF PipePart!Jobs
      <4> QED
        BY <2>2, <4>3 DEF Pipe!Busy
    <3>3. pc = "handle" /\ matches # <<>>
      BY <2>2 DEF CountedInv, WholeInv, AtWork
    <3> QED
      BY <1>1, <1>3, <2>1, <2>2, <3>1, <3>2, <3>3 DEF AlertLeft
  <2>3. CASE ~Pipe!Busy(Engine)
    <3>1. job'[Engine] = job[Engine]
      BY <1>5, <2>3, EngineThere
         DEF Expire, Pipe!ExpireClaim, Pipe!ExpireRecord, Pipe!Owns
    <3>2. ~Pipe!Busy(Engine)'
      BY <2>3, <3>1 DEF Pipe!Busy
    <3>3. AlertLeft' = AlertLeft
      BY <2>1, <2>3, <3>2 DEF AlertLeft
    <3> QED
      BY <1>1, <1>3, <2>1, <3>3
  <2> QED
    BY <2>2, <2>3
<1> QED
  BY <1>2, <1>4, <1>5

(* A finding that was popped holds the next one up for a bounded number of *)
(* steps: one for each entry of the api deque, the attempts of the four    *)
(* commands, the channels, and a few between; every step of the thread     *)
(* leaves fewer, and neither the producers nor Redis nor another finding   *)
(* adds to them.  QueueDrains rests on it (correlate).                     *)
THEOREM HoldUpBounded ==
  Spec => /\ [](/\ ThreadLeft \in 0..(MaxSize + AlertBound + 5)
                /\ pc = "pop" <=> ThreadLeft = 0)
          /\ [][pc # "pop" => /\ Thread => ThreadLeft' < ThreadLeft
                              /\ ThreadLeft' <= ThreadLeft]_vars
<1>1. AlertBound \in Nat /\ MaxSize \in Nat
  BY SettingsAssumption DEF AlertBound
<1>2. CountedInv => /\ ThreadLeft \in 0..(MaxSize + AlertBound + 5)
                    /\ pc = "pop" <=> ThreadLeft = 0
  BY <1>1, LeftRanges DEF LeftOK, ThreadLeft
<1>3. CountedInv /\ CountedInv' /\ [Next]_vars =>
        [pc # "pop" => /\ Thread => ThreadLeft' < ThreadLeft
                       /\ ThreadLeft' <= ThreadLeft]_vars
  <2> SUFFICES ASSUME CountedInv, CountedInv', [Next]_vars, pc # "pop"
               PROVE  /\ Thread => ThreadLeft' < ThreadLeft
                      /\ ThreadLeft' <= ThreadLeft
    OBVIOUS
  <2>1. /\ LoopPart!PassLeft \in Nat /\ LoopPart!PassLeft' \in Nat
        /\ AlertLeft \in Nat /\ AlertLeft' \in Nat
    BY <1>1, LeftRanges, LeftRangesNext DEF LeftOK
  <2>2. Thread => /\ LoopPart!PassLeft' <= LoopPart!PassLeft
                  /\ AlertLeft' <= AlertLeft
                  /\ \/ LoopPart!PassLeft' < LoopPart!PassLeft
                     \/ AlertLeft' < AlertLeft
    BY <2>1, ConsumeLeft, HandOverLeft, WorkLeft DEF Thread
  <2>3. ~Thread => /\ LoopPart!PassLeft' <= LoopPart!PassLeft
                   /\ AlertLeft' <= AlertLeft
    BY OthersLeft DEF Next
  <2>4. PICK p \in Nat, q \in Nat, r \in Nat, s \in Nat :
          /\ p = LoopPart!PassLeft /\ q = LoopPart!PassLeft'
          /\ r = AlertLeft /\ s = AlertLeft'
    BY <2>1
  <2>5. q <= p /\ s <= r /\ (Thread => q < p \/ s < r)
    BY <2>2, <2>3, <2>4
  <2>6. ThreadLeft = p + r /\ ThreadLeft' = q + s
    BY <2>4 DEF ThreadLeft
  <2> QED
    BY <2>5, <2>6
<1>4. WholeInv /\ LoopPart!CountInv => CountedInv
  BY DEF CountedInv
<1> QED
  BY <1>2, <1>3, <1>4, WholeInvariant, CountInvariant, PTL DEF Spec
=============================================================================
