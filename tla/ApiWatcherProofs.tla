-------------------------- MODULE ApiWatcherProofs --------------------------
(***************************************************************************)
(* Theorems about ApiWatcher, for any list of targets, with any            *)
(* repetitions, and any threshold.                                         *)
(***************************************************************************)
EXTENDS ApiWatcher, TLAPS

(* A count never exceeds the failures in a row that it counts: the probes  *)
(* of one URL reset it together with them.                                 *)
CountIsEarned == \A u \in Urls : count[u] <= since[u]

(* The thread works for watch(), or on its own when watch() is gone, on    *)
(* the slot before next, and pushes before it stores.                      *)
ThreadInOrder ==
  /\ pc \in {"poll", "probe", "emit", "wait"} => thread = "idle"
  /\ thread # "idle" => next - 1 \in Slots
  /\ thread \in {"store", "done"} => next - 1 \in queued
  /\ thread = "done" => next - 1 \in stored

(* The findings that were looked at are in Redis, but for the one that the *)
(* thread has in its hands.                                                *)
LookedAtIsPersisted ==
  pc \in {"emit", "persist", "wait"} =>
    \A i \in Slots :
      i < next /\ result[i] \in Findings =>
        \/ i \in queued \cap stored
        \/ pc = "persist" /\ i = next - 1

(* A round begins with the first slot and ends after the last one.         *)
NextInPlace ==
  /\ pc = "probe" => next = 1
  /\ pc = "wait" => next = Len(Targets) + 1

WatchInv ==
  /\ TypeOK
  /\ CountIsEarned /\ StateAgrees
  /\ ThreadInOrder /\ LookedAtIsPersisted /\ NextInPlace /\ RecordedIsQueued

----------------------------------------------------------------------------
LEMMA SlotUrl == \A i \in Slots : Targets[i] \in Urls
  BY TargetAssumption DEF Slots

LEMMA LenNat == Len(Targets) \in Nat /\ Len(Targets) >= 1
  BY TargetAssumption

LEMMA UpFacts ==
  /\ \A n \in 0..MaxCount : Up(n) \in 0..MaxCount
  /\ \A m, n \in 0..MaxCount : m <= n => Up(m) <= Up(n)
  BY CountAssumption DEF Up

(* What a probe does to the health of its URL. *)
LEMMA HealthStep ==
  ASSUME TypeOK, CountIsEarned, StateAgrees, NEW i \in Slots, Probe(i)
  PROVE  /\ count' \in [Urls -> 0..MaxCount] /\ since' \in [Urls -> 0..MaxCount]
         /\ state' \in [Urls -> States] /\ tls' \subseteq Urls
         /\ CountIsEarned' /\ StateAgrees'
<1> PICK u \in Urls : u = Targets[i]
  BY SlotUrl
<1> USE DEF TypeOK, CountIsEarned, StateAgrees, States
<1>0. {"UP", "DEGRADED", "DOWN"} = States /\ 0 \in 0..MaxCount /\ Threshold > 0
  BY CountAssumption
<1>1. CASE Success(i)
  BY <1>0, <1>1 DEF Success
<1>2. ASSUME NEW s \in {"degraded", "down"}, Failure(i, s)
      PROVE  /\ count' \in [Urls -> 0..MaxCount] /\ since' \in [Urls -> 0..MaxCount]
             /\ state' \in [Urls -> States] /\ tls' \subseteq Urls
             /\ CountIsEarned' /\ StateAgrees'
  <2>1. /\ count' = [count EXCEPT ![u] = Up(count[u])]
        /\ since' = [since EXCEPT ![u] = Up(since[u])]
        /\ UNCHANGED tls
    BY <1>2 DEF Failure
  <2>2. /\ Up(count[u]) \in 0..MaxCount /\ Up(since[u]) \in 0..MaxCount
        /\ Up(count[u]) <= Up(since[u])
    BY UpFacts
  <2>3. \/ Up(count[u]) < Threshold /\ UNCHANGED state
        \/ /\ Up(count[u]) >= Threshold
           /\ \E t \in {"DOWN", "DEGRADED"} : state' = [state EXCEPT ![u] = t]
    BY <1>2 DEF Failure
  <2>4. Up(count[u]) < Threshold => count[u] < Threshold
    BY CountAssumption DEF Up
  <2>5. count' \in [Urls -> 0..MaxCount] /\ since' \in [Urls -> 0..MaxCount]
    BY <2>1, <2>2
  <2>6. CountIsEarned'
    BY <2>1, <2>2
  <2>7. state' \in [Urls -> States] /\ tls' \subseteq Urls
    BY <1>0, <2>1, <2>3
  <2>8. \A v \in Urls \ {u} : state'[v] = state[v] /\ count'[v] = count[v]
    BY <2>1, <2>3
  <2>9. count'[u] = Up(count[u])
    BY <2>1
  <2>10. state'[u] = "UP" <=> count'[u] < Threshold /\ u \notin tls
    BY <2>2, <2>3, <2>4, <2>9, CountAssumption
  <2>11. StateAgrees'
    BY <2>1, <2>8, <2>10
  <2> QED
    BY <2>5, <2>6, <2>7, <2>11
<1>3. CASE TlsFailure(i)
  <2>1. /\ state' = [state EXCEPT ![u] = "DOWN"]
        /\ since' = [since EXCEPT ![u] = Up(since[u])]
        /\ tls' = tls \cup {u} /\ UNCHANGED count
    BY <1>3 DEF TlsFailure
  <2>2. Up(since[u]) \in 0..MaxCount /\ since[u] <= Up(since[u])
    BY UpFacts, CountAssumption DEF Up
  <2> QED
    BY <2>1, <2>2, CountAssumption
<1>4. CASE ProbeError(i)
  BY <1>4 DEF ProbeError, health
<1> QED
  BY <1>1, <1>2, <1>3, <1>4 DEF Probe

(* A probe leaves the rest alone, but for its own result. *)
LEMMA ProbeFrame ==
  ASSUME TypeOK, NEW i \in Slots, Probe(i)
  PROVE  /\ pc = "probe" /\ UNCHANGED <<pc, next, thread, queued, stored>>
         /\ result' \in [Slots -> Results \cup {"pending"}]
<1>1. \E r \in Results : Answer(i, r)
  BY DEF Probe, Success, Failure, TlsFailure, ProbeError, Results, Findings
<1> QED
  BY <1>1 DEF Probe, evidence, Answer, TypeOK

LEMMA WatchInvInit == Init => WatchInv
  BY CountAssumption, LenNat
     DEF Init, WatchInv, TypeOK, CountIsEarned, StateAgrees, ThreadInOrder,
         LookedAtIsPersisted, NextInPlace, RecordedIsQueued, States, Slots

LEMMA WatchInvStep == WatchInv /\ [Next]_vars => WatchInv'
<1> SUFFICES ASSUME WatchInv, [Next]_vars PROVE WatchInv'
  OBVIOUS
<1> USE DEF WatchInv
<1>h. UNCHANGED health => CountIsEarned' /\ StateAgrees'
  BY DEF health, CountIsEarned, StateAgrees
<1>1. ASSUME NEW i \in Slots, Probe(i) PROVE WatchInv'
  <2>1. /\ pc = "probe" /\ UNCHANGED <<pc, next, thread, queued, stored>>
        /\ result' \in [Slots -> Results \cup {"pending"}]
    BY <1>1, ProbeFrame
  <2>2. TypeOK' /\ CountIsEarned' /\ StateAgrees'
    BY <1>1, <2>1, HealthStep DEF TypeOK
  <2> QED
    BY <2>1, <2>2
       DEF ThreadInOrder, LookedAtIsPersisted, NextInPlace, RecordedIsQueued
<1>2. CASE StartRound
  <2>1. TypeOK'
    BY <1>2, LenNat DEF StartRound, TypeOK, health
  <2> QED
    BY <1>2, <1>h, <2>1 DEF StartRound, ThreadInOrder, LookedAtIsPersisted,
       NextInPlace, RecordedIsQueued
<1>3. CASE Gather
  <2>1. TypeOK'
    BY <1>3 DEF Gather, TypeOK, health, round, evidence
  <2>2. next = 1
    BY <1>3 DEF Gather, NextInPlace
  <2> QED
    BY <1>3, <1>h, <2>1, <2>2 DEF Gather, ThreadInOrder, LookedAtIsPersisted,
       NextInPlace, RecordedIsQueued, round, evidence, Slots
<1>4. CASE Look
  <2>1. /\ pc = "emit" /\ thread = "idle" /\ next \in Slots /\ next' = next + 1
        /\ UNCHANGED <<result, queued, stored>> /\ UNCHANGED health
    BY <1>4 DEF Look, ThreadInOrder, evidence
  <2>2. next \in 1..Len(Targets) /\ next' \in 1..(Len(Targets) + 1)
        /\ next' - 1 = next
    BY <2>1, LenNat DEF Slots
  <2>3. \/ result[next] = "nothing" /\ UNCHANGED <<pc, thread>>
        \/ result[next] \in Findings /\ pc' = "persist" /\ thread' = "push"
        \/ result[next] = "error" /\ pc' = "failed" /\ UNCHANGED thread
        \/ result[next] = "cancelled" /\ pc' = "cancelled" /\ UNCHANGED thread
    BY <1>4 DEF Look
  <2>4. TypeOK'
    BY <2>1, <2>2, <2>3 DEF TypeOK, health, Halted
  <2>5. ThreadInOrder' /\ NextInPlace' /\ RecordedIsQueued'
    BY <2>1, <2>2, <2>3 DEF ThreadInOrder, NextInPlace, RecordedIsQueued
  <2>6. LookedAtIsPersisted'
    <3> SUFFICES ASSUME pc' # "failed", NEW i \in Slots, i < next + 1,
                        result[i] \in Findings
                 PROVE  \/ i \in queued \cap stored
                        \/ pc' = "persist" /\ i = next
      BY <2>1, <2>2 DEF LookedAtIsPersisted
    <3>1. CASE i < next
      BY <2>1, <3>1 DEF LookedAtIsPersisted
    <3>2. CASE i = next
      BY <2>3, <3>2 DEF Findings
    <3>3. i \in Int /\ next \in Int
      BY <2>2 DEF Slots
    <3> QED
      BY <3>1, <3>2, <3>3
  <2> QED
    BY <1>h, <2>1, <2>4, <2>5, <2>6
<1>5. CASE EndRound
  <2>1. TypeOK'
    BY <1>5 DEF EndRound, TypeOK, health, round, evidence
  <2>2. next = Len(Targets) + 1
    BY <1>5, LenNat DEF EndRound, TypeOK, Slots
  <2> QED
    BY <1>5, <1>h, <2>1, <2>2 DEF EndRound, ThreadInOrder, LookedAtIsPersisted,
       NextInPlace, RecordedIsQueued, round, evidence
<1>6. CASE NextPoll \/ Cancel \/ Return
  <2>1. TypeOK'
    BY <1>6 DEF NextPoll, Cancel, Return, TypeOK, health, round, evidence, Halted
  <2> QED
    BY <1>6, <1>h, <2>1 DEF NextPoll, Cancel, Return, ThreadInOrder,
       LookedAtIsPersisted, NextInPlace, RecordedIsQueued, round, evidence
<1>7. CASE Persisted
  <2>1. TypeOK'
    BY <1>7 DEF Persisted, TypeOK, health, round, evidence, Halted
  <2> QED
    BY <1>7, <1>h, <2>1 DEF Persisted, ThreadInOrder, LookedAtIsPersisted,
       NextInPlace, RecordedIsQueued, round, evidence
<1>8. CASE PushFinding
  <2>1. /\ thread = "push" /\ thread' \in {"store", "raised"}
        /\ queued' \in {queued, queued \cup {next - 1}} /\ UNCHANGED stored
        /\ thread' = "store" => next - 1 \in queued'
        /\ UNCHANGED <<pc, result, next>> /\ UNCHANGED health
    BY <1>8 DEF PushFinding, Call, round
  <2>2. next - 1 \in Slots
    BY <2>1 DEF ThreadInOrder
  <2>3. TypeOK'
    BY <2>1, <2>2 DEF TypeOK, health
  <2> QED
    BY <1>h, <2>1, <2>2, <2>3 DEF ThreadInOrder, LookedAtIsPersisted,
       NextInPlace, RecordedIsQueued
<1>9. CASE StoreRecord
  <2>1. /\ thread = "store" /\ thread' \in {"done", "raised"}
        /\ stored' \in {stored, stored \cup {next - 1}} /\ UNCHANGED queued
        /\ thread' = "done" => next - 1 \in stored'
        /\ UNCHANGED <<pc, result, next>> /\ UNCHANGED health
    BY <1>9 DEF StoreRecord, Call, round
  <2>2. next - 1 \in Slots /\ next - 1 \in queued
    BY <2>1 DEF ThreadInOrder
  <2>3. TypeOK'
    BY <2>1, <2>2 DEF TypeOK, health
  <2> QED
    BY <1>h, <2>1, <2>2, <2>3 DEF ThreadInOrder, LookedAtIsPersisted,
       NextInPlace, RecordedIsQueued
<1>10. CASE UNCHANGED vars
  BY <1>10, <1>h DEF vars, health, round, evidence, TypeOK, ThreadInOrder,
     LookedAtIsPersisted, NextInPlace, RecordedIsQueued
<1> QED
  BY <1>1, <1>2, <1>3, <1>4, <1>5, <1>6, <1>7, <1>8, <1>9, <1>10
     DEF Next, Watch, Persist, Stopped

(* The inductive invariant. *)
THEOREM WatchInvariance == Spec => []WatchInv
  BY WatchInvInit, WatchInvStep, PTL DEF Spec

(* Every state is of the declared type. *)
THEOREM WatchTypes == Spec => []TypeOK
<1>1. WatchInv => TypeOK
  BY DEF WatchInv
<1> QED
  BY <1>1, WatchInvariance, PTL

(* The state of an endpoint is never stale, however the probes of a URL    *)
(* that is listed several times follow each other.                         *)
THEOREM StateIsTrue == Spec => []StateAgrees
<1>1. WatchInv => StateAgrees
  BY DEF WatchInv
<1> QED
  BY <1>1, WatchInvariance, PTL

(* A record never lacks its finding in the queue. *)
THEOREM RecordsAreQueued == Spec => []RecordedIsQueued
<1>1. WatchInv => RecordedIsQueued
  BY DEF WatchInv
<1> QED
  BY <1>1, WatchInvariance, PTL

(* No finding of a round that ended is missing in Redis. *)
THEOREM RoundIsComplete == Spec => []NothingSkipped
<1>1. WatchInv => NothingSkipped
  <2> SUFFICES ASSUME WatchInv, pc = "wait", NEW i \in Slots,
                      result[i] \in Findings
               PROVE  i \in queued \cap stored
    BY DEF NothingSkipped
  <2>1. i < next
    BY LenNat DEF WatchInv, NextInPlace, Slots
  <2> QED
    BY <2>1 DEF WatchInv, LookedAtIsPersisted
<1> QED
  BY <1>1, WatchInvariance, PTL

(* No finding of persistent failure without a threshold of failures.       *)
THEOREM ReportedIsPersistent == Spec => PersistentOnly
<1>1. ASSUME WatchInv, [Next]_vars, NEW i \in Slots,
             result[i] = "pending", result'[i] \in {"degraded", "down"}
      PROVE  since'[Targets[i]] >= Threshold
  <2>1. TypeOK /\ CountIsEarned
    BY <1>1 DEF WatchInv
  <2>2. PICK j \in Slots : Probe(j)
    BY <1>1 DEF Next, Watch, Return, Persist, Stopped, StartRound, Gather, Look,
       EndRound, NextPoll, Persisted, Cancel, PushFinding, StoreRecord, Call,
       round, vars, TypeOK, WatchInv
  <2>3. j = i
    BY <1>1, <2>1, <2>2
       DEF Probe, Success, Failure, TlsFailure, ProbeError, Answer, TypeOK
  <2>4. \E s \in {"degraded", "down"} : Failure(i, s) /\ Up(count[Targets[i]]) >= Threshold
    BY <1>1, <2>1, <2>2, <2>3
       DEF Probe, Success, Failure, TlsFailure, ProbeError, Answer, TypeOK
  <2>5. PICK u \in Urls : u = Targets[i]
    BY SlotUrl
  <2>6. since'[u] = Up(since[u]) /\ Up(count[u]) >= Threshold
    BY <2>1, <2>4, <2>5 DEF Failure, TypeOK
  <2>7. /\ Up(count[u]) <= Up(since[u])
        /\ Up(count[u]) \in 0..MaxCount /\ Up(since[u]) \in 0..MaxCount
    BY <2>1, UpFacts DEF TypeOK, CountIsEarned
  <2> QED
    BY <2>5, <2>6, <2>7, CountAssumption
<1>2. WatchInv /\ [Next]_vars =>
        [\A i \in Slots :
           result[i] = "pending" /\ result'[i] \in {"degraded", "down"}
           => since'[Targets[i]] >= Threshold]_vars
  BY <1>1
<1> QED
  BY <1>2, WatchInvariance, PTL DEF Spec, PersistentOnly
=============================================================================
