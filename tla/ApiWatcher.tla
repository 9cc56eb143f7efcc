---------------------------- MODULE ApiWatcher ----------------------------
(***************************************************************************)
(* The API watcher: a coroutine that probes every target at the same time, *)
(* counts the consecutive failures of each URL, and then hands the         *)
(* findings of the round, one after the other, to a thread that pushes     *)
(* them to the correlator's queue and stores their records.                *)
(*                                                                         *)
(* main() cancels the coroutine at any of its awaits; the thread can not   *)
(* be cancelled and finishes what it has begun.                            *)
(***************************************************************************)
EXTENDS Integers, Sequences

CONSTANTS
  Urls,        \* the URLs that are probed
  Targets,     \* settings.api_watcher.target_urls, which may repeat a URL
  Threshold,   \* settings.api_watcher.failure_threshold
  MaxCount     \* counts from here on are not told apart

Slots == 1..Len(Targets)

ASSUME TargetAssumption == Targets \in Seq(Urls) /\ Targets # <<>>
ASSUME CountAssumption ==
  Threshold \in Nat \ {0} /\ MaxCount \in Nat /\ MaxCount >= Threshold

VARIABLES
  count,    \* _failure_counts
  state,    \* _endpoint_states
  pc,       \* where watch() is
  result,   \* result[i]: what the probe of Targets[i] returned this round
  next,     \* the slot whose result is looked at next
  thread,   \* what _persist_finding is doing, for the slot before next
  queued,   \* slots whose finding this round's threads have pushed
  stored,   \* slots whose finding has a record
  since,    \* history: failing probes of a URL since its last 2xx answer
  tls       \* history: URLs with a TLS failure since their last 2xx answer

round == <<result, next>>
evidence == <<queued, stored>>
health == <<count, state, since, tls>>
vars == <<pc, round, thread, evidence, health>>

States == {"UP", "DEGRADED", "DOWN"}
Findings == {"slow", "degraded", "down", "ssl"}
Results == Findings \cup {"nothing", "error", "cancelled"}
Halted == {"returned", "cancelled", "failed"}

TypeOK ==
  /\ count \in [Urls -> 0..MaxCount]
  /\ state \in [Urls -> States]
  /\ pc \in {"poll", "probe", "emit", "persist", "wait"} \cup Halted
  /\ result \in [Slots -> Results \cup {"pending"}]
  /\ next \in 1..(Len(Targets) + 1)
  /\ thread \in {"idle", "push", "store", "raised", "done"}
  /\ queued \subseteq Slots /\ stored \subseteq Slots
  /\ since \in [Urls -> 0..MaxCount]
  /\ tls \subseteq Urls

Init ==
  /\ count = [u \in Urls |-> 0]
  /\ state = [u \in Urls |-> "UP"]
  /\ pc = "poll"
  /\ result = [i \in Slots |-> "pending"]
  /\ next = 1
  /\ thread = "idle"
  /\ queued = {} /\ stored = {}
  /\ since = [u \in Urls |-> 0]
  /\ tls = {}

----------------------------------------------------------------------------
(* _probe_endpoint *)

Up(n) == IF n < MaxCount THEN n + 1 ELSE MaxCount

Answer(i, r) == result' = [result EXCEPT ![i] = r]

(* Fault: a good answer does not reset the count. *)
SuccessUncounted(i) ==
  LET u == Targets[i]
  IN  /\ state' = [state EXCEPT ![u] = "UP"]
      /\ since' = [since EXCEPT ![u] = 0]
      /\ tls' = tls \ {u}
      /\ UNCHANGED count
      /\ Answer(i, "nothing") \/ Answer(i, "slow")

(* Fault: a slow answer is no success. *)
SuccessOnlyInTime(i) ==
  LET u == Targets[i]
  IN  /\ since' = [since EXCEPT ![u] = 0]
      /\ tls' = tls \ {u}
      /\ \/ /\ Answer(i, "nothing")
            /\ count' = [count EXCEPT ![u] = 0]
            /\ state' = [state EXCEPT ![u] = "UP"]
         \/ Answer(i, "slow") /\ UNCHANGED <<count, state>>

(* A 2xx answer, in time or slow: _record_success.  Here and below         *)
(* new_finding may raise, after the count and the state have changed.      *)
Success(i) ==
  LET u == Targets[i]
  IN  /\ count' = [count EXCEPT ![u] = 0]
      /\ state' = [state EXCEPT ![u] = "UP"]
      /\ since' = [since EXCEPT ![u] = 0]
      /\ tls' = tls \ {u}
      /\ Answer(i, "nothing") \/ Answer(i, "slow") \/ Answer(i, "error")

(* Fault: the state becomes the type of the finding. *)
FailureByType(i, s) ==
  LET u == Targets[i]
      failures == Up(count[u])
  IN  /\ count' = [count EXCEPT ![u] = failures]
      /\ since' = [since EXCEPT ![u] = Up(@)]
      /\ UNCHANGED tls
      /\ Answer(i, IF failures < Threshold THEN "nothing" ELSE s)
      /\ state' = [state EXCEPT ![u] = IF failures < Threshold THEN @ ELSE s]

(* Any other answer ("degraded", or "down" from 500 on), a timeout or a    *)
(* client error ("down"): _record_failure, then a finding at the threshold.*)
Failure(i, s) ==
  LET u == Targets[i]
      failures == Up(count[u])
  IN  /\ count' = [count EXCEPT ![u] = failures]
      /\ since' = [since EXCEPT ![u] = Up(@)]
      /\ UNCHANGED tls
      /\ \/ /\ failures < Threshold
            /\ Answer(i, "nothing")
            /\ UNCHANGED state
         \/ /\ failures >= Threshold
            /\ Answer(i, s) \/ Answer(i, "error")
            /\ state' = [state EXCEPT ![u] = IF s = "down" THEN "DOWN"
                                                         ELSE "DEGRADED"]

(* A certificate that is not accepted is reported at once and not counted. *)
TlsFailure(i) ==
  LET u == Targets[i]
  IN  /\ state' = [state EXCEPT ![u] = "DOWN"]
      /\ since' = [since EXCEPT ![u] = Up(@)]
      /\ tls' = tls \cup {u}
      /\ Answer(i, "ssl") \/ Answer(i, "error")
      /\ UNCHANGED count

(* Any other exception, or a cancellation of the probe alone, becomes its  *)
(* result in gather().                                                     *)
ProbeError(i) ==
  /\ Answer(i, "error") \/ Answer(i, "cancelled")
  /\ UNCHANGED health

Probe(i) ==
  /\ pc = "probe" /\ result[i] = "pending"
  /\ \/ Success(i)
     \/ Failure(i, "degraded")
     \/ Failure(i, "down")
     \/ TlsFailure(i)
     \/ ProbeError(i)
  /\ UNCHANGED <<pc, next, thread, evidence>>

----------------------------------------------------------------------------
(* watch() *)

StartRound ==
  /\ pc = "poll"
  /\ pc' = "probe"
  /\ result' = [i \in Slots |-> "pending"]
  /\ next' = 1
  /\ queued' = {} /\ stored' = {}
  /\ UNCHANGED <<thread, health>>

(* gather() returns when every probe has. *)
Gather ==
  /\ pc = "probe"
  /\ \A i \in Slots : result[i] # "pending"
  /\ pc' = "emit"
  /\ UNCHANGED <<round, thread, evidence, health>>

(* stop_event is set: the loop is over, and watch() returns.               *)
Return ==
  /\ pc = "poll"
  /\ pc' = "returned"
  /\ UNCHANGED <<round, thread, evidence, health>>

(* The loop over the results: nothing to say, a finding for _emit, or an   *)
(* exception that ends watch().                                            *)
Look ==
  /\ pc = "emit" /\ next \in Slots
  /\ next' = next + 1
  /\ \/ result[next] = "nothing" /\ UNCHANGED <<pc, thread>>
     \/ result[next] \in Findings /\ pc' = "persist" /\ thread' = "push"
     \/ result[next] = "error" /\ pc' = "failed" /\ UNCHANGED thread
     \/ result[next] = "cancelled" /\ pc' = "cancelled" /\ UNCHANGED thread
  /\ UNCHANGED <<result, evidence, health>>

EndRound ==
  /\ pc = "emit" /\ next \notin Slots
  /\ pc' = "wait"
  /\ UNCHANGED <<round, thread, evidence, health>>

(* The poll interval is over, or stop_event is set.                        *)
NextPoll ==
  /\ pc = "wait"
  /\ pc' = "poll"
  /\ UNCHANGED <<round, thread, evidence, health>>

(* Whatever await watch() is at, CancelledError ends it. *)
Cancel ==
  /\ pc \in {"probe", "persist", "wait"}
  /\ pc' = "cancelled"
  /\ UNCHANGED <<round, thread, evidence, health>>

----------------------------------------------------------------------------
(* _persist_finding, in its thread: push_finding, then the record.  A call *)
(* that raises may have been executed all the same.                        *)

Call(step, onSuccess, done, doneNext) ==
  /\ thread = step
  /\ \/ thread' = onSuccess /\ doneNext = done \cup {next - 1}
     \/ thread' = "raised" /\ doneNext \in {done, done \cup {next - 1}}
  /\ UNCHANGED <<pc, round, health>>

PushFinding == Call("push", "store", queued, queued') /\ UNCHANGED stored
StoreRecord == Call("store", "done", stored, stored') /\ UNCHANGED queued

(* Fault: a finding that could not be persisted is skipped. *)
PersistedAnyway ==
  /\ pc = "persist" /\ thread \in {"done", "raised"}
  /\ pc' = "emit"
  /\ thread' = "idle"
  /\ UNCHANGED <<round, evidence, health>>

(* Fault: the round ends with its first finding. *)
PersistedAndOver ==
  /\ pc = "persist" /\ thread \in {"done", "raised"}
  /\ pc' = IF thread = "done" THEN "wait" ELSE "failed"
  /\ thread' = "idle"
  /\ UNCHANGED <<round, evidence, health>>

(* await to_thread() returns or raises, unless the coroutine is gone.      *)
Persisted ==
  /\ pc = "persist" /\ thread \in {"done", "raised"}
  /\ pc' = IF thread = "done" THEN "emit" ELSE "failed"
  /\ thread' = "idle"
  /\ UNCHANGED <<round, evidence, health>>

----------------------------------------------------------------------------
Watch == StartRound \/ Gather \/ Look \/ EndRound \/ NextPoll \/ Persisted

(* Fault: the record is stored before the finding is pushed. *)
RecordFirst ==
  \/ Call("push", "store", stored, stored') /\ UNCHANGED queued
  \/ Call("store", "done", queued, queued') /\ UNCHANGED stored

Persist == PushFinding \/ StoreRecord

Stopped ==
  pc \in Halted /\ thread \notin {"push", "store"} /\ UNCHANGED vars

Next ==
  \/ \E i \in Slots : Probe(i)
  \/ Watch \/ Return \/ Persist \/ Cancel \/ Stopped

(* The loop runs its coroutines, every probe has a total timeout, and so   *)
(* has every Redis call.                                                   *)
Fairness ==
  WF_vars(Watch) /\ WF_vars(Persist) /\ \A i \in Slots : WF_vars(Probe(i))

Spec == Init /\ [][Next]_vars /\ Fairness

----------------------------------------------------------------------------
(* Properties *)

(* What is reported as persistent has failed that many times in a row,     *)
(* even if a URL is listed twice and its probes overtake each other.       *)
PersistentOnly ==
  [][\A i \in Slots :
       result[i] = "pending" /\ result'[i] \in {"degraded", "down"}
       => since'[Targets[i]] >= Threshold]_vars

(* The state of an endpoint, kept across rounds, agrees with what the      *)
(* probes have seen since its last good answer: it is UP as long as there  *)
(* was neither a threshold of failures nor a TLS failure, and not longer.  *)
StateAgrees ==
  \A u \in Urls : state[u] = "UP" <=> count[u] < Threshold /\ u \notin tls

(* A round that is over has queued and recorded all it found: a finding    *)
(* that could not be persisted stops the watcher, it is not skipped.       *)
NothingSkipped ==
  pc = "wait" =>
    {i \in Slots : result[i] \in Findings} \subseteq queued \cap stored

(* No record is written for a finding the correlator can not get.          *)
RecordedIsQueued == stored \subseteq queued

(* A probe that found something is reported, unless the watcher ends.      *)
FindingReported ==
  \A i \in Slots : result[i] \in Findings ~> i \in queued \/ pc \in Halted
=============================================================================
