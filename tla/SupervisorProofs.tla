-------------------------- MODULE SupervisorProofs --------------------------
(***************************************************************************)
(* Theorems about Supervisor, for any set of worker threads.               *)
(***************************************************************************)
EXTENDS Supervisor, TLAPS

(* A thread that raised has recorded a failure by the time it is past      *)
(* RecordFailure.                                                          *)
FailuresRecorded ==
  /\ \A t \in Threads : t \in died => thread[t] \notin {"new", "running"}
  /\ \A t \in Threads :
       t \in died /\ thread[t] # "raised" => failure # Nobody
  /\ Api \in died => failure # Nobody

(* main() is done with a thread that has ended, or has given it up. *)
ThreadsJoined ==
  /\ main \in {"begin", "start", "await", "cancel"} => left = Threads
  /\ main \in {"join"} \cup Exits =>
       \A t \in Threads : t \in left \cup late \/ thread[t] = "ended"
  /\ main \in Exits => left = {}

(* The threads are started after bind_async. *)
BoundFirst ==
  /\ main # "begin" => bound
  /\ main = "begin" => ~stop /\ \A t \in Threads : thread[t] = "new"

SupervisionInv ==
  /\ TypeOK
  /\ FailuresRecorded
  /\ ThreadsJoined
  /\ BoundFirst
  /\ CleanExitHadNoFailure
  /\ WakeUpNotLost
----------------------------------------------------------------------------
LEMMA InitInv == Init => SupervisionInv
<1> SUFFICES ASSUME Init PROVE SupervisionInv
  OBVIOUS
<1>1. TypeOK
  BY DEF Init, TypeOK
<1> QED
  BY <1>1 DEF Init, SupervisionInv, FailuresRecorded, ThreadsJoined, BoundFirst,
     CleanExitHadNoFailure, WakeUpNotLost, Exits

(* The steps of one thread. *)
LEMMA ThreadStep ==
  ASSUME SupervisionInv, NEW t \in Threads,
         Return(t) \/ Raise(t) \/ Fail(t) \/ StartThread(t)
  PROVE  SupervisionInv'
<1> USE ComponentAssumption DEF SupervisionInv, Advance, flags, history, Exits
<1>1. CASE Return(t)
  BY <1>1 DEF Return, TypeOK, FailuresRecorded, ThreadsJoined, BoundFirst,
     CleanExitHadNoFailure, WakeUpNotLost
<1>2. CASE Raise(t)
  <2>1. TypeOK'
    BY <1>2 DEF Raise, TypeOK
  <2>2. FailuresRecorded' /\ BoundFirst' /\ WakeUpNotLost'
    BY <1>2 DEF Raise, TypeOK, FailuresRecorded, BoundFirst, WakeUpNotLost
  <2>3. ThreadsJoined'
    BY <1>2 DEF Raise, TypeOK, ThreadsJoined
  <2>4. CleanExitHadNoFailure'
    BY <1>2 DEF Raise, TypeOK, ThreadsJoined, CleanExitHadNoFailure
  <2> QED
    BY <2>1, <2>2, <2>3, <2>4
<1>3. CASE RecordFailure(t)
  <2>1. failure' # Nobody
    BY <1>3 DEF RecordFailure, Record
  <2>2. TypeOK'
    BY <1>3 DEF RecordFailure, Record, TypeOK
  <2>3. FailuresRecorded' /\ BoundFirst' /\ WakeUpNotLost'
    BY <1>3, <2>1 DEF RecordFailure, TypeOK, FailuresRecorded, BoundFirst, WakeUpNotLost
  <2>4. ThreadsJoined' /\ CleanExitHadNoFailure'
    BY <1>3 DEF RecordFailure, TypeOK, ThreadsJoined, CleanExitHadNoFailure
  <2> QED
    BY <2>2, <2>3, <2>4
<1>4. CASE SetStop(t)
  BY <1>4 DEF SetStop, TypeOK, FailuresRecorded, ThreadsJoined, BoundFirst,
     CleanExitHadNoFailure, WakeUpNotLost
<1>5. CASE Trigger(t)
  <2>1. main \in {"start", "await"} => wake'
    BY <1>5 DEF Trigger, WakeLoop, BoundFirst
  <2>2. TypeOK'
    BY <1>5 DEF Trigger, WakeLoop, TypeOK
  <2>3. FailuresRecorded' /\ BoundFirst' /\ WakeUpNotLost'
    BY <1>5, <2>1 DEF Trigger, TypeOK, FailuresRecorded, BoundFirst, WakeUpNotLost
  <2>4. ThreadsJoined' /\ CleanExitHadNoFailure'
    BY <1>5 DEF Trigger, TypeOK, ThreadsJoined, CleanExitHadNoFailure
  <2> QED
    BY <2>2, <2>3, <2>4
<1>6. CASE StartThread(t)
  BY <1>6 DEF StartThread, TypeOK, FailuresRecorded, ThreadsJoined, BoundFirst,
     CleanExitHadNoFailure, WakeUpNotLost
<1> QED
  BY <1>1, <1>2, <1>3, <1>4, <1>5, <1>6 DEF Fail

(* What the loop runs while main() is suspended. *)
LEMMA LoopStep ==
  ASSUME SupervisionInv, EventLoop \/ Signal
  PROVE  SupervisionInv'
<1> USE ComponentAssumption DEF SupervisionInv, flags, history, Exits, Suspended
<1>1. CASE RunCallback
  BY <1>1 DEF RunCallback, TypeOK, FailuresRecorded, ThreadsJoined, BoundFirst,
     CleanExitHadNoFailure, WakeUpNotLost
<1>2. CASE ApiFail
  <2>1. failure' # Nobody /\ (failure # Nobody => failure' = failure)
    BY <1>2 DEF ApiFail, Record
  <2>2. wake'
    BY <1>2 DEF ApiFail, WakeLoop, BoundFirst
  <2>3. TypeOK'
    BY <1>2 DEF ApiFail, Record, WakeLoop, TypeOK
  <2> QED
    BY <1>2, <2>1, <2>2, <2>3 DEF ApiFail, FailuresRecorded, ThreadsJoined,
       BoundFirst, CleanExitHadNoFailure, WakeUpNotLost
<1>3. CASE ApiEnd
  BY <1>3 DEF ApiEnd, TypeOK, FailuresRecorded, ThreadsJoined, BoundFirst,
     CleanExitHadNoFailure, WakeUpNotLost
<1>4. CASE Signal
  <2>1. wake'
    BY <1>4 DEF Signal, WakeLoop, BoundFirst
  <2>2. TypeOK'
    BY <1>4 DEF Signal, WakeLoop, TypeOK
  <2> QED
    BY <1>4, <2>1, <2>2 DEF Signal, FailuresRecorded, ThreadsJoined,
       BoundFirst, CleanExitHadNoFailure, WakeUpNotLost
<1> QED
  BY <1>1, <1>2, <1>3, <1>4 DEF EventLoop

(* The steps of main(). *)
LEMMA MainStep ==
  ASSUME SupervisionInv, Main \/ \E t \in Threads : Join(t)
  PROVE  SupervisionInv'
<1> USE ComponentAssumption DEF SupervisionInv, flags, history, Exits
<1>1. CASE Bind
  BY <1>1 DEF Bind, TypeOK, FailuresRecorded, ThreadsJoined, BoundFirst,
     CleanExitHadNoFailure, WakeUpNotLost
<1>2. CASE CreateTask
  BY <1>2 DEF CreateTask, TypeOK, FailuresRecorded, ThreadsJoined, BoundFirst,
     CleanExitHadNoFailure, WakeUpNotLost
<1>3. CASE StopAll
  BY <1>3 DEF StopAll, TypeOK, FailuresRecorded, ThreadsJoined, BoundFirst,
     CleanExitHadNoFailure, WakeUpNotLost
<1>4. CASE TaskAwaited
  BY <1>4 DEF TaskAwaited, TypeOK, FailuresRecorded, ThreadsJoined, BoundFirst,
     CleanExitHadNoFailure, WakeUpNotLost
<1>5. CASE Exit
  BY <1>5 DEF Exit, TypeOK, FailuresRecorded, ThreadsJoined, BoundFirst,
     CleanExitHadNoFailure, WakeUpNotLost
<1>6. ASSUME NEW t \in Threads, Join(t) PROVE SupervisionInv'
  BY <1>6 DEF Join, TypeOK, FailuresRecorded, ThreadsJoined, BoundFirst,
     CleanExitHadNoFailure, WakeUpNotLost
<1> QED
  BY <1>1, <1>2, <1>3, <1>4, <1>5, <1>6 DEF Main

(* One step per action of the specification. *)
LEMMA InvStep == SupervisionInv /\ [Next]_vars => SupervisionInv'
<1> SUFFICES ASSUME SupervisionInv, [Next]_vars PROVE SupervisionInv'
  OBVIOUS
<1>1. ASSUME NEW t \in Threads,
             Return(t) \/ Raise(t) \/ Fail(t) \/ StartThread(t)
      PROVE  SupervisionInv'
  BY <1>1, ThreadStep
<1>2. CASE Main \/ \E t \in Threads : Join(t)
  BY <1>2, MainStep
<1>3. CASE EventLoop \/ Signal
  BY <1>3, LoopStep
<1>4. CASE UNCHANGED vars
  BY <1>4 DEF vars, flags, history, SupervisionInv, TypeOK, FailuresRecorded,
     ThreadsJoined, BoundFirst, CleanExitHadNoFailure, WakeUpNotLost
<1> QED
  BY <1>1, <1>2, <1>3, <1>4 DEF Next, Done

(* The inductive invariant: how the failures, the joins and the wake-ups   *)
(* of _ShutdownController and main() depend on each other.                 *)
THEOREM Supervised == Spec => []SupervisionInv
<1>1. Spec => Init /\ [][Next]_vars
  BY DEF Spec
<1> QED
  BY <1>1, InitInv, InvStep, PTL

(* Every state is of the declared type. *)
THEOREM TypeCorrect == Spec => []TypeOK
<1>1. SupervisionInv => TypeOK
  BY DEF SupervisionInv
<1> QED
  BY <1>1, Supervised, PTL

(* main() exits as if all were well only if no component failed, but for   *)
(* the threads it had given up waiting for.                                *)
THEOREM CleanExit == Spec => []CleanExitHadNoFailure
<1>1. SupervisionInv => CleanExitHadNoFailure
  BY DEF SupervisionInv
<1> QED
  BY <1>1, Supervised, PTL

(* While main() waits, whoever has set the threading event has woken the   *)
(* loop or is about to.                                                    *)
THEOREM NoLostWakeUp == Spec => []WakeUpNotLost
<1>1. SupervisionInv => WakeUpNotLost
  BY DEF SupervisionInv
<1> QED
  BY <1>1, Supervised, PTL
=============================================================================
