---------------------------- MODULE Supervisor ----------------------------
(***************************************************************************)
(* main(): the event loop starts the worker threads and the API watcher's  *)
(* task, waits for a signal or a failure, and stops everything.  A thread  *)
(* that raises goes through _ShutdownController.fail: it records the       *)
(* failure, sets the threading event, then asks the loop to set the        *)
(* asyncio event; the other threads and main() run between these steps.    *)
(***************************************************************************)
EXTENDS FiniteSets

CONSTANTS
  Threads,    \* "correlator", "code-watcher" and "health"
  Api,        \* "api-watcher", a task of the loop
  Nobody      \* no component has failed

ASSUME ComponentAssumption ==
  /\ IsFiniteSet(Threads)
  /\ Api \notin Threads /\ Nobody \notin Threads \cup {Api}

VARIABLES
  main,       \* how far main() has come
  thread,     \* thread[t]: how far the thread t has come
  api,        \* how far the API watcher's task has come
  bound,      \* bind_async was called
  stop,       \* _stop_event is set
  wake,       \* call_soon_threadsafe(_async_event.set) is due
  asyncStop,  \* _async_event is set
  failure,    \* _failure: the component, or Nobody
  left,       \* the threads that main() has yet to join
  late,       \* history: the threads that main() has stopped waiting for
  died        \* history: the components that raised

flags == <<bound, stop, wake, asyncStop>>
history == <<late, died>>
vars == <<main, thread, api, flags, failure, left, history>>

Exits == {"clean", "failed"}

TypeOK ==
  /\ main \in {"begin", "start", "await", "cancel", "join"} \cup Exits
  /\ thread \in [Threads -> {"new", "running", "raised", "recorded",
                             "stopping", "ended"}]
  /\ api \in {"new", "running", "cancelled", "done"}
  /\ <<bound, stop, wake, asyncStop>> \in BOOLEAN \X BOOLEAN \X BOOLEAN \X BOOLEAN
  /\ failure \in Threads \cup {Api, Nobody}
  /\ left \subseteq Threads /\ late \subseteq Threads
  /\ died \subseteq Threads \cup {Api}

Init ==
  /\ main = "begin"
  /\ thread = [t \in Threads |-> "new"]
  /\ api = "new"
  /\ bound = FALSE /\ stop = FALSE /\ wake = FALSE /\ asyncStop = FALSE
  /\ failure = Nobody
  /\ left = Threads /\ late = {} /\ died = {}

----------------------------------------------------------------------------
(* _ShutdownController and _thread_runner *)

Advance(t, from, to) ==
  /\ thread[t] = from
  /\ thread' = [thread EXCEPT ![t] = to]

(* Fault: all failures are collected. *)
RecordAll(c) == failure' = IF failure = Nobody THEN c ELSE {failure, c}

(* The first failure is kept. *)
Record(c) == failure' = IF failure = Nobody THEN c ELSE failure

(* Fault: the event is set from the thread, and the loop sleeps on. *)
WakeNothing == wake' = wake

(* Once main() is through, the loop is closed: call_soon_threadsafe raises *)
(* RuntimeError, which trigger ignores.                                    *)
WakeLoop == wake' = (wake \/ (bound /\ main \notin Exits))

(* target(stop_event) returns: the loop of each worker ends only when the  *)
(* event is set.                                                           *)
Return(t) ==
  /\ stop
  /\ Advance(t, "running", "ended")
  /\ UNCHANGED <<main, api, flags, failure, left, history>>

Raise(t) ==
  /\ Advance(t, "running", "raised")
  /\ died' = died \cup {t}
  /\ UNCHANGED <<main, api, flags, failure, left, late>>

RecordFailure(t) ==
  /\ Advance(t, "raised", "recorded")
  /\ Record(t)
  /\ UNCHANGED <<main, api, flags, left, history>>

SetStop(t) ==
  /\ Advance(t, "recorded", "stopping")
  /\ stop' = TRUE
  /\ UNCHANGED <<main, api, bound, wake, asyncStop, failure, left, history>>

Trigger(t) ==
  /\ Advance(t, "stopping", "ended")
  /\ WakeLoop
  /\ UNCHANGED <<main, api, bound, stop, asyncStop, failure, left, history>>

Fail(t) == RecordFailure(t) \/ SetStop(t) \/ Trigger(t)

----------------------------------------------------------------------------
(* The event loop: what runs while main() is suspended *)

Suspended == main \in {"await", "cancel"}

(* SIGINT or SIGTERM. *)
Signal ==
  /\ Suspended
  /\ stop' = TRUE
  /\ WakeLoop
  /\ UNCHANGED <<main, thread, api, bound, asyncStop, failure, left, history>>

RunCallback ==
  /\ Suspended /\ wake
  /\ wake' = FALSE
  /\ asyncStop' = TRUE
  /\ UNCHANGED <<main, thread, api, bound, stop, failure, left, history>>

(* _run_api_watcher catches what watch() raises; fail() runs on the loop,  *)
(* in one go as far as main() is concerned.                                *)
ApiFail ==
  /\ Suspended /\ api \in {"running", "cancelled"}
  /\ api' = "done"
  /\ died' = died \cup {Api}
  /\ Record(Api)
  /\ stop' = TRUE
  /\ WakeLoop
  /\ UNCHANGED <<main, thread, bound, asyncStop, left, late>>

(* watch() returns when it sees the asyncio event, or CancelledError ends  *)
(* it.                                                                     *)
ApiEnd ==
  /\ Suspended
  /\ api = "cancelled" \/ (api = "running" /\ asyncStop)
  /\ api' = "done"
  /\ UNCHANGED <<main, thread, flags, failure, left, history>>

----------------------------------------------------------------------------
(* main() *)

Bind ==
  /\ main = "begin"
  /\ main' = "start"
  /\ bound' = TRUE
  /\ UNCHANGED <<thread, api, stop, wake, asyncStop, failure, left, history>>

(* Fault: the threads are started before bind_async. *)
StartUnbound(t) ==
  /\ main \in {"begin", "start"}
  /\ Advance(t, "new", "running")
  /\ UNCHANGED <<main, api, flags, failure, left, history>>

StartThread(t) ==
  /\ main = "start"
  /\ Advance(t, "new", "running")
  /\ UNCHANGED <<main, api, flags, failure, left, history>>

CreateTask ==
  /\ main = "start" /\ \A t \in Threads : thread[t] # "new"
  /\ main' = "await"
  /\ api' = "running"
  /\ UNCHANGED <<thread, flags, failure, left, history>>

(* async_stop.wait() returns: set the threads' event and cancel the task.  *)
StopAll ==
  /\ main = "await" /\ asyncStop
  /\ main' = "cancel"
  /\ stop' = TRUE
  /\ api' = IF api = "done" THEN "done" ELSE "cancelled"
  /\ UNCHANGED <<thread, bound, wake, asyncStop, failure, left, history>>

(* wait_for(api_task) returns: at its timeout it cancels the task again    *)
(* and waits for that, so that the task is done either way.                *)
TaskAwaited ==
  /\ main = "cancel" /\ api = "done"
  /\ main' = "join"
  /\ UNCHANGED <<thread, api, flags, failure, left, history>>

(* Fault: join() without a timeout. *)
JoinForEver(t) ==
  /\ main = "join" /\ t \in left /\ thread[t] = "ended"
  /\ left' = left \ {t}
  /\ UNCHANGED <<main, thread, api, flags, failure, history>>

(* thread.join(timeout=10.0), thread after thread. *)
Join(t) ==
  /\ main = "join" /\ t \in left
  /\ left' = left \ {t}
  /\ late' = IF thread[t] = "ended" THEN late ELSE late \cup {t}
  /\ UNCHANGED <<main, thread, api, flags, failure, died>>

(* Fault: the failure is read before the threads are joined. *)
ExitUnjoined ==
  /\ main = "join"
  /\ main' = IF failure = Nobody THEN "clean" ELSE "failed"
  /\ UNCHANGED <<thread, api, flags, failure, left, history>>

Exit ==
  /\ main = "join" /\ left = {}
  /\ main' = IF failure = Nobody THEN "clean" ELSE "failed"
  /\ UNCHANGED <<thread, api, flags, failure, left, history>>

Main == Bind \/ CreateTask \/ StopAll \/ TaskAwaited \/ Exit

EventLoop == RunCallback \/ ApiFail \/ ApiEnd

----------------------------------------------------------------------------
Ended == main \in Exits /\ \A t \in Threads : thread[t] = "ended"

(* The process ends with its last thread: none of them is a daemon. *)
Done == Ended /\ UNCHANGED vars

Next ==
  \/ \E t \in Threads : Return(t) \/ Raise(t) \/ Fail(t) \/ StartThread(t) \/ Join(t)
  \/ Main \/ EventLoop \/ Signal \/ Done

(* The interpreter runs every thread, a join times out, and the API        *)
(* watcher's task reaches an await after it was cancelled.  Nothing is     *)
(* said of a worker that is at work.                                       *)
Fairness ==
  /\ WF_vars(Main) /\ WF_vars(RunCallback) /\ WF_vars(ApiEnd)
  /\ \A t \in Threads :
       WF_vars(Fail(t)) /\ WF_vars(StartThread(t)) /\ WF_vars(Join(t))

Spec == Init /\ [][Next]_vars /\ Fairness

(* Every worker comes round to its loop's condition. *)
Responsive == \A t \in Threads : WF_vars(Return(t))

----------------------------------------------------------------------------
(* Properties *)

(* A program that exits as if all were well had no failure, but for that   *)
(* of a thread it had given up waiting for: main() reads the failure after *)
(* the joins, and a thread records its failure before it ends.             *)
CleanExitHadNoFailure == main = "clean" => died \subseteq late

(* No request to stop is lost: while main() waits, a set threading event   *)
(* has woken the loop or a thread is about to, even if the thread failed   *)
(* before main() began to wait (bind_async comes before thread.start).     *)
WakeUpNotLost ==
  stop /\ main \in {"start", "await"} =>
    asyncStop \/ wake \/ \E t \in Threads : thread[t] = "stopping"

(* A failure ends main(), whatever the other workers are doing.            *)
FailureEndsMain == \A c \in Threads \cup {Api} : c \in died ~> main \in Exits

(* A request to stop ends the process, if the workers look at the event.   *)
StopEndsProcess == Responsive => (stop ~> Ended)
=============================================================================
