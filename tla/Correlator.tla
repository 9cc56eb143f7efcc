---------------------------- MODULE Correlator ----------------------------
(***************************************************************************)
(* The correlate() loop: findings arrive over a Redis list, wait in two    *)
(* bounded buffers, one for each source, and leave them in pairs.          *)
(*                                                                         *)
(* The producers push with _with_retry, the loop pops with _with_retry:    *)
(* a reply lost on the way makes a second copy of a finding, or takes one  *)
(* out of the queue that nobody receives.  What happens to a pair once it  *)
(* is found is the subject of AlertPipeline; here it has two outcomes.     *)
(***************************************************************************)
EXTENDS Integers, FiniteSets, Sequences

CONSTANTS
  ApiFindings,    \* findings of source "api"
  CodeFindings,   \* findings of source "code"
  OtherFindings,  \* malformed payloads and findings of another source
  Related,        \* the pairs for which _findings_share_scope, time apart
  MaxSize,        \* settings.correlator.buffer_max_size
  Window,         \* settings.correlator.correlation_window_secs, in ticks
  MaxAttempts,    \* max_attempts of _with_retry
  Faults          \* the failures that may happen

Findings == ApiFindings \cup CodeFindings \cup OtherFindings

FaultKinds == {"push_request", "push_reply", "pop_reply", "crash"}

ASSUME FindingAssumption ==
  /\ ApiFindings \cap CodeFindings = {}
  /\ OtherFindings \cap (ApiFindings \cup CodeFindings) = {}
  /\ Related \subseteq ApiFindings \X CodeFindings
ASSUME SettingsAssumption ==
  /\ MaxSize \in Nat \ {0}
  /\ Window \in Nat \ {0}
  /\ MaxAttempts \in Nat \ {0}
ASSUME FaultAssumption == Faults \subseteq FaultKinds

VARIABLES
  tries,     \* tries[f]: attempts the producer of f has left
  age,       \* age[f]: ticks since the timestamp of f, up to Window
  queue,     \* the Redis list; its head is the end BRPOP takes from
  pc,        \* where the loop is
  arrivals,  \* how many findings were added to a buffer
  api, code, \* the buffers: findings with the number of their arrival
  todo,      \* api entries the outer loop of find_matches has yet to see
  matches,   \* the pairs it has found, then those left to handle
  added,     \* history: copies of each finding that were added to a buffer
  alerts     \* history: alerts each finding has been part of

producer == <<tries, age>>
buffers == <<arrivals, api, code>>
history == <<added, alerts>>
vars == <<tries, age, queue, pc, arrivals, api, code, todo, matches, added,
          alerts>>

----------------------------------------------------------------------------
Entries(F) == [finding : F, n : Nat]

TypeOK ==
  /\ tries \in [Findings -> 0..MaxAttempts]
  /\ age \in [Findings -> 0..Window]
  /\ queue \in Seq(Findings)
  /\ pc \in {"pop", "match", "scan", "handle"}
  /\ arrivals \in Nat
  /\ api \in SUBSET Entries(ApiFindings)
  /\ code \in SUBSET Entries(CodeFindings)
  /\ todo \in SUBSET Entries(ApiFindings)
  /\ matches \in Seq(Entries(ApiFindings) \X Entries(CodeFindings))
  /\ added \in [Findings -> Nat]
  /\ alerts \in [Findings -> Nat]

Init ==
  /\ tries = [f \in Findings |-> MaxAttempts]
  /\ age = [f \in Findings |-> 0]
  /\ queue = <<>>
  /\ pc = "pop"
  /\ arrivals = 0
  /\ api = {} /\ code = {} /\ todo = {} /\ matches = <<>>
  /\ added = [f \in Findings |-> 0]
  /\ alerts = [f \in Findings |-> 0]

----------------------------------------------------------------------------
(* The producers and the clock *)

(* One attempt of push_finding.  A finding is pushed once, but its LPUSH   *)
(* is sent again when the request or the reply got lost; the producer of   *)
(* a finding that has no attempt left fails.                               *)
Push(f) ==
  /\ tries[f] > 0
  /\ \/ /\ queue' = Append(queue, f)
        /\ tries' = [tries EXCEPT ![f] = 0]
     \/ /\ "push_reply" \in Faults
        /\ queue' = Append(queue, f)
        /\ tries' = [tries EXCEPT ![f] = @ - 1]
     \/ /\ "push_request" \in Faults
        /\ tries' = [tries EXCEPT ![f] = @ - 1]
        /\ UNCHANGED queue
  /\ UNCHANGED <<age, pc, buffers, todo, matches, history>>

(* Findings age from the moment they are made. *)
Tick ==
  /\ age' = [f \in Findings |->
               IF tries[f] < MaxAttempts /\ age[f] < Window
                 THEN age[f] + 1 ELSE age[f]]
  /\ age' # age
  /\ UNCHANGED <<tries, queue, pc, buffers, todo, matches, history>>

----------------------------------------------------------------------------
(* The loop: consume one finding *)

Oldest(S) == CHOOSE e \in S : \A d \in S : e.n <= d.n

(* Fault: a list without a maximal length. *)
AppendUnbounded(buffer, e) == buffer \cup {e}

(* deque(maxlen=MaxSize).append: a full buffer drops its oldest entry.     *)
AppendTo(buffer, e) ==
  (IF Cardinality(buffer) < MaxSize THEN buffer ELSE buffer \ {Oldest(buffer)})
    \cup {e}

(* Fault: the two sources are mixed up. *)
ReceiveSwapped ==
  LET f == Head(queue)
      e == [finding |-> f, n |-> arrivals]
  IN  /\ pc = "pop" /\ queue # <<>>
      /\ queue' = Tail(queue)
      /\ pc' = "match" /\ arrivals' = arrivals + 1
      /\ code' = IF f \in ApiFindings THEN AppendTo(code, e) ELSE code
      /\ api' = IF f \in CodeFindings THEN AppendTo(api, e) ELSE api
      /\ added' = [added EXCEPT ![f] = @ + 1]
      /\ UNCHANGED <<producer, todo, matches, alerts>>

(* BRPOP came back with a finding: buffer.add, unless it is malformed or   *)
(* of another source.                                                      *)
Receive ==
  LET f == Head(queue)
      e == [finding |-> f, n |-> arrivals]
  IN  /\ pc = "pop" /\ queue # <<>>
      /\ queue' = Tail(queue)
      /\ api' = IF f \in ApiFindings THEN AppendTo(api, e) ELSE api
      /\ code' = IF f \in CodeFindings THEN AppendTo(code, e) ELSE code
      /\ IF f \in OtherFindings
           THEN UNCHANGED <<pc, arrivals, added>>
           ELSE /\ pc' = "match"
                /\ arrivals' = arrivals + 1
                /\ added' = [added EXCEPT ![f] = @ + 1]
      /\ UNCHANGED <<producer, todo, matches, alerts>>

(* Redis has popped the finding, but the reply is lost: the retry of the   *)
(* BRPOP, or the next round of the loop, gets the finding after it.        *)
LosePop ==
  /\ "pop_reply" \in Faults
  /\ pc = "pop" /\ queue # <<>>
  /\ queue' = Tail(queue)
  /\ UNCHANGED <<producer, pc, buffers, todo, matches, history>>

(* BRPOP timed out or failed for good: the loop starts over.               *)
PopNothing ==
  /\ pc = "pop" /\ queue = <<>>
  /\ UNCHANGED vars

----------------------------------------------------------------------------
(* find_matches *)

Fresh(buffer) == {e \in buffer : age[e.finding] < Window}

(* Fault: the loop runs over the buffer as it was before the eviction. *)
EvictAside ==
  /\ pc = "match"
  /\ pc' = "scan"
  /\ api' = Fresh(api)
  /\ code' = Fresh(code)
  /\ todo' = api
  /\ UNCHANGED <<producer, queue, arrivals, matches, history>>

(* Evict the expired entries; the outer loop starts.                       *)
Evict ==
  /\ pc = "match"
  /\ pc' = "scan"
  /\ api' = Fresh(api)
  /\ code' = Fresh(code)
  /\ todo' = Fresh(api)
  /\ UNCHANGED <<producer, queue, arrivals, matches, history>>

(* used_api and used_code: a finding is used once in a pass.               *)
Used(f) ==
  \E i \in 1..Len(matches) :
    f = matches[i][1].finding \/ f = matches[i][2].finding

(* One iteration of the outer loop: the oldest api entry not yet seen      *)
(* takes the oldest code entry that shares its scope.                      *)
Scan ==
  LET a == Oldest(todo)
      partners == {c \in code : /\ <<a.finding, c.finding>> \in Related
                                /\ ~Used(c.finding)}
  IN  /\ pc = "scan" /\ todo # {}
      /\ todo' = todo \ {a}
      /\ matches' = IF partners = {} \/ Used(a.finding) THEN matches
                    ELSE Append(matches, <<a, Oldest(partners)>>)
      /\ UNCHANGED <<producer, queue, pc, buffers, history>>

EndScan ==
  /\ pc = "scan" /\ todo = {}
  /\ pc' = "handle"
  /\ UNCHANGED <<producer, queue, buffers, todo, matches, history>>

----------------------------------------------------------------------------
(* The loop over the matches *)

(* Fault: nothing is removed. *)
WithoutNothing(buffer, f) == buffer

(* deque.remove: the first entry that equals f, if there is one.           *)
Without(buffer, f) ==
  LET copies == {e \in buffer : e.finding = f}
  IN  IF copies = {} THEN buffer ELSE buffer \ {Oldest(copies)}

(* Fault: a match of low confidence stays in the buffers. *)
HandleKeepsUnlikely ==
  LET a == Head(matches)[1].finding
      c == Head(matches)[2].finding
  IN  /\ pc = "handle" /\ matches # <<>>
      /\ matches' = Tail(matches)
      /\ \/ /\ api' = Without(api, a)
            /\ code' = Without(code, c)
            /\ alerts' = [alerts EXCEPT ![a] = @ + 1, ![c] = @ + 1]
         \/ UNCHANGED <<api, code, alerts>>
      /\ UNCHANGED <<producer, queue, pc, arrivals, todo, added>>

(* Whatever becomes of a match (low confidence, a cooldown, an error, a    *)
(* notification), remove_pair takes both findings out of the buffers.      *)
HandleMatch ==
  LET a == Head(matches)[1].finding
      c == Head(matches)[2].finding
  IN  /\ pc = "handle" /\ matches # <<>>
      /\ matches' = Tail(matches)
      /\ api' = Without(api, a)
      /\ code' = Without(code, c)
      /\ \/ alerts' = [alerts EXCEPT ![a] = @ + 1, ![c] = @ + 1]
         \/ UNCHANGED alerts          \* confidence below min_confidence
      /\ UNCHANGED <<producer, queue, pc, arrivals, todo, added>>

EndPass ==
  /\ pc = "handle" /\ matches = <<>>
  /\ pc' = "pop"
  /\ UNCHANGED <<producer, queue, buffers, todo, matches, history>>

(* The thread dies (new_correlated_alert raises, or the process is killed) *)
(* and the restarted one begins with empty buffers.                        *)
Crash ==
  /\ "crash" \in Faults
  /\ pc' = "pop"
  /\ api' = {} /\ code' = {} /\ todo' = {} /\ matches' = <<>>
  /\ UNCHANGED <<producer, queue, arrivals, history>>

----------------------------------------------------------------------------
Loop ==
  Receive \/ LosePop \/ PopNothing \/ Evict \/ Scan \/ EndScan \/ HandleMatch
    \/ EndPass

Next == (\E f \in Findings : Push(f)) \/ Tick \/ Loop \/ Crash

(* The thread keeps running: BRPOP, and every call made for a match,       *)
(* returns or times out.                                                   *)
Fairness == WF_vars(Loop)

Spec == Init /\ [][Next]_vars /\ Fairness

----------------------------------------------------------------------------
(* Properties *)

(* Between two passes no finding waits beside one that shares its scope:   *)
(* the pass after an arrival pairs it if it can be paired at all, so that  *)
(* no finding has to be looked at again before the next arrival            *)
(* (find_matches and remove_pair).                                         *)
NoPairWaiting ==
  pc = "pop" =>
    \A a \in api, c \in code : <<a.finding, c.finding>> \notin Related

(* A pass comes up with one match at most, which has the newest finding in *)
(* it, so that the handling of one match can not invalidate the next: the  *)
(* code uses a finding once in a pass (used_api, used_code), and all that  *)
(* waited before the newest arrived was paired already.  The docstring of  *)
(* find_matches says "all (api, code) pairs that match" instead: of two    *)
(* pairs with a finding in common the code takes one.  The theorems about  *)
(* the loop rest on this.                                                  *)
OneMatchPerPass ==
  /\ Len(matches) <= 1
  /\ \A i \in 1..Len(matches) :
       matches[i][1].n = arrivals - 1 \/ matches[i][2].n = arrivals - 1

(* What is about to be handled is still in the buffers, so that            *)
(* remove_pair removes it: no finding is paired and kept.                  *)
MatchIsBuffered ==
  \A i \in 1..Len(matches) : matches[i][1] \in api /\ matches[i][2] \in code

(* The buffers never outgrow buffer_max_size. *)
BuffersBounded == Cardinality(api) <= MaxSize /\ Cardinality(code) <= MaxSize

(* No finding is part of more alerts than copies of it came in: one, when  *)
(* no LPUSH was repeated.                                                  *)
OneAlertPerCopy == \A f \in Findings : alerts[f] <= added[f]
=============================================================================
