---------------------------- MODULE CodeWatcher ----------------------------
(***************************************************************************)
(* The code watcher: a first scan of the tree, and then either the events  *)
(* of an observer, handled on its thread, or a walk over the tree every    *)
(* minute.  A table of hashes tells which files have changed.              *)
(*                                                                         *)
(* The hash and the scan read a file one after the other, and the files    *)
(* are edited, deleted and restored at any time: before, between and       *)
(* during the two.  The hash stays on record whatever becomes of the scan, *)
(* which swallows the exceptions of the scanners.                          *)
(***************************************************************************)
EXTENDS Integers, Sequences, FiniteSets

CONSTANTS
  Files,        \* the paths that are not ignored and have a watched suffix
  MaxVersion,   \* how many contents a file may have
  MaxEdits,     \* how many changes are made to the files: bounds the events
  MaxTracked,   \* MAX_TRACKED_FILES
  Modes,        \* subset of {"watchdog", "polling"}
  StartScans,   \* the values of cfg.scan_on_start
  FaultSets     \* the failures and ways to edit that may happen together

FaultKinds == {"emit", "read", "scan", "rename", "restore", "observer"}

(* Those that lose a content under its hash: a file that can not be read   *)
(* after it was hashed, a scanner that raises, and a content that comes    *)
(* back after another one was scanned in its place.                        *)
LosingFaults == {"read", "scan", "restore"}

ASSUME BoundAssumption ==
  MaxVersion \in Nat \ {0} /\ MaxEdits \in Nat /\ MaxTracked \in Nat \ {0}
ASSUME ModeAssumption ==
  Modes \subseteq {"watchdog", "polling"} /\ StartScans \subseteq BOOLEAN
ASSUME FaultAssumption == FaultSets \subseteq SUBSET FaultKinds

Absent == 0        \* the content of a file that does not exist
Unreadable == -1   \* what _read_file_snapshot gives when it raises OSError

VARIABLES
  mode,      \* WATCHDOG_AVAILABLE
  faults,    \* what may go wrong in this behaviour
  content,   \* content[f]: the version of f on disk
  newest,    \* newest[f]: the highest version that f has had
  edits,     \* changes made to the files so far
  events,    \* the observer's queue: [file, created]
  hashes,    \* _file_hashes: [file, version], least recently used first
  main,      \* what watch() is doing
  left,      \* the files scan_directory has yet to come to
  full,      \* the walk is the initial scan: of unchanged files, too
  job,       \* the file that is being handled
  scanned,   \* history: versions of a file whose findings were all emitted
  missed,    \* history: versions that were lost: their hash was on record
             \* when a scan of the file ended that found nothing in them
  broken,    \* the handler has recorded a failure
  alive      \* the observer, if it was started, is

table == <<hashes, scanned, missed>>
given == <<mode, faults>>
loop == <<given, main, left, full, broken, alive>>
disk == <<content, newest, edits>>
vars == <<disk, events, table, loop, job>>

Lossless == LosingFaults \cap faults = {}

Versions == 1..MaxVersion
Halted == {"failed", "stopped"}

Idle == [step |-> "idle"]
Jobs ==
  [step : {"hash", "announce", "read", "emit"}, file : Files,
   by : {"walk", "created", "modified"},
   seen : SUBSET (Versions \cup {Absent}),  \* contents since the step began
   version : Versions \cup {Absent}]        \* the one that was scanned

TypeOK ==
  /\ mode \in Modes /\ faults \in FaultSets
  /\ content \in [Files -> Versions \cup {Absent}]
  /\ newest \in [Files -> Versions \cup {Absent}]
  /\ events \in Seq([file : Files, created : BOOLEAN])
  /\ hashes \in Seq([file : Files, version : Versions])
  /\ Len(hashes) <= MaxTracked
  /\ main \in {"walk", "observe", "sleep"} \cup Halted
  /\ left \subseteq Files
  /\ full \in BOOLEAN /\ broken \in BOOLEAN /\ alive \in BOOLEAN
  /\ edits \in 0..MaxEdits
  /\ job \in {Idle} \cup Jobs
  /\ scanned \in [Files -> SUBSET Versions]
  /\ missed \in [Files -> SUBSET Versions]

Init ==
  /\ mode \in Modes /\ faults \in FaultSets
  /\ content \in [Files -> {Absent, 1}] /\ newest = content /\ edits = 0
  /\ events = <<>> /\ hashes = <<>>
  /\ full \in StartScans
  /\ main = IF full \/ mode = "polling" THEN "walk" ELSE "observe"
  /\ left = IF full \/ mode = "polling" THEN Files ELSE {}
  /\ job = Idle
  /\ scanned = [f \in Files |-> {}] /\ missed = [f \in Files |-> {}]
  /\ broken = FALSE /\ alive = TRUE

----------------------------------------------------------------------------
(* The world: files are created, modified and deleted *)

Observing == mode = "watchdog" /\ main = "observe"

(* A change writes what the file has not held before, or restores what it  *)
(* has held.                                                               *)
NewContents(f) ==
  {v \in Versions : \/ v = newest[f] + 1
                    \/ "restore" \in faults /\ v <= newest[f]}

(* A job under way may still read the content before.                      *)
Change(f, v) ==
  /\ edits < MaxEdits /\ v # content[f]
  /\ edits' = edits + 1
  /\ content' = [content EXCEPT ![f] = v]
  /\ newest' = [newest EXCEPT ![f] = IF v > @ THEN v ELSE @]
  /\ job' = IF job.step \in {"hash", "read"} /\ job.file = f
              THEN [job EXCEPT !.seen = @ \cup {v}] ELSE job
  /\ UNCHANGED <<table, loop>>

(* The observer queues an event, once it is started. *)
Edit(f) ==
  /\ \E v \in NewContents(f) : Change(f, v)
  /\ events' = IF Observing
                 THEN Append(events, [file |-> f, created |-> content[f] = Absent])
                 ELSE events

(* A deletion, and an editor that saves by rename: a deleted and a moved   *)
(* event, which no method of the handler is for.                           *)
Delete(f) == Change(f, Absent) /\ UNCHANGED events
Replace(f) ==
  /\ "rename" \in faults
  /\ \E v \in NewContents(f) : Change(f, v)
  /\ UNCHANGED events

----------------------------------------------------------------------------
(* One file, on the thread of watch() or of the observer *)

At(s) == job.step = s

(* The next step of the job begins with the file as it is now. *)
GoTo(s) == job' = [job EXCEPT !.step = s, !.seen = {content[job.file]}]

(* _read_file_snapshot: one of the contents the file had since the step    *)
(* began.  It raises when the file is absent, or changes while it is read. *)
Snapshots ==
  (job.seen \ {Absent}) \cup
    (IF Absent \in job.seen \/ Cardinality(job.seen) > 1 \/ "read" \in faults
       THEN {Unreadable} ELSE {})

(* The hash on record of f, if there is one. *)
Recorded(f) ==
  {hashes[i].version : i \in {n \in 1..Len(hashes) : hashes[n].file = f}}

(* Fault: a file that is known has not changed. *)
TrackedByName(f, v) == Recorded(f) # {}

Tracked(f, v) == v \in Recorded(f)

(* The table without the entry of f. *)
Others(f) ==
  IF Recorded(f) = {} THEN hashes
    ELSE LET p == CHOOSE n \in 1..Len(hashes) : hashes[n].file = f
         IN  [n \in 1..(Len(hashes) - 1) |-> hashes[IF n < p THEN n ELSE n + 1]]

(* Fault: no hash is forgotten. *)
RememberAll(f, v) == Append(Others(f), [file |-> f, version |-> v])

(* Remember the hash as the most recently used, forget the oldest one.     *)
Remember(f, v) ==
  LET all == Append(Others(f), [file |-> f, version |-> v])
  IN  IF Len(all) > MaxTracked THEN Tail(all) ELSE all

(* _has_changed, and what its caller makes of it: on_created scans anyway, *)
(* and so does the first walk.                                             *)
Hash ==
  /\ At("hash")
  /\ \E v \in Snapshots :
       LET changed == v # Unreadable /\ ~Tracked(job.file, v)
       IN  /\ hashes' = IF v = Unreadable THEN hashes ELSE Remember(job.file, v)
           /\ \/ job.by = "modified" /\ changed /\ GoTo("announce")
              \/ job.by = "created" /\ GoTo("read")
              \/ job.by = "walk" /\ (changed \/ full) /\ GoTo("read")
              \/ /\ ~changed
                 /\ job.by = "modified" \/ (job.by = "walk" /\ ~full)
                 /\ job' = Idle
  /\ UNCHANGED <<disk, events, scanned, missed, loop>>

(* Fault: the walk goes on after an emission that failed. *)
EmitFailureIgnored ==
  /\ "emit" \in faults
  /\ At("announce") \/ At("emit")
  /\ job' = Idle
  /\ broken' = (broken \/ job.by # "walk")
  /\ UNCHANGED <<disk, events, table, given, main, left, full, alive>>

(* _emit_finding raises, or the constructor of the announcement: the walk  *)
(* ends watch(), the handler records it.                                   *)
EmitFails ==
  /\ "emit" \in faults
  /\ At("announce") \/ At("emit")
  /\ job' = Idle
  /\ IF job.by = "walk"
       THEN main' = "failed" /\ UNCHANGED broken
       ELSE broken' = TRUE /\ UNCHANGED main
  /\ UNCHANGED <<disk, events, table, given, left, full, alive>>

(* on_modified says that the file was modified. *)
Announce ==
  /\ At("announce")
  /\ GoTo("read")
  /\ UNCHANGED <<disk, events, table, loop>>

(* What a scan of v has scanned, when it ends without an exception: v, or  *)
(* nothing when a scanner raised.  scan_file and _scan_file_ast log the    *)
(* exception and return the findings so far.                               *)
Results(v) == {v} \cup (IF "scan" \in faults THEN {Absent} ELSE {})

(* scan_file finds nothing in a file it can not read.                      *)
Read ==
  /\ At("read")
  /\ \E v \in Snapshots : \E result \in Results(v) :
       /\ job' = IF v = Unreadable THEN Idle
                 ELSE [job EXCEPT !.step = "emit", !.seen = {}, !.version = result]
       /\ missed' = [missed EXCEPT ![job.file] =
                       @ \cup (Recorded(job.file) \ {result})]
  /\ UNCHANGED <<disk, events, hashes, scanned, loop>>

(* The findings are emitted: all there are, unless a scanner raised.       *)
Emit ==
  /\ At("emit")
  /\ scanned' = [scanned EXCEPT ![job.file] = @ \cup ({job.version} \ {Absent})]
  /\ job' = Idle
  /\ UNCHANGED <<disk, events, hashes, missed, loop>>

Work == Hash \/ Announce \/ Read \/ Emit \/ EmitFails

----------------------------------------------------------------------------
(* scan_directory, and the handler *)

Begin(f, by) ==
  job' = [step |-> "hash", file |-> f, by |-> by, seen |-> {content[f]},
          version |-> Absent]

(* The walk comes to f, which may not be there. *)
Visit(f) ==
  /\ main = "walk" /\ job = Idle /\ f \in left
  /\ left' = left \ {f}
  /\ IF content[f] = Absent THEN UNCHANGED job ELSE Begin(f, "walk")
  /\ UNCHANGED <<disk, events, table, given, main, full, broken, alive>>

(* The observer is started after the first walk; the polling loop begins.  *)
EndWalk ==
  /\ main = "walk" /\ job = Idle /\ left = {}
  /\ main' = IF mode = "watchdog" THEN "observe" ELSE "sleep"
  /\ full' = FALSE
  /\ UNCHANGED <<disk, events, table, given, left, broken, alive, job>>

(* Fault: the files that are known are not visited again. *)
NextWalkOfNew ==
  /\ main = "sleep"
  /\ main' = "walk"
  /\ left' = {f \in Files : \A i \in 1..Len(hashes) : hashes[i].file # f}
  /\ UNCHANGED <<disk, events, table, given, full, broken, alive, job>>

NextWalk ==
  /\ main = "sleep"
  /\ main' = "walk"
  /\ left' = Files
  /\ UNCHANGED <<disk, events, table, given, full, broken, alive, job>>

Dispatch ==
  /\ Observing /\ alive /\ job = Idle /\ events # <<>>
  /\ events' = Tail(events)
  /\ Begin(Head(events).file,
           IF Head(events).created THEN "created" ELSE "modified")
  /\ UNCHANGED <<disk, table, loop>>

----------------------------------------------------------------------------
(* The loop of watch() *)

Halt(how) ==
  /\ main' = how
  /\ UNCHANGED <<disk, events, table, given, left, full, broken, alive, job>>

(* The observer's thread ends. *)
ObserverDies ==
  /\ "observer" \in faults
  /\ Observing /\ alive /\ job = Idle
  /\ alive' = FALSE
  /\ UNCHANGED <<disk, events, table, given, main, left, full, broken, job>>

(* Fault: only the polling loop looks at the failure. *)
RaiseWhilePolling == main = "sleep" /\ (broken \/ ~alive) /\ Halt("failed")

(* raise_if_failed, and observer.is_alive. *)
RaiseIfFailed == main = "observe" /\ (broken \/ ~alive) /\ Halt("failed")

(* The stop event, seen at the top of a loop.  The observer's thread is    *)
(* joined for ten seconds; if it is still at work then, watch() raises.    *)
Stop ==
  /\ main \in {"observe", "sleep"}
  /\ Halt("stopped") \/ (main = "observe" /\ job # Idle /\ Halt("failed"))

Rest == main \in Halted /\ job = Idle /\ UNCHANGED vars

----------------------------------------------------------------------------
Next ==
  \/ \E f \in Files : Edit(f) \/ Delete(f) \/ Replace(f) \/ Visit(f)
  \/ Work \/ EndWalk \/ NextWalk \/ Dispatch \/ ObserverDies \/ RaiseIfFailed
  \/ Stop \/ Rest

(* Both threads run, and each walk comes to an end. *)
Fairness ==
  /\ WF_vars(Work) /\ WF_vars(EndWalk) /\ WF_vars(NextWalk)
  /\ WF_vars(Dispatch) /\ WF_vars(RaiseIfFailed)
  /\ \A f \in Files : WF_vars(Visit(f))

Spec == Init /\ [][Next]_vars /\ Fairness

----------------------------------------------------------------------------
(* Properties *)

(* A file whose hash is on record, and which has not changed since, was    *)
(* scanned, is being handled, or has stopped the watcher: the hash, which  *)
(* is recorded before the scan, hides no content that nobody scanned.      *)
(* Only a content that a losing fault has lost under its hash stays        *)
(* hidden; edits, deletions and renames at any moment lose none.           *)
NoChangeForgotten ==
  \A f \in Files :
    Tracked(f, content[f]) =>
      \/ content[f] \in scanned[f]
      \/ job # Idle /\ job.file = f
      \/ broken \/ main \in Halted
      \/ ~Lossless /\ content[f] \in missed[f]

(* Each content of a file is scanned unless it changes again: eventually   *)
(* in the polling loop, even if the hashes do not fit in the table, and    *)
(* unless a losing fault may lose it.                                      *)
Settled(f, v) == content[f] # v \/ v \in scanned[f] \/ main \in Halted
ContentIsScanned ==
  \A f \in Files, v \in Versions : content[f] = v ~> Settled(f, v)
PollingFindsEverything ==
  [](mode = "polling" /\ Lossless) => ContentIsScanned

(* With the observer, this holds for the contents that come with an event. *)
Announced(f) == \E i \in 1..Len(events) : events[i].file = f
EventsAreHandled ==
  []Lossless =>
    \A f \in Files, v \in Versions :
      content[f] = v /\ Announced(f) ~> Settled(f, v)

(* A failure in the observer's thread, or its end, ends watch() on the     *)
(* other thread.                                                           *)
FailureEndsWatch == broken \/ ~alive ~> main \in Halted
=============================================================================
