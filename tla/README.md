# Security Watchtower in TLA+

Security Watchtower runs four workers in one process. Two produce *findings*: the
API watcher probes health endpoints, the code watcher scans source files. The
correlator takes the findings from a Redis list, pairs API findings with code
findings, and turns a pair into an alert: stored, claimed for a cooldown,
published, sent to the notification channels. A supervisor starts the workers and
stops the process when one of them fails. The paths below are relative to the
repository; the Python files are in `watchers/`.

## 1. Inventory

| Part | State | Operations | What makes it correct |
|---|---|---|---|
| Redis client (`redis_client.py`) | none of its own; the lists and keys are in Redis | push, pop, store, claim, release, publish, each through `_with_retry` | a command that is retried has the effect of one |
| Correlation buffer, loop (`correlator.py`) | two bounded deques of findings; the matches of a pass | `add`, `find_matches`, `remove_pair`; one pass per finding | nothing that can be paired is left waiting; a finding is alerted once |
| Alert pipeline (`correlator.py`, `redis_client.py`, `notifier.py`) | record and cooldown key of each fingerprint; the alert in hand, its token, what the channels answered | store, claim, publish, send, release | one notifier at a time; a cooldown runs only for an alert that somebody was told of |
| Supervisor (`main.py`) | the first failure, the threading and the asyncio event | `fail`, `trigger`, signals, start, cancel, join, exit | a failure stops the program; the exit status tells of it |
| API watcher (`api_watcher.py`) | failure count and state of each URL; the results of the round | probe, gather, emit over a thread | what is reported as persistent is; nothing found is dropped |
| Code watcher (`code_watcher.py`) | table of content hashes; the observer's failure | first scan, event handler, polling walk, check of the observer | every content is scanned or replaced, but for those lost by an error |
| Scope, confidence, knowledge base (`correlator.py:41-154`) | constant | pure functions of two findings | a pair that is known can become an alert |
| Schema (`schema.py`) | none | validation, fingerprint, severity of an alert | what was accepted at start-up never raises later; a fingerprint does not mask a worse alert |
| Notifier payloads, sanitising (`notifier.py:57-217`) | none | wording, redaction | no secret leaves the process |
| Configuration (`config.py`) | read once | validation at start-up | bounds of every setting |
| Deployment (`docker-compose.yml`, `redis.conf`) | Redis on disk | restart of a dead process, memory limit | acknowledged evidence survives |
| Phase documents (`phase_*`, `shared/`) | static JSON and Markdown | none | not read by any code |

The parts meet in four places. `settings.validate` decides once what the
producers, the schema and the notifier later check again. The watchers' threads `LPUSH` to the list from
which the correlator's thread does `BRPOP`. Correlators (replicas, or one process
and the one that replaces it) share the cooldown keys in Redis. All workers share
the supervisor's stop event, which is mirrored on the event loop by
`call_soon_threadsafe`.

What is hard here, with the line where it bites, is listed under `hazards` in
`PROJECT.json`: rules about the same value in three files, each of which stops the process when it
is broken; an alert that suppresses another one with the same fingerprint; replies
lost on the way from Redis and the retry that follows;
cooldowns that run out under their holder; a process that dies between claim and
delivery; a channel that took an alert and timed out; buffers at their limit and
passes that change them while their own matches are handled; a file that changes
between its hash and its scan; failures recorded on one thread and looked at on
another.

## 2. Modules

| Module | Models | Its variables in the code |
|---|---|---|
| `AlertCooldown` | what the cooldown promises (abstract) | one phase per fingerprint: free, held, cooling, orphaned |
| `AlertPipeline` | `correlator.py:304-372` with `_with_retry`, `claim_alert`, `release_alert_claim`, `send_alert` | `job`: local variables of `correlate`; `claim`: `watchtower:alert_cooldown:*`; `record`: `watchtower:alerts:record:*`; `ledger`: history |
| `Correlator` | `correlate` and `_CorrelationBuffer`, `push_finding`, `pop_finding` | `queue`: the list; `api`, `code`: the deques; `todo`, `matches`: locals of `find_matches`; `pc`; `tries`, `age`: producers and clock; `added`, `alerts`: history |
| `Supervisor` | `main.py` | `main`, `thread`, `api`: control points; `stop`, `asyncStop`, `wake`, `bound`, `failure`: fields of `_ShutdownController`; `late`, `died`: history |
| `ApiWatcher` | `api_watcher.py` | `count`, `state`: `_failure_counts`, `_endpoint_states`; `result`, `next`, `pc`: `watch`; `thread`: `_persist_finding`; `queued`, `stored`: Redis; `since`, `tls`: history |
| `CodeWatcher` | `code_watcher.py` without the patterns | `hashes`: `_file_hashes`; `events`: the observer's queue; `main`, `left`, `full`, `job`: locals; `broken`: `_failure`; `alive`: the observer; `content`, `newest`, `edits`: the disk; `mode`, `faults`: given at the start; `scanned`, `missed`: history |
| `Scoring` | `correlator.py:41-154`, `new_correlated_alert`, and the kinds of finding the producers make | none: functions of two findings |
| `FindingContract` | `config.py` `validate`, `_validate_http_url`; `schema.py` constructors; what `_target_metadata`, the titles and descriptions, `watch` of the code watcher and `send_alert` make of the settings and of the names of files | `settings`; `stage` of the process; `api`, `code`, `alert`: values in hand; `outcome`, `before`, `raised`: history |
| `Watchtower` | `correlate` end to end: composes `Correlator` (as `Loop`), `AlertPipeline` (as `Pipe`, one correlator) and `Scoring` | those of its parts |

`Watchtower` has no state of its own. A match that `Loop` has found
waits until `Pipe` is idle, is dropped (`Discard`) or becomes a job (`HandOver`)
as `Scoring` says, and the last step of the job is the loop's `HandleMatch`. Both
parts are shown to be implemented by the whole.

`MC*` modules hold the small instances for TLC, `*Proofs` modules the theorems.
Every operator named "Fault: ..." in its comment is a plausible mistake next to the
definition it would replace; no specification uses it. It documents that the
property named with it in `PROJECT.json` can tell the mistake from the code.

### Abstractions that matter

- **One command, one step.** In `AlertPipeline` every Redis command and every POST
  is a step, so other correlators, expiries and crashes come between any two. Each
  command may lose its request, lose its reply after being executed, or be
  answered with an error. A delayed execution, in which an old request overtakes
  its own retry, is not modelled. Neither are the retries inside redis-py, which
  repeat what `_with_retry` does.
- **Crash** stands for the death of a process and its restart (`docker-compose.yml:31`).
  Redis keeps what it acknowledged; the last second that a failing host may lose
  (`README.md:97`) is not modelled.
- **History variables** (`ledger`, `lapsed`, `added`, `alerts`, `late`, `died`,
  `since`, `tls`, `scanned`, `missed`, `before`, `outcome`, `raised`) never guard a
  step.
- **Records** are kept as the set of fingerprints that have one, not as the alert
  that wrote it. `ExpireRecord` waits for the alerts in hand: a record lives for a
  day, the handling of an alert takes minutes.
- In `Correlator`, `Related` stands for `_findings_share_scope`, and the confidence
  of a match is a choice; `AlertPipeline` is what happens to a match of high
  confidence. `Watchtower` puts `Scoring` in the place of both; the seconds between
  the findings of a match are there a free choice from `Gaps`, not read off the
  clock, which allows more than the code does. `Tick` is the clock, `Window` the correlation window in ticks. A
  buffer entry carries the number of its arrival, which is its place in the deque.
- In `ApiWatcher` the retries of a Redis command are one step, which succeeds or
  raises and may in the second case have been executed. Name resolution is one of
  the things that make a probe fail.
- In `CodeWatcher` the content of a file is a version number and its hash is the
  version: two contents with one hash do not occur. A change writes a version the file
  has not held, or, where "restore" is among the faults, one that it has. Files longer
  than the limit and files in ignored places are not among `Files`. The observer
  delivers an event for every change (several may be merged in reality, with the same
  effect). A read that an edit overlaps gives any content the file has had since the
  read began, or raises, as the comparison of the two `fstat` results makes it. A file
  can be deleted, replaced by a rename, and created again; the observer's thread can
  die. `scan_file` and `_scan_file_ast` log an exception of a scanner and return the
  findings so far: the fault "scan" loses the content, that is, the model does not
  count it as scanned, whichever part of its findings was emitted. `faults` is chosen
  once, from `FaultSets`, so that a run has behaviours in which contents may be lost
  and behaviours in which none is.
- In `Scoring` severities are their order, confidences thousandths, times seconds.
  A text is an element of a small set with a length and a form in lower case; what
  the code compares are equality, length and the lower-case form. The confidence of a
  pair is rounded like `round(x, 3)` but for ties, which the binary product decides.
- In `FindingContract` an option has one value for each way `validate` treats it:
  the four kinds of host, the three kinds of password, and so on. The character
  classes of names and the resolution of hosts are behind these values. A text has a
  length, it may be of white space only (`Blank`) or hold lone surrogates, as
  undecodable file names do (`Garbled`). A constructor gets the lengths of the title
  and the description that the producer would write. When it raises in the handler of
  a modification the process stops, in a scan the finding is lost.

## 3. Runs

`pass` runs, the longest of them (`CodeChanges`, `Watchtower`) of about two minutes:

| Run | Instance | Shows |
|---|---|---|
| `PipelineFaults` | 2 correlators, 1 fingerprint, 3 tokens, 2 channels, 2 attempts, every fault but redirecting channels | `TypeOK`; `SingleNotifier`; `RecordBeforeNotification`; `CooldownWasTold`; `SettledUntilExpiry`; `HandlingEnds`; `ImplementsCooldown` |
| `PipelineRelease` | 2 correlators, 2 fingerprints, 3 tokens, every fault but those that can orphan a claim and those that hide what a channel took | `NoOrphan`; `NoRepeatWithinCooldown` |
| `CorrelatorFaults` | 1 API finding that shares a scope with 2 code findings and a malformed one, buffers of 2, window of 2 ticks, every fault | `TypeOK`; `NoPairWaiting`; `MatchIsBuffered`; `BuffersBounded`; `OneAlertPerCopy` |
| `Watchtower` | a slow answer and 2 errors of an endpoint, 2 patterns on one line of its code, a threshold of critical; buffers of 1; findings at once and 200 s apart; failing commands, rejections, crashes | `TypeOK`; `SuppressedWasTold`; `QueueDrains`; `ImplementsLoop`; `ImplementsPipeline` |
| `FindingContract` | configurations that differ from a good one in one option, targets and files at every limit of length, blank and undecodable names, paths without a directory, findings of every kind | `TypeOK`; `AcceptedIsUsable`; `SameFingerprintSameSeverity` |
| `Supervision` | the three threads and the API task | `TypeOK`; `CleanExitHadNoFailure`; `WakeUpNotLost`; `FailureEndsMain`; `StopEndsProcess` |
| `ApiRounds` | 3 targets, 2 URLs (one listed twice), threshold 2, constructors that raise | `TypeOK`; `StateAgrees`; `NothingSkipped`; `RecordedIsQueued`; `PersistentOnly`; `FindingReported` |
| `CodeChanges` | 2 files, 3 versions, 3 changes, a table of 1 hash, both modes, with and without the first scan, renames, deletions; either failing emissions and an observer that dies, or errors that lose contents | `TypeOK`; `NoChangeForgotten`; `PollingFindsEverything`; `EventsAreHandled`; `FailureEndsWatch` |

Runs in which the code does not do what a sentence of the repository says
(`findings` in `PROJECT.json` quotes them):

- `ClaimReplyLost`: the reply to `SET NX` is lost, the retry meets the correlator's
  own token, `claim_alert` returns None, and the alert is suppressed with nobody told.
- `MemoryLimit`: Redis rejects a write; the correlator logs it, drops the match and
  goes on, where `redis.conf` counts on supervision to stop the program.
- `KnownPairs`: `http_5xx` with `null_dereference` is in the knowledge base, and no
  findings of the producers reach the default threshold of 0.6 (0.554 at most).
- `CodeStartup`: an edit between the first scan of a file and the start of the
  observer is not scanned.

### Bounds

Two correlators are enough for every interaction through a cooldown key: its value
is one token, and a third party does to a pair what one of the two can do. Tokens
recur as soon as nobody holds them, so three of them (one in Redis, two in hand)
stand for any supply with one fingerprint; with two of them, three let both
correlators work while one claim stands. Two attempts have a first, a retried and a
last failure. In `Correlator` three findings, each pushed up to twice, overflow a
buffer of two and make passes in which one finding has two partners; a window of two
ticks has findings of three ages. In `Watchtower` the alert of the slow answer is
high, below the threshold: it gets a cooldown of which nobody is told. The alerts of
the two errors are critical; they share a fingerprint, so that the second one meets
the cooldown of the first. A fingerprint without the type of the API finding would
put all three under one cooldown, and the run shows the critical alert that is then
suppressed. A buffer of one, one attempt and one tick suffice, because the parts are
checked alone with more; pops that are lost are in `CorrelatorFaults`. In
`FindingContract` there is a text just over each limit of length, and two on either
side of each that a title or a description sets; `MCFindingContract` spoils
one option of a good configuration at a time. In `ApiWatcher` counts above the
threshold are not told apart (`MaxCount`), because the code compares only with the
threshold. In `CodeWatcher` two files do not fit in a table of one hash, and three
changes let a file change, change back, and change during the handling of a change;
three versions let each change of a new file write something new.
`MaxEdits` bounds the changes and with them the events; nothing else is cut off: all
other state is finite by itself.

### Fairness

Only what the scheduling gives. A thread that can take a step takes it, since every
Redis command, POST and probe has a timeout and every retry loop a bound. Redis
expires keys. `asyncio` runs callbacks and coroutines. `join` times out. Nothing is
assumed of the producers, of signals, of crashes, of edits, or of a worker in the
middle of its work: `StopEndsProcess` states as its premise that each worker comes
round to the condition of its loop, while `FailureEndsMain` needs no such premise.

## 4. Proofs

TLAPS checks the theorems in the modules `*Proofs`: `AlertPipelineProofs`,
`CorrelatorProofs`, `ScoringProofs`, `WatchtowerProofs`, `SupervisorProofs`,
`ApiWatcherProofs`, `CodeWatcherProofs` and `FindingContractProofs`. They hold for
every value of the constants that meets the named assumptions: any number of
correlators, fingerprints, channels and attempts, any findings and any relation
between them, any buffer size, any targets, thresholds, files and size of the table
of hashes, texts of any length, any set of faults, any threads. Every invariant and
every action property that a run checks is a theorem.

**AlertPipeline.** `SingleNotifier` is not inductive: that no two correlators hold
a claim says nothing of where a token may turn up. `IInv` adds that a token is in
one correlator's hands (`TokensApart`) and in Redis only under the fingerprint its
owner works on (`TokenInPlace`), that a claim with an owner is marked open and the
other way round (`OwnedIsOpen`, `OpenIsOwned`), that the owner keeps it until it
lapses (`HolderKeepsClaim`), and that what counts as delivered was told
(`DeliveredIsTold`). Each step is then one of four kinds (a correlator moves on, is
done, opens a claim, clears one), and each kind preserves the invariant
(`MoveStep`, `FinishStep`, `OpenStep`, `ClearStep`). From `IInv` follow
`OneNotifier`, `ClaimsReleased`, `RecordedFirst`, `ToldBeforeCooldown`, and the
action property `SettledStays`.

**The cooldown.** `PipelineImplementsCooldown` is the safety part of
`ImplementsCooldown`: the phase of a fingerprint is a function of its claim and its
mark, and each of the four kinds of step moves one fingerprint from a phase to the
next one of `AlertCooldown` (`OpenPhase`, `FinishPhase`, `ClearPhase`) or none
(`NoMove`). The step into `orphaned` takes one of `OrphanFaults`, which `IInv` says
(`LostByFault`). `NotifiedOnce` adds to `IInv` that what a channel was told under a
claim is what the claim's owner counts as delivered (`ToldIsDelivered`), so that no
release is under way for it; its premise leaves out the two faults of a POST that
break this.

**The end of the handling.** That an alert is handled at last is a liveness property
(`HandlingEnds`). What it rests on is proved: `StepsLeft` counts the attempts, POSTs
and the verdict that are still to come; it starts at 4 `MaxAttempts` + `NumChannels`
+ 1, each step of the handling lowers it (`LeftShrinks`), and no step of anyone else
raises it (`LeftNeverGrows`). `HandlingBounded` puts this together.

**Correlator.** `NoPairWaiting` holds between passes only; `LoopInv` says what
holds within one: when a pass begins, any two findings in the buffers that share a
scope include the newest arrival, because the last pass left no pair. The scan uses
a finding once, so it finds one match at most, the match contains the newest
arrival, and removing it removes every pair. `Oldest` is a CHOOSE over arrival
numbers; that it returns what it says rests on the well-foundedness of the naturals
(`OldestProperty`). Theorems: `NothingWaits`, `OneMatch`, `MatchesAreBuffered`.
`CountInv` counts: for each finding the alerts and the copies in the buffers
together are no more than the copies that came in (`CopiesAccounted`), and each
match takes one copy of each of its findings away (`RemovesPair`). Theorems:
`AlertedOncePerCopy`, `BuffersStayBounded`. `PassBounded` is for a pass what
`HandlingBounded` is for an alert: `PassLeft` is at most `MaxSize` + 4.

**Supervisor.** `SupervisionInv` adds where failures are recorded, which threads
were joined, and that `bind_async` comes first. Theorems: `CleanExit`,
`NoLostWakeUp`.

**ApiWatcher.** A count never exceeds the failures in a row it stands for
(`CountIsEarned`), although probes of one URL overtake each other; the thread of
`_persist_finding` works on the slot before the next one and pushes before it stores
(`ThreadInOrder`), what was looked at is in Redis but for the finding in its hands
(`LookedAtIsPersisted`), and a round begins and ends where it should
(`NextInPlace`). Theorems: `StateIsTrue`, `RecordsAreQueued`, `RoundIsComplete`,
`ReportedIsPersistent`.

**CodeWatcher.** `NoChangeForgotten` speaks of the content on disk, which an edit may
take back to one hashed earlier. `HashIsScanned` says it of every hash on record:
the content was scanned, counts as missed, or its scan is still to come (`InScan`).
While a file is hashed again no exception is made for its old hash. The table holds
one hash of a file (`OneHash`), so that recording a new one forgets the old one
(`RememberRecords`). What is left is that nothing on disk counts as missed when no
losing fault may happen (`NothingLost`): an edit then writes a version above all that
were hashed (`UpToNewest`), and a scan that finds the content under its hash finds
nothing else in the file. Theorem: `ChangesAreScanned`.

**FindingContract.** The values in hand are of the kinds the producers make, with the
texts of the settings, and have passed `Finding.__post_init__` (`MadeIsValid`), whose
checks include all of `CorrelatedAlert.__post_init__`. A target or a file makes a
constructor raise only if it is `Unfit` or `UnfitPlace` (`AcceptedNeverRaises`): these
two say in so many words what `validate` fails to look for. A fingerprint leaves the
type and the severity of the code finding out and keeps the type of the API finding.
That type tells the severity of the alert (`KnownGrade`): most API findings of the
knowledge base are as severe as anything they pair with, and the others pair with
code findings of one severity, as no scan finds `missing_auth_check`
(`FingerprintTellsSeverity`).

**Scoring.** The findings of the two watchers (`FromApi`, `FromCode`) are those that
`new_finding` makes of the kinds they report. A code finding has no endpoint, so that
two of them meet through the knowledge base only (`OnlyKnownPairs`), their
fingerprint tells the severity of their alert (`SeverityOfPair`, from `KnownGrade`),
and that is high or critical (`AlertsAreSevere`). A confidence is at most 0.99
(`ConfidenceBounds`) and does not fall when the findings move together
(`CloserIsLikelier`). `DeadKnowledge` and `LiveKnowledge` say together which entries
of the knowledge base can ever make an alert with the default `min_confidence` of
0.6: all but those with `null_dereference` or `missing_auth_check`.

**Watchtower.** Every step of the whole is a step of `Correlator` or leaves it alone,
and the same of `AlertPipeline` (`LoopSteps`, `PipeSteps`): the safety parts of
`ImplementsLoop` and `ImplementsPipeline` (`WholeImplementsLoop`,
`WholeImplementsPipeline`). The theorems about the parts are therefore not proved
again: `LoopPart` and `PipePart` are the modules of proofs of the two, for the
parameters the whole gives them, and the whole meets their assumptions
(`LoopAssumptions`, `PipeAssumptions`). This gives `LoopPromises`, `PipePromises`,
`WholeSettles`, `WholeNotifiesOnce` and `WholeImplementsCooldown`.

What only the whole can say needs `WholeInv`. The alert under way is that of the match
at the head of the list (`AtWork`, theorem `AlertOfHeadMatch`). The match is a pair
that shares a scope, which `Correlator` proves of it, so that its severity is the
`Grade` of its fingerprint (`MatchGraded`). Hence a quiet cooldown, one that runs for
an alert below the threshold, belongs to a fingerprint whose alerts are all below it
(`QuietIsMild`), and an alert worth a notification never meets one
(`SuppressedMeansTold`): if it is suppressed, somebody was told of an alert with its
fingerprint during the cooldown, a correlator has left the claim behind, or a channel
has answered with a redirection. `SuppressedWasTold` is not inductive itself, as it
says nothing about the alert that comes next. `CooldownMeansTold` adds that no alert
is below the default threshold, so that every cooldown stands for somebody who was
told, or for a redirection.
`HoldUpBounded` adds the bounds of the parts up: from one `BRPOP` to the next the
thread takes at most `MaxSize` + 4 `MaxAttempts` + `NumChannels` + 6 steps, which is
what `QueueDrains` rests on.

Not proved, only model-checked: the liveness properties (`HandlingEnds`,
`QueueDrains`, `FailureEndsMain`, `StopEndsProcess`, `FindingReported`,
`PollingFindsEverything`, `EventsAreHandled`, `FailureEndsWatch`) and the fairness
part of `ImplementsCooldown`, `ImplementsLoop` and `ImplementsPipeline`. They speak of
enabledness, which the prover does not reason about.

## 5. Known limits of what holds

These are consequences of the code that the properties state as premises:

- A lost reply to the claim, a release that fails, or the death of the process
  leaves a claim for its cooldown (`OrphanFaults` in `NoOrphan`).
- A POST that was accepted and timed out releases the claim: the alert may be sent
  again (premise of `NoRepeatWithinCooldown`).
- A channel that answers with a redirection counts as told (`response.ok`, premise
  of `CooldownWasTold` and of `SuppressedWasTold`).
- An alert whose cooldown runs out while it is being sent may be sent by a second
  correlator at the same time (`lapsed` in `SingleNotifier`).
- A thread that fails after `main()` has stopped waiting for it does not change the
  exit status (`late` in `CleanExitHadNoFailure`).
- A read that fails after the hash was recorded, a scanner that raises (its exception
  is logged, the rest of its findings is lost), or a scan that finds another content
  than the hash did when the old one then comes back, hides a content until it changes
  or until its hash is forgotten (`LosingFaults`, premise of `NoChangeForgotten`,
  `PollingFindsEverything` and `EventsAreHandled`).
- With the observer, a file that is replaced by a rename is not scanned until it is
  modified in place: the handler has no method for a moved event, although the
  docstring of `code_watcher.py` promises reactions in real time (`Replace`;
  `EventsAreHandled` speaks of contents that come with an event).
- A pass returns one of two pairs with a finding in common, and the finding leaves the
  buffers with it (`OneMatch`). The docstring of `find_matches` says "all (api, code)
  pairs that match". `NoPairWaiting` holds because of this removal.
- A suppressed alert overwrites the record of the one that was delivered.
- A target whose title grows over 500 characters, whose host has an empty, blank or
  overlong first label, or whose texts can not be encoded, passes `validate` and stops
  the process at the first finding about it (`Unfit` in `AcceptedIsUsable`).
- A file whose path has more than 3976 characters stops the process when it is
  modified, because the description of the finding exceeds 4000; with more than 3962
  (for a line number of one digit) what a pattern finds in it is lost. So it is with a
  name that is not valid UTF-8 (`UnfitPlace`).
- Configured paths none of which is a directory pass `validate`, and `watch` raises
  (`AcceptedIsUsable`).
- `http_5xx` and `endpoint_down` with `null_dereference` are never likely enough
  (`KnownPairs`, and `DeadKnowledge` for every setting from 0.555 on), and the pattern
  for `missing_auth_check` needs two lines where
  `_scan_file_regex` looks at one, so that the entries of the knowledge base with it
  are dead: an endpoint that is down, or limits its callers, is never correlated with
  anything. That is why `SameFingerprintSameSeverity` holds: a fingerprint leaves the
  type and the severity of the code finding out, and a change of pattern, confidence
  or threshold may let a cooldown mask a worse alert.
- The service of an API finding is a host label in lower case, that of a code finding
  the name of a directory as it is: a directory in another case matches nothing.
  Fingerprints are in lower case, so that paths that differ in case share a cooldown.
- A finding that is pushed twice may be alerted twice (`OneAlertPerCopy` counts
  copies).

## 6. Plan

Done, in this order: the cooldown and the pipeline, the correlator loop, the
supervisor, the two watchers; `Scoring`, `FindingContract`; deletions, renames and
the end of the observer in `CodeWatcher`; the composition `Watchtower`; proofs about
all of them, the composition by way of its parts.

Left to prove: bounds like `HandlingBounded` for the rounds of the two watchers and
for the end of the process. Left to model: a request that is delayed and overtaken by
its own retry.

### Not modelled

- Wording and redaction of payloads (`notifier.py:57-217`), the regular expressions
  and the conditions of the AST visitor, the JSON form of findings and alerts, the
  parsing of environment variables: text processing without control state. What
  depends on them is a choice over their possible results.
- `ping` and `wait_for_redis`, which run before anything else and only wait;
  `is_alert_suppressed` and `suppress_alert`, which nothing calls.
- Images, networks and limits of the container set-up; the phase documents, which no
  code reads.
