--------------------------- MODULE AlertPipeline ---------------------------
(***************************************************************************)
(* What a correlator does with a match whose confidence is high enough,    *)
(* and what several of them (replicas, or one that restarts) do to each    *)
(* other through Redis: store the alert's record, claim its fingerprint    *)
(* for the cooldown with an ownership token, publish the alert, notify     *)
(* every channel, and release the claim when nobody could be told.         *)
(*                                                                         *)
(* Each step is one command sent to Redis or one POST, so that the steps   *)
(* of different correlators, the expiry of keys and the failures of the    *)
(* network interleave between any two of them.                             *)
(***************************************************************************)
EXTENDS Integers, FiniteSets

CONSTANTS
  Correlators,    \* the correlate() loops that share one Redis
  Fingerprints,   \* fingerprints of the alerts that are raised
  Tokens,         \* the uuid4 ownership tokens; one no longer in use recurs
  NoToken,        \* no token: the cooldown key does not exist
  Severities,     \* severities of the alerts, as their _SEV_ORDER
  MinSeverity,    \* settings.notifier.min_alert_severity, as its order
  NumChannels,    \* how many of Slack, Telegram and the webhook are set up
  MaxAttempts,    \* max_attempts of _with_retry
  Faults          \* the failures that may happen: pairs <<operation, kind>>

(* A command may fail in three ways: the request is lost, it is executed   *)
(* and its reply is lost (both show as a connection error or a timeout),   *)
(* or Redis answers with an error.                                         *)
FaultKinds ==
  ({"store", "claim", "publish", "release"} \X {"request", "reply", "reject"})
    \cup {<<"send", "reply">>, <<"send", "raise">>, <<"send", "redirect">>,
          <<"process", "crash">>}

ASSUME CorrelatorAssumption == IsFiniteSet(Correlators)
ASSUME TokenAssumption == NoToken \notin Tokens
ASSUME SettingsAssumption ==
  /\ Severities \subseteq 1..4     \* low, medium, high, critical
  /\ MinSeverity \in 1..4
  /\ NumChannels \in 0..3
  /\ MaxAttempts \in Nat \ {0}
ASSUME FaultAssumption == Faults \subseteq FaultKinds

VARIABLES
  job,      \* job[c]: the alert c is handling and how far it has come
  claim,    \* claim[f]: the value of watchtower:alert_cooldown:f
  record,   \* the fingerprints that have a watchtower:alerts:record key
  ledger    \* history: what became of the current claim of a fingerprint

vars == <<job, claim, record, ledger>>

----------------------------------------------------------------------------
(* The state *)

Steps == {"store", "claim", "publish", "send", "release"}

Idle == [step |-> "idle"]

Jobs ==
  [step : Steps, fp : Fingerprints, severity : Severities,
   token : Tokens \cup {NoToken},
   attempt : 1..MaxAttempts,  \* of the _with_retry call under way
   channel : 0..NumChannels,  \* channels tried by send_alert
   delivered : BOOLEAN,       \* one of them answered with a status below 400
   lapsed : BOOLEAN]          \* history: the claim expired under its holder

(* The claim of a fingerprint is open while its correlator works on it,    *)
(* kept after a delivery, quiet after an alert below the threshold, and    *)
(* lost when its correlator left it behind.  told: some channel took the   *)
(* alert while this claim was in force.                                    *)
Marks == {"none", "open", "kept", "quiet", "lost"}
Blank == [mark |-> "none", told |-> FALSE]

TypeOK ==
  /\ job \in [Correlators -> {Idle} \cup Jobs]
  /\ claim \in [Fingerprints -> Tokens \cup {NoToken}]
  /\ record \in SUBSET Fingerprints
  /\ ledger \in [Fingerprints -> [mark : Marks, told : BOOLEAN]]

Init ==
  /\ job = [c \in Correlators |-> Idle]
  /\ claim = [f \in Fingerprints |-> NoToken]
  /\ record = {}
  /\ ledger = [f \in Fingerprints |-> Blank]

Busy(c) == job[c].step # "idle"
At(c, s) == job[c].step = s
Owns(c) == Busy(c) /\ job[c].token # NoToken /\ claim[job[c].fp] = job[c].token

FreshTokens ==
  {t \in Tokens : /\ \A f \in Fingerprints : claim[f] # t
                  /\ \A c \in Correlators : Busy(c) => job[c].token # t}

----------------------------------------------------------------------------
(* _with_retry: one attempt of a Redis command *)

Outcomes(op) ==
  {"ok"} \cup {o \in {"request", "reply", "reject"} : <<op, o>> \in Faults}

Executed(o) == o \in {"ok", "reply"}    \* the server ran the command
Transient(o) == o \in {"request", "reply"}

(* Fault: the attempts are not counted. *)
RetriedForever(c, o) == Transient(o)

Retried(c, o) == Transient(o) /\ job[c].attempt < MaxAttempts
Raised(c, o) == o = "reject" \/ (Transient(o) /\ job[c].attempt >= MaxAttempts)

Become(c, j) == job' = [job EXCEPT ![c] = j]
Retry(c) == Become(c, [job[c] EXCEPT !.attempt = @ + 1])
GoTo(c, s) == Become(c, [job[c] EXCEPT !.step = s, !.attempt = 1])

----------------------------------------------------------------------------
(* How handling ends: remove_pair, and on to the next match *)

Mark(f, m) == ledger' = [ledger EXCEPT ![f].mark = m]

(* The correlator is done; m is what it leaves its claim as, if it is      *)
(* still the owner after this step.                                        *)
Finish(c, m) ==
  /\ Become(c, Idle)
  /\ IF job[c].token # NoToken /\ claim'[job[c].fp] = job[c].token
       THEN Mark(job[c].fp, m)
       ELSE UNCHANGED ledger

----------------------------------------------------------------------------
(* correlate(): the steps of one alert *)

(* A match reaches new_correlated_alert. *)
Match(c) ==
  /\ ~Busy(c)
  /\ \E f \in Fingerprints, s \in Severities :
       Become(c, [step |-> "store", fp |-> f, severity |-> s,
                  token |-> NoToken, attempt |-> 1, channel |-> 0,
                  delivered |-> FALSE, lapsed |-> FALSE])
  /\ UNCHANGED <<claim, record, ledger>>

(* Fault: an alert whose record could not be written is claimed anyway. *)
StoreErrorIgnored(c, o) ==
  /\ record' = IF Executed(o) THEN record \cup {job[c].fp} ELSE record
  /\ UNCHANGED <<claim, ledger>>
  /\ IF Retried(c, o)
       THEN Retry(c)
       ELSE \E t \in FreshTokens :
              Become(c, [job[c] EXCEPT !.step = "claim", !.attempt = 1,
                                       !.token = t])

(* store_alert_record; claim_alert then draws its token.                   *)
StoreAttempt(c, o) ==
  /\ record' = IF Executed(o) THEN record \cup {job[c].fp} ELSE record
  /\ UNCHANGED claim
  /\ \/ /\ o = "ok" /\ UNCHANGED ledger
        /\ \E t \in FreshTokens :
             Become(c, [job[c] EXCEPT !.step = "claim", !.attempt = 1,
                                      !.token = t])
     \/ Retried(c, o) /\ Retry(c) /\ UNCHANGED ledger
     \/ Raised(c, o) /\ Finish(c, "lost")

Store(c) == At(c, "store") /\ \E o \in Outcomes("store") : StoreAttempt(c, o)

(* Fault: SET without NX. *)
ClaimOverwrites(c, o) ==
  LET f == job[c].fp
  IN  /\ claim' = IF Executed(o) THEN [claim EXCEPT ![f] = job[c].token]
                                 ELSE claim
      /\ UNCHANGED record
      /\ IF Executed(o) THEN ledger' = [ledger EXCEPT ![f] = [Blank EXCEPT !.mark = "open"]]
                        ELSE UNCHANGED ledger
      /\ \/ o = "ok" /\ GoTo(c, "publish")
         \/ Retried(c, o) /\ Retry(c)
         \/ Raised(c, o) /\ Become(c, Idle)

(* SET NX EX.  A retry sends the token of the first attempt again; "not    *)
(* set" means suppressed, whoever's token is there.                        *)
ClaimAttempt(c, o) ==
  LET f == job[c].fp
      vacant == claim[f] = NoToken
      opened == Executed(o) /\ vacant
      Open == IF opened THEN Mark(f, "open") ELSE UNCHANGED ledger
  IN  /\ claim' = IF opened THEN [claim EXCEPT ![f] = job[c].token] ELSE claim
      /\ UNCHANGED record
      /\ \/ /\ o = "ok" /\ vacant /\ Open
            /\ Become(c, [job[c] EXCEPT !.step = "publish", !.attempt = 1,
                                        !.lapsed = FALSE])
         \/ o = "ok" /\ ~vacant /\ Finish(c, "lost")
         \/ Retried(c, o) /\ Retry(c) /\ Open
         \/ Raised(c, o) /\ Finish(c, "lost")

Claim(c) == At(c, "claim") /\ \E o \in Outcomes("claim") : ClaimAttempt(c, o)

(* Fault: an alert that could not be published keeps its claim. *)
PublishKeepsClaim(c) ==
  /\ At(c, "publish")
  /\ UNCHANGED <<claim, record>>
  /\ \E o \in Outcomes("publish") :
       \/ o = "ok" /\ GoTo(c, "send") /\ UNCHANGED ledger
       \/ Retried(c, o) /\ Retry(c) /\ UNCHANGED ledger
       \/ Raised(c, o) /\ Finish(c, "lost")

(* publish_alert; an error releases the claim.                             *)
Publish(c) ==
  /\ At(c, "publish")
  /\ \E o \in Outcomes("publish") :
       \/ o = "ok" /\ GoTo(c, "send")
       \/ Retried(c, o) /\ Retry(c)
       \/ Raised(c, o) /\ GoTo(c, "release")
  /\ UNCHANGED <<claim, record, ledger>>

(* Fault: the key is deleted whoever's token it holds. *)
ReleaseAny(c, o) ==
  LET f == job[c].fp
  IN  /\ claim' = IF Executed(o) THEN [claim EXCEPT ![f] = NoToken] ELSE claim
      /\ ledger' = IF Executed(o) THEN [ledger EXCEPT ![f] = Blank] ELSE ledger
      /\ UNCHANGED record
      /\ IF Retried(c, o) THEN Retry(c) ELSE Become(c, Idle)

(* Fault: a release that failed for good is begun again. *)
ReleaseUntilDone(c, o) ==
  LET deleted == Executed(o) /\ Owns(c)
  IN  /\ claim' = IF deleted THEN [claim EXCEPT ![job[c].fp] = NoToken] ELSE claim
      /\ ledger' = IF deleted THEN [ledger EXCEPT ![job[c].fp] = Blank] ELSE ledger
      /\ UNCHANGED record
      /\ \/ o = "ok" /\ Become(c, Idle)
         \/ Retried(c, o) /\ Retry(c)
         \/ Raised(c, o) /\ GoTo(c, "release")

(* release_alert_claim: delete the key if it still holds the own token.    *)
(* An error is logged and the claim stays.                                 *)
ReleaseAttempt(c, o) ==
  LET f == job[c].fp
      deleted == Executed(o) /\ Owns(c)
      Clear == ledger' = IF deleted THEN [ledger EXCEPT ![f] = Blank]
                                    ELSE ledger
  IN  /\ claim' = IF deleted THEN [claim EXCEPT ![f] = NoToken] ELSE claim
      /\ UNCHANGED record
      /\ \/ o = "ok" /\ Clear /\ Become(c, Idle)
         \/ Retried(c, o) /\ Retry(c) /\ Clear
         \/ Raised(c, o) /\ deleted /\ Clear /\ Become(c, Idle)
         \/ Raised(c, o) /\ ~deleted /\ Finish(c, "lost")

Release(c) ==
  At(c, "release") /\ \E o \in Outcomes("release") : ReleaseAttempt(c, o)

----------------------------------------------------------------------------
(* send_alert *)

ShouldNotify(c) == job[c].severity >= MinSeverity

(* Fault: the last channel decides whether the alert was delivered. *)
PostLastDecides(c) ==
  LET Tell == ledger' = IF Owns(c) THEN [ledger EXCEPT ![job[c].fp].told = TRUE]
                                   ELSE ledger
      Tried(d) == Become(c, [job[c] EXCEPT !.channel = @ + 1, !.delivered = d])
  IN  /\ At(c, "send") /\ ShouldNotify(c)
      /\ job[c].channel < NumChannels
      /\ \/ Tell /\ Tried(TRUE)
         \/ UNCHANGED ledger /\ Tried(FALSE)
      /\ UNCHANGED <<claim, record>>

(* _post to the next channel: response.ok, that is any status below 400,   *)
(* counts as delivered: also a redirection, which is not followed and      *)
(* leaves the alert with nobody.  A lost reply does not count, though the  *)
(* channel has taken the alert.  An exception that is no RequestException  *)
(* ends send_alert, and correlate() treats the alert as undelivered.       *)
Post(c) ==
  LET Tell == ledger' = IF Owns(c) THEN [ledger EXCEPT ![job[c].fp].told = TRUE]
                                   ELSE ledger
      Tried(d) == Become(c, [job[c] EXCEPT !.channel = @ + 1, !.delivered = d])
  IN  /\ At(c, "send") /\ ShouldNotify(c)
      /\ job[c].channel < NumChannels
      /\ \/ Tell /\ Tried(TRUE)                                  \* taken
         \/ UNCHANGED ledger /\ Tried(job[c].delivered)          \* refused
         \/ /\ <<"send", "redirect">> \in Faults
            /\ UNCHANGED ledger /\ Tried(TRUE)
         \/ /\ <<"send", "reply">> \in Faults
            /\ Tell /\ Tried(job[c].delivered)
         \/ /\ <<"send", "raise">> \in Faults
            /\ UNCHANGED ledger /\ GoTo(c, "release")
      /\ UNCHANGED <<claim, record>>

(* Fault: an alert that went to every channel counts as delivered. *)
SendCountsAttempts(c) ==
  /\ At(c, "send")
  /\ ~ShouldNotify(c) \/ job[c].channel = NumChannels
  /\ UNCHANGED <<claim, record>>
  /\ Finish(c, IF ShouldNotify(c) THEN "kept" ELSE "quiet")

(* The value send_alert returns: an alert below the threshold counts as    *)
(* delivered, one that no channel took (or that has no channel) does not.  *)
SendAlert(c) ==
  /\ At(c, "send")
  /\ ~ShouldNotify(c) \/ job[c].channel = NumChannels
  /\ UNCHANGED <<claim, record>>
  /\ \/ ~ShouldNotify(c) /\ Finish(c, "quiet")
     \/ ShouldNotify(c) /\ job[c].delivered /\ Finish(c, "kept")
     \/ /\ ShouldNotify(c) /\ ~job[c].delivered
        /\ GoTo(c, "release") /\ UNCHANGED ledger

----------------------------------------------------------------------------
(* The environment *)

(* The process dies and a new one starts with nothing in its hands.        *)
Crash(c) ==
  /\ <<"process", "crash">> \in Faults
  /\ Busy(c)
  /\ UNCHANGED <<claim, record>>
  /\ Finish(c, "lost")

(* The cooldown of f runs out: Redis drops the key.                        *)
ExpireClaim(f) ==
  /\ claim[f] # NoToken
  /\ claim' = [claim EXCEPT ![f] = NoToken]
  /\ ledger' = [ledger EXCEPT ![f] = Blank]
  /\ job' = [c \in Correlators |->
               IF Owns(c) /\ job[c].fp = f
                 THEN [job[c] EXCEPT !.lapsed = TRUE] ELSE job[c]]
  /\ UNCHANGED record

(* The record of f runs out a day after it was written: long after any     *)
(* alert that was being handled then.                                      *)
ExpireRecord(f) ==
  /\ f \in record
  /\ \A c \in Correlators : Busy(c) => job[c].fp # f
  /\ record' = record \ {f}
  /\ UNCHANGED <<job, claim, ledger>>

----------------------------------------------------------------------------
Handle(c) ==
  \/ Store(c) \/ Claim(c) \/ Publish(c) \/ Release(c) \/ Post(c) \/ SendAlert(c)

Next ==
  \/ \E c \in Correlators : Match(c) \/ Handle(c) \/ Crash(c)
  \/ \E f \in Fingerprints : ExpireClaim(f) \/ ExpireRecord(f)

(* A thread of the program keeps running (every call it makes returns or   *)
(* times out), and Redis expires keys.                                     *)
Fairness ==
  /\ \A c \in Correlators : WF_vars(Handle(c))
  /\ \A f \in Fingerprints : WF_vars(ExpireClaim(f))

Spec == Init /\ [][Next]_vars /\ Fairness

----------------------------------------------------------------------------
(* Properties *)

Notifying(c) == job[c].step \in {"publish", "send"}

(* The failures that can leave a claim behind: the reply to the SET is     *)
(* lost (the retry then finds its own token and takes the alert for        *)
(* suppressed), the release does not get through, or the process dies.     *)
OrphanFaults ==
  {<<"claim", "reply">>, <<"release", "request">>, <<"release", "reject">>,
   <<"process", "crash">>}

(* Two correlators are never publishing or notifying the same alert,       *)
(* unless the cooldown of one of them ran out while it was at it: the SET  *)
(* NX of claim_alert, and the token comparison of release_alert_claim.     *)
SingleNotifier ==
  \A c, d \in Correlators :
    /\ c # d /\ Notifying(c) /\ Notifying(d) /\ job[c].fp = job[d].fp
    => job[c].lapsed \/ job[d].lapsed

(* Whatever fails while an alert is stored, published or sent, its claim   *)
(* is kept after a delivery or given back: a claim that nobody works on    *)
(* and nobody was told of takes one of OrphanFaults (correlate, every path *)
(* out of the handling of a match).                                        *)
NoOrphan ==
  \A f \in Fingerprints :
    /\ ledger[f].mark = "lost" => Faults \cap OrphanFaults # {}
    /\ ledger[f].mark = "open" =>
         \E c \in Correlators : Busy(c) /\ job[c].fp = f /\ Owns(c)

(* An alert is on record while it is claimed, published and sent:          *)
(* correlate stores before it claims.                                      *)
RecordBeforeNotification ==
  \A c \in Correlators :
    job[c].step \in Steps \ {"store"} => job[c].fp \in record

(* A fingerprint cools down after a delivery only if a channel really took *)
(* the alert under this very claim (send_alert's count of deliveries),     *)
(* unless a channel may answer with a redirection.                         *)
CooldownWasTold ==
  \A f \in Fingerprints :
    ledger[f].mark = "kept" =>
      ledger[f].told \/ <<"send", "redirect">> \in Faults

(* The claim of a settled alert is taken away by its expiry and by nothing *)
(* else: neither by the late release of an earlier holder nor by another   *)
(* correlator's SET.                                                       *)
SettledUntilExpiry ==
  [][\A f \in Fingerprints :
       /\ ledger[f].mark \in {"kept", "quiet"}
       /\ claim'[f] # claim[f]
       => ExpireClaim(f)]_vars

(* Once a channel took an alert the next one with its fingerprint waits    *)
(* for the cooldown, so that nobody is notified twice.  This needs the     *)
(* replies of the channels (neither <<"send", "reply">> nor "raise"): an   *)
(* alert whose POST timed out counts as undelivered, its claim is released.*)
NoRepeatWithinCooldown ==
  [][\A f \in Fingerprints :
       ledger[f].told /\ claim'[f] # claim[f] => ExpireClaim(f)]_vars

(* The handling of an alert comes to an end, however often Redis and the   *)
(* channels fail: _with_retry and the loop over the channels are bounded.  *)
HandlingEnds ==
  \A c \in Correlators : Busy(c) ~> ~Busy(c)

(* The pipeline is an implementation of the abstract cooldown.             *)
PhaseOf(f) ==
  IF claim[f] = NoToken THEN "free"
    ELSE CASE ledger[f].mark \in {"kept", "quiet"} -> "cooling"
           [] ledger[f].mark = "open" -> "held"
           [] OTHER -> "orphaned"

Cooldown ==
  INSTANCE AlertCooldown
    WITH phase <- [f \in Fingerprints |-> PhaseOf(f)],
         Reliable <- Faults \cap OrphanFaults = {}

(* Every step of the pipeline is a step of AlertCooldown or leaves it      *)
(* alone, and every cooldown runs out.                                     *)
ImplementsCooldown == Cooldown!Spec

(* redis_client.py:204: claim_alert claims the alert "and return[s] an     *)
(* ownership token".  A correlator that has set the key must not go on as  *)
(* if the alert were suppressed.                                           *)
ClaimReturnsToken ==
  \A f \in Fingerprints : ledger[f].mark # "lost"

(* redis.conf:20: "Writes fail visibly at the limit so supervision can     *)
(* stop and alert instead of losing evidence."  A correlator that carries  *)
(* on after a match has the record of its alert in Redis.                  *)
NoEvidenceLost ==
  [][\A c \in Correlators :
       At(c, "store") /\ job'[c] = Idle => job[c].fp \in record']_vars
=============================================================================
