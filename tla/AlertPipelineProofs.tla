------------------------ MODULE AlertPipelineProofs ------------------------
(***************************************************************************)
(* Theorems about AlertPipeline, for any number of correlators,            *)
(* fingerprints, tokens, channels and attempts and for any set of faults.  *)
(*                                                                         *)
(* None of the safety properties is inductive as it stands.  What makes    *)
(* them so is the ownership of tokens: a token is in the hands of one      *)
(* correlator only, it is found in Redis only under the fingerprint its    *)
(* owner works on, and a claim that has an owner is marked open.           *)
(***************************************************************************)
EXTENDS AlertPipeline, TLAPS

(* A correlator has a token from the moment claim_alert draws one. *)
TokenDrawn ==
  \A c \in Correlators :
    Busy(c) => (job[c].token = NoToken <=> job[c].step = "store")

(* No two correlators hold the same token. *)
TokensApart ==
  \A c, d \in Correlators :
    /\ Busy(c) /\ Busy(d) /\ c # d
    /\ job[c].token # NoToken
    => job[c].token # job[d].token

(* A correlator's token is under the fingerprint it works on or nowhere. *)
TokenInPlace ==
  \A c \in Correlators, f \in Fingerprints :
    /\ Busy(c) /\ claim[f] # NoToken /\ claim[f] = job[c].token
    => job[c].fp = f

(* The history of a fingerprint is blank exactly while it is not claimed. *)
BlankIffFree ==
  \A f \in Fingerprints :
    /\ claim[f] = NoToken => ledger[f] = Blank
    /\ claim[f] # NoToken => ledger[f].mark # "none"

(* A claim with an owner is open, and an open claim has one. *)
OwnedIsOpen ==
  \A c \in Correlators : Owns(c) => ledger[job[c].fp].mark = "open"

OpenIsOwned ==
  \A f \in Fingerprints :
    ledger[f].mark = "open" =>
      \E c \in Correlators : Busy(c) /\ job[c].fp = f /\ Owns(c)

(* From the grant to the verdict a claim leaves its owner only by expiry. *)
HolderKeepsClaim ==
  \A c \in Correlators : Notifying(c) /\ ~job[c].lapsed => Owns(c)

(* Nothing is delivered before the sending starts, and what is delivered   *)
(* under a claim is told, unless a redirection counted as a delivery.      *)
DeliveredIsTold ==
  \A c \in Correlators :
    /\ job[c].step \in {"store", "claim", "publish"} => ~job[c].delivered
    /\ At(c, "send") /\ job[c].delivered /\ Owns(c) =>
         ledger[job[c].fp].told \/ <<"send", "redirect">> \in Faults

(* Two ways to leave a claim behind take a fault. *)
LostByFault ==
  /\ \A f \in Fingerprints :
       ledger[f].mark = "lost" => Faults \cap OrphanFaults # {}
  /\ \A c \in Correlators :
       At(c, "claim") /\ Owns(c) => <<"claim", "reply">> \in Faults

IInv ==
  /\ TypeOK
  /\ TokenDrawn
  /\ TokensApart
  /\ TokenInPlace
  /\ BlankIffFree
  /\ OwnedIsOpen
  /\ OpenIsOwned
  /\ HolderKeepsClaim
  /\ DeliveredIsTold
  /\ LostByFault
  /\ RecordBeforeNotification
  /\ CooldownWasTold

----------------------------------------------------------------------------
LEMMA JobType ==
  ASSUME TypeOK, NEW c \in Correlators, Busy(c)
  PROVE  job[c] \in Jobs
  BY DEF TypeOK, Busy, Idle, Jobs

(* What Finish and Mark do to the type. *)
LEMMA FinishType ==
  ASSUME TypeOK, NEW c \in Correlators, Busy(c), NEW m \in Marks, Finish(c, m)
  PROVE  /\ job' \in [Correlators -> {Idle} \cup Jobs]
         /\ ledger' \in [Fingerprints -> [mark : Marks, told : BOOLEAN]]
<1>1. job' \in [Correlators -> {Idle} \cup Jobs]
  BY DEF TypeOK, Finish, Become
<1>2. job[c].fp \in Fingerprints
  BY JobType DEF Jobs
<1>3. ASSUME Mark(job[c].fp, m)
      PROVE  ledger' \in [Fingerprints -> [mark : Marks, told : BOOLEAN]]
  BY <1>2, <1>3 DEF TypeOK, Mark
<1> QED
  BY <1>1, <1>3 DEF Finish, TypeOK

LEMMA MarkType ==
  ASSUME TypeOK, NEW f \in Fingerprints, NEW m \in Marks, Mark(f, m)
  PROVE  ledger' \in [Fingerprints -> [mark : Marks, told : BOOLEAN]]
  BY DEF TypeOK, Mark

LEMMA BecomeType ==
  ASSUME TypeOK, NEW c \in Correlators, NEW j \in {Idle} \cup Jobs, Become(c, j)
  PROVE  job' \in [Correlators -> {Idle} \cup Jobs]
  BY DEF TypeOK, Become

(* A job stays one when a field of it changes. *)
LEMMA JobUpdate ==
  ASSUME NEW j \in Jobs
  PROVE  /\ \A s \in Steps : [j EXCEPT !.step = s] \in Jobs
         /\ \A t \in Tokens : [j EXCEPT !.token = t] \in Jobs
         /\ \A n \in 1..MaxAttempts : [j EXCEPT !.attempt = n] \in Jobs
         /\ \A n \in 0..NumChannels : [j EXCEPT !.channel = n] \in Jobs
         /\ \A b \in BOOLEAN : [j EXCEPT !.delivered = b] \in Jobs
         /\ \A b \in BOOLEAN : [j EXCEPT !.lapsed = b] \in Jobs
  BY DEF Jobs

LEMMA RetryType ==
  ASSUME TypeOK, NEW c \in Correlators, Busy(c), NEW o, Retried(c, o), Retry(c)
  PROVE  job' \in [Correlators -> {Idle} \cup Jobs]
<1>1. job[c].attempt + 1 \in 1..MaxAttempts
  BY JobType, SettingsAssumption DEF Jobs, Retried
<1>2. [job[c] EXCEPT !.attempt = @ + 1] \in Jobs
  BY <1>1, JobType, JobUpdate
<1> QED
  BY <1>2, BecomeType DEF Retry

LEMMA GoToType ==
  ASSUME TypeOK, NEW c \in Correlators, Busy(c), NEW s \in Steps, GoTo(c, s)
  PROVE  job' \in [Correlators -> {Idle} \cup Jobs]
<1>1. [job[c] EXCEPT !.step = s] \in Jobs
  BY JobType, JobUpdate
<1>2. 1 \in 1..MaxAttempts
  BY SettingsAssumption
<1>3. [job[c] EXCEPT !.step = s, !.attempt = 1] \in Jobs
  BY <1>1, <1>2, JobUpdate
<1> QED
  BY <1>3, BecomeType DEF GoTo

(* Type correctness. *)
LEMMA TypeStep == TypeOK /\ [Next]_vars => TypeOK'
<1> SUFFICES ASSUME TypeOK, [Next]_vars PROVE TypeOK'
  OBVIOUS
<1> DEFINE JobOK == job' \in [Correlators -> {Idle} \cup Jobs]
           LedgerOK == ledger' \in [Fingerprints -> [mark : Marks, told : BOOLEAN]]
           ClaimOK == claim' \in [Fingerprints -> Tokens \cup {NoToken}]
           RecordOK == record' \in SUBSET Fingerprints
<1>a. /\ UNCHANGED job => JobOK
      /\ UNCHANGED ledger => LedgerOK
      /\ UNCHANGED claim => ClaimOK
      /\ UNCHANGED record => RecordOK
      /\ JobOK /\ LedgerOK /\ ClaimOK /\ RecordOK => TypeOK'
  BY DEF TypeOK
<1>b. ASSUME NEW c \in Correlators, NEW s \in Steps, At(c, s)
      PROVE  /\ Busy(c) /\ job[c] \in Jobs /\ job[c].fp \in Fingerprints
             /\ job[c].token \in Tokens \cup {NoToken}
             /\ job[c].delivered \in BOOLEAN
  <2>1. Busy(c)
    BY <1>b DEF Steps, At, Busy
  <2> QED
    BY <2>1, JobType DEF Jobs
<1>m. {"open", "kept", "quiet", "lost"} \subseteq Marks
  BY DEF Marks
<1>s. {"store", "claim", "publish", "send", "release"} \subseteq Steps
  BY DEF Steps
<1>d. Blank \in [mark : Marks, told : BOOLEAN]
  BY DEF Blank, Marks
<1>n. 1 \in 1..MaxAttempts
  BY SettingsAssumption
<1>i. Idle \in {Idle} \cup Jobs
  OBVIOUS
<1>1. ASSUME NEW c \in Correlators, Match(c) PROVE TypeOK'
  <2>1. ASSUME NEW f \in Fingerprints, NEW s \in Severities
        PROVE  [step |-> "store", fp |-> f, severity |-> s,
                token |-> NoToken, attempt |-> 1, channel |-> 0,
                delivered |-> FALSE, lapsed |-> FALSE] \in Jobs
    BY SettingsAssumption DEF Jobs, Steps
  <2>2. JobOK
    BY <1>1, <2>1, BecomeType DEF Match
  <2> QED
    BY <1>1, <1>a, <2>2 DEF Match
<1>2. ASSUME NEW c \in Correlators, Store(c) PROVE TypeOK'
  <2>1. Busy(c) /\ job[c] \in Jobs /\ job[c].fp \in Fingerprints
    BY <1>2, <1>b, <1>s DEF Store
  <2>2. PICK o \in Outcomes("store") : StoreAttempt(c, o)
    BY <1>2 DEF Store
  <2>3. RecordOK /\ ClaimOK
    BY <2>1, <2>2, <1>a DEF StoreAttempt, TypeOK
  <2>4. CASE /\ UNCHANGED ledger
             /\ \E t \in FreshTokens :
                  Become(c, [job[c] EXCEPT !.step = "claim", !.attempt = 1,
                                           !.token = t])
    <3>1. ASSUME NEW t \in FreshTokens
          PROVE  [job[c] EXCEPT !.step = "claim", !.attempt = 1, !.token = t]
                   \in Jobs
      <4>1. [job[c] EXCEPT !.step = "claim"] \in Jobs
        BY <1>s, <2>1, JobUpdate
      <4>2. [job[c] EXCEPT !.step = "claim", !.attempt = 1] \in Jobs
        BY <1>n, <4>1, JobUpdate
      <4> QED
        BY <4>2, JobUpdate DEF FreshTokens
    <3> QED
      BY <1>a, <2>3, <2>4, <3>1, BecomeType
  <2>5. CASE Retried(c, o) /\ Retry(c) /\ UNCHANGED ledger
    BY <1>a, <2>1, <2>3, <2>5, RetryType
  <2>6. CASE Finish(c, "lost")
    BY <1>a, <1>m, <2>1, <2>3, <2>6, FinishType
  <2> QED
    BY <2>2, <2>4, <2>5, <2>6 DEF StoreAttempt
<1>3. ASSUME NEW c \in Correlators, Claim(c) PROVE TypeOK'
  <2>1. /\ Busy(c) /\ job[c] \in Jobs /\ job[c].fp \in Fingerprints
        /\ job[c].token \in Tokens \cup {NoToken}
    BY <1>3, <1>b, <1>s DEF Claim
  <2>2. PICK o \in Outcomes("claim") : ClaimAttempt(c, o)
    BY <1>3 DEF Claim
  <2>3. RecordOK /\ ClaimOK
    BY <2>1, <2>2, <1>a DEF ClaimAttempt, TypeOK
  <2>4. Mark(job[c].fp, "open") => LedgerOK
    BY <2>1, <1>m, MarkType
  <2>5. CASE Become(c, [job[c] EXCEPT !.step = "publish", !.attempt = 1,
                                     !.lapsed = FALSE])
             /\ (Mark(job[c].fp, "open") \/ UNCHANGED ledger)
    <3>1. [job[c] EXCEPT !.step = "publish", !.attempt = 1, !.lapsed = FALSE]
            \in Jobs
      <4>1. [job[c] EXCEPT !.step = "publish"] \in Jobs
        BY <1>s, <2>1, JobUpdate
      <4>2. [job[c] EXCEPT !.step = "publish", !.attempt = 1] \in Jobs
        BY <1>n, <4>1, JobUpdate
      <4> QED
        BY <4>2, JobUpdate
    <3> QED
      BY <1>a, <2>3, <2>4, <2>5, <3>1, BecomeType
  <2>6. CASE Retried(c, o) /\ Retry(c)
             /\ (Mark(job[c].fp, "open") \/ UNCHANGED ledger)
    BY <1>a, <2>1, <2>3, <2>4, <2>6, RetryType
  <2>7. CASE Finish(c, "lost")
    BY <1>a, <1>m, <2>1, <2>3, <2>7, FinishType
  <2> QED
    BY <2>2, <2>5, <2>6, <2>7 DEF ClaimAttempt
<1>4. ASSUME NEW c \in Correlators, Publish(c) PROVE TypeOK'
  <2>1. Busy(c)
    BY <1>4, <1>b, <1>s DEF Publish
  <2>2. JobOK
    BY <1>4, <1>s, <2>1, GoToType, RetryType DEF Publish
  <2> QED
    BY <1>4, <1>a, <2>2 DEF Publish
<1>5. ASSUME NEW c \in Correlators, Release(c) PROVE TypeOK'
  <2>1. Busy(c) /\ job[c] \in Jobs /\ job[c].fp \in Fingerprints
    BY <1>5, <1>b, <1>s DEF Release
  <2>2. PICK o \in Outcomes("release") : ReleaseAttempt(c, o)
    BY <1>5 DEF Release
  <2>3. RecordOK /\ ClaimOK
    BY <2>1, <2>2, <1>a DEF ReleaseAttempt, TypeOK
  <2>4. ledger' = [ledger EXCEPT ![job[c].fp] = Blank] \/ UNCHANGED ledger
          => LedgerOK
    BY <1>a, <1>d, <2>1 DEF TypeOK
  <2>5. CASE Become(c, Idle)
             /\ (\/ ledger' = [ledger EXCEPT ![job[c].fp] = Blank]
                 \/ UNCHANGED ledger)
    BY <1>a, <1>i, <2>3, <2>4, <2>5, BecomeType
  <2>6. CASE Retried(c, o) /\ Retry(c)
             /\ (\/ ledger' = [ledger EXCEPT ![job[c].fp] = Blank]
                 \/ UNCHANGED ledger)
    BY <1>a, <2>1, <2>3, <2>4, <2>6, RetryType
  <2>7. CASE Finish(c, "lost")
    BY <1>a, <1>m, <2>1, <2>3, <2>7, FinishType
  <2> QED
    BY <2>2, <2>5, <2>6, <2>7 DEF ReleaseAttempt
<1>6. ASSUME NEW c \in Correlators, Post(c) PROVE TypeOK'
  <2>1. /\ Busy(c) /\ job[c] \in Jobs /\ job[c].fp \in Fingerprints
        /\ job[c].delivered \in BOOLEAN
    BY <1>6, <1>b, <1>s DEF Post
  <2>2. ASSUME NEW d \in BOOLEAN
        PROVE  [job[c] EXCEPT !.channel = @ + 1, !.delivered = d] \in Jobs
    <3>1. job[c].channel + 1 \in 0..NumChannels
      BY <1>6, <2>1, SettingsAssumption DEF Jobs, Post
    <3>2. [job[c] EXCEPT !.channel = @ + 1] \in Jobs
      BY <2>1, <3>1, JobUpdate
    <3> QED
      BY <3>2, JobUpdate
  <2>3. \/ GoTo(c, "release")
        \/ \E d \in BOOLEAN :
             Become(c, [job[c] EXCEPT !.channel = @ + 1, !.delivered = d])
    BY <1>6, <2>1 DEF Post
  <2>4. JobOK
    BY <1>s, <2>1, <2>2, <2>3, GoToType, BecomeType
  <2>5. \/ UNCHANGED ledger
        \/ ledger' = [ledger EXCEPT ![job[c].fp].told = TRUE]
    BY <1>6 DEF Post
  <2>6. LedgerOK
    BY <2>1, <2>5 DEF TypeOK
  <2> QED
    BY <1>6, <1>a, <2>4, <2>6 DEF Post
<1>7. ASSUME NEW c \in Correlators, SendAlert(c) PROVE TypeOK'
  <2>1. Busy(c)
    BY <1>7, <1>b, <1>s DEF SendAlert
  <2>2. JobOK /\ LedgerOK
    BY <1>7, <1>a, <1>m, <1>s, <2>1, GoToType, FinishType DEF SendAlert
  <2> QED
    BY <1>7, <1>a, <2>2 DEF SendAlert
<1>8. ASSUME NEW c \in Correlators, Crash(c) PROVE TypeOK'
  BY <1>8, <1>a, <1>m, FinishType DEF Crash
<1>9. ASSUME NEW f \in Fingerprints, ExpireClaim(f) PROVE TypeOK'
  <2>1. ASSUME NEW c \in Correlators, Owns(c)
        PROVE  [job[c] EXCEPT !.lapsed = TRUE] \in Jobs
    BY <2>1, JobType DEF Owns, Jobs
  <2>2. JobOK
    BY <1>9, <2>1 DEF ExpireClaim, TypeOK
  <2>3. ClaimOK /\ LedgerOK
    BY <1>9, <1>d DEF ExpireClaim, TypeOK
  <2> QED
    BY <1>9, <1>a, <2>2, <2>3 DEF ExpireClaim
<1>10. ASSUME NEW f \in Fingerprints, ExpireRecord(f) PROVE TypeOK'
  BY <1>10 DEF ExpireRecord, TypeOK
<1>11. CASE UNCHANGED vars
  BY <1>11 DEF vars, TypeOK
<1> QED
  BY <1>1, <1>2, <1>3, <1>4, <1>5, <1>6, <1>7, <1>8, <1>9, <1>10, <1>11
     DEF Next, Handle

(* Every state of every behaviour is of the declared type. *)
THEOREM TypeCorrect == Spec => []TypeOK
<1>1. Init => TypeOK
  BY DEF Init, TypeOK, Blank, Marks
<1>2. TypeOK /\ [Next]_vars => TypeOK'
  BY TypeStep
<1> QED
  BY <1>1, <1>2, PTL DEF Spec

----------------------------------------------------------------------------
(* What the building blocks of the actions change, field by field. *)

LEMMA BecomeFrame ==
  ASSUME TypeOK, NEW c \in Correlators, NEW j, Become(c, j)
  PROVE  job'[c] = j /\ \A d \in Correlators \ {c} : job'[d] = job[d]
  BY DEF TypeOK, Become

LEMMA RetryFrame ==
  ASSUME TypeOK, NEW c \in Correlators, Busy(c), Retry(c)
  PROVE  /\ job'[c].step = job[c].step /\ job'[c].fp = job[c].fp
         /\ job'[c].token = job[c].token
         /\ job'[c].delivered = job[c].delivered
         /\ job'[c].lapsed = job[c].lapsed
         /\ \A d \in Correlators \ {c} : job'[d] = job[d]
  BY BecomeFrame, JobType DEF Retry, Jobs

LEMMA GoToFrame ==
  ASSUME TypeOK, NEW c \in Correlators, Busy(c), NEW s \in Steps, GoTo(c, s)
  PROVE  /\ job'[c].step = s /\ job'[c].fp = job[c].fp
         /\ job'[c].token = job[c].token
         /\ job'[c].delivered = job[c].delivered
         /\ job'[c].lapsed = job[c].lapsed
         /\ \A d \in Correlators \ {c} : job'[d] = job[d]
<1> DEFINE k == [job[c] EXCEPT !.step = s]
<1>1. /\ k.step = s /\ k.fp = job[c].fp /\ k.token = job[c].token
      /\ k.delivered = job[c].delivered /\ k.lapsed = job[c].lapsed
  BY JobType DEF Jobs
<1>2. k \in Jobs
  BY JobType, JobUpdate
<1>3. job'[c] = [k EXCEPT !.attempt = 1]
  BY BecomeFrame DEF GoTo
<1> HIDE DEF k
<1>4. /\ job'[c].step = k.step /\ job'[c].fp = k.fp
      /\ job'[c].token = k.token
      /\ job'[c].delivered = k.delivered /\ job'[c].lapsed = k.lapsed
  BY <1>2, <1>3 DEF Jobs
<1> QED
  BY <1>1, <1>4, BecomeFrame DEF GoTo

LEMMA MarkFrame ==
  ASSUME TypeOK, NEW f \in Fingerprints, NEW m, Mark(f, m)
  PROVE  /\ ledger'[f].mark = m /\ ledger'[f].told = ledger[f].told
         /\ \A g \in Fingerprints \ {f} : ledger'[g] = ledger[g]
  BY DEF TypeOK, Mark

LEMMA FinishFrame ==
  ASSUME TypeOK, NEW c \in Correlators, Busy(c), NEW m, Finish(c, m)
  PROVE  /\ job'[c].step = "idle"
         /\ \A d \in Correlators \ {c} : job'[d] = job[d]
         /\ \A g \in Fingerprints \ {job[c].fp} : ledger'[g] = ledger[g]
         /\ ledger'[job[c].fp].told = ledger[job[c].fp].told
         /\ ledger'[job[c].fp].mark =
              IF job[c].token # NoToken /\ claim'[job[c].fp] = job[c].token
                THEN m ELSE ledger[job[c].fp].mark
         /\ \/ job[c].token # NoToken /\ claim'[job[c].fp] = job[c].token
            \/ ledger' = ledger
<1>1. job[c].fp \in Fingerprints
  BY JobType DEF Jobs
<1>2. /\ job'[c].step = "idle"
      /\ \A d \in Correlators \ {c} : job'[d] = job[d]
  BY BecomeFrame DEF Finish, Idle
<1>3. CASE job[c].token # NoToken /\ claim'[job[c].fp] = job[c].token
  <2>1. Mark(job[c].fp, m)
    BY <1>3 DEF Finish
  <2> QED
    BY <1>1, <1>2, <1>3, <2>1, MarkFrame
<1>4. CASE ~(job[c].token # NoToken /\ claim'[job[c].fp] = job[c].token)
  <2>1. ledger' = ledger
    BY <1>4 DEF Finish
  <2> QED
    BY <1>2, <1>4, <2>1
<1> QED
  BY <1>3, <1>4
----------------------------------------------------------------------------
(* The invariant is preserved: first by the two kinds of step that leave   *)
(* the claims alone.                                                       *)

(* A busy correlator moves on in its work. *)
LEMMA MoveStep ==
  ASSUME IInv, TypeOK', NEW c \in Correlators, Busy(c),
         UNCHANGED <<claim, ledger>>, record \subseteq record',
         \A d \in Correlators \ {c} : job'[d] = job[d],
         job'[c].fp = job[c].fp, job'[c].token = job[c].token,
         job'[c].lapsed = job[c].lapsed,
         job'[c].step \in Steps,
         job'[c].step = "store" <=> job[c].step = "store",
         job'[c].step = "claim" <=> job[c].step = "claim",
         job'[c].step \in {"publish", "send"} => Notifying(c),
         job'[c].step # "release" /\ job'[c].delivered
           => \/ job'[c].step = job[c].step /\ job[c].delivered
              \/ /\ job'[c].step = "send"
                 /\ Owns(c) => \/ ledger[job[c].fp].told
                               \/ <<"send", "redirect">> \in Faults
  PROVE  IInv'
<1>1. job'[c].step # "idle"
  BY DEF Steps
<1>2. \A d \in Correlators : (Busy(d)' <=> Busy(d)) /\ (Owns(d)' <=> Owns(d))
  BY <1>1 DEF Busy, Owns
<1>3. \A d \in Correlators : Busy(d) =>
        job'[d].fp = job[d].fp /\ job'[d].token = job[d].token
  OBVIOUS
<1>4. TokenDrawn'
  BY <1>2 DEF IInv, TokenDrawn, Busy
<1>5. TokensApart' /\ TokenInPlace'
  BY <1>2, <1>3 DEF IInv, TokensApart, TokenInPlace
<1>6. BlankIffFree' /\ CooldownWasTold'
  BY DEF IInv, BlankIffFree, CooldownWasTold
<1>7. OwnedIsOpen'
  BY <1>2, <1>3 DEF IInv, OwnedIsOpen, Owns
<1>8. OpenIsOwned'
  <2> SUFFICES ASSUME NEW f \in Fingerprints, ledger[f].mark = "open"
               PROVE  \E d \in Correlators :
                        Busy(d)' /\ job'[d].fp = f /\ Owns(d)'
    BY DEF OpenIsOwned
  <2>1. PICK d \in Correlators : Busy(d) /\ job[d].fp = f /\ Owns(d)
    BY DEF IInv, OpenIsOwned
  <2> QED
    BY <2>1, <1>2, <1>3
<1>9. HolderKeepsClaim'
  BY <1>2 DEF IInv, HolderKeepsClaim, Notifying
<1>10. DeliveredIsTold'
  <2> SUFFICES ASSUME NEW d \in Correlators
               PROVE  /\ job'[d].step \in {"store", "claim", "publish"}
                           => ~job'[d].delivered
                      /\ job'[d].step = "send" /\ job'[d].delivered /\ Owns(d)'
                           => \/ ledger[job'[d].fp].told
                              \/ <<"send", "redirect">> \in Faults
    BY DEF DeliveredIsTold, At
  <2>1. CASE d # c
    BY <2>1, <1>2 DEF IInv, DeliveredIsTold, At
  <2>2. CASE d = c
    BY <2>2, <1>2, <1>3 DEF IInv, DeliveredIsTold, At
  <2> QED
    BY <2>1, <2>2
<1>11. LostByFault'
  BY <1>2 DEF IInv, LostByFault, At
<1>12. RecordBeforeNotification'
  <2>1. job[c].step \in Steps
    BY JobType DEF IInv, Jobs
  <2> QED
    BY <2>1 DEF IInv, RecordBeforeNotification
<1> QED
  BY <1>4, <1>5, <1>6, <1>7, <1>8, <1>9, <1>10, <1>11, <1>12 DEF IInv

(* A correlator is done and leaves its claim as it is in Redis. *)
LEMMA FinishStep ==
  ASSUME IInv, TypeOK', NEW c \in Correlators, Busy(c),
         NEW m \in {"kept", "quiet", "lost"}, Finish(c, m),
         UNCHANGED <<claim, record>>,
         m = "lost" /\ Owns(c) => Faults \cap OrphanFaults # {},
         m = "kept" /\ Owns(c) => \/ ledger[job[c].fp].told
                                  \/ <<"send", "redirect">> \in Faults
  PROVE  IInv'
<1> USE DEF IInv
<1>1. /\ job'[c].step = "idle"
      /\ \A d \in Correlators \ {c} : job'[d] = job[d]
      /\ \A g \in Fingerprints \ {job[c].fp} : ledger'[g] = ledger[g]
      /\ ledger'[job[c].fp].told = ledger[job[c].fp].told
      /\ ledger'[job[c].fp].mark =
           IF Owns(c) THEN m ELSE ledger[job[c].fp].mark
      /\ Owns(c) \/ ledger' = ledger
  BY FinishFrame DEF Owns
<1>2. job[c].fp \in Fingerprints /\ job[c].token \in Tokens \cup {NoToken}
  BY JobType DEF Jobs
<1>3. ~Busy(c)' /\ ~Owns(c)'
  BY <1>1 DEF Busy, Owns
<1>4. \A d \in Correlators \ {c} :
        (Busy(d)' <=> Busy(d)) /\ (Owns(d)' <=> Owns(d))
  BY <1>1 DEF Busy, Owns
<1>5. Owns(c) => \A d \in Correlators \ {c} : Busy(d) /\ Owns(d) =>
        job[d].fp # job[c].fp
  BY DEF Owns, TokensApart
<1>6. TokenDrawn' /\ TokensApart' /\ TokenInPlace'
  BY <1>1, <1>3, <1>4 DEF TokenDrawn, TokensApart, TokenInPlace
<1>7. BlankIffFree'
  BY <1>1, <1>2 DEF BlankIffFree, Owns
<1>8. OwnedIsOpen'
  <2> SUFFICES ASSUME NEW d \in Correlators, Owns(d)'
               PROVE  ledger'[job'[d].fp].mark = "open"
    BY DEF OwnedIsOpen
  <2>1. d # c /\ Owns(d) /\ Busy(d) /\ job'[d] = job[d]
    BY <1>1, <1>3, <1>4 DEF Owns
  <2>2. job[d].fp \in Fingerprints
    BY <2>1, JobType DEF Jobs
  <2> QED
    BY <1>1, <1>5, <2>1, <2>2 DEF OwnedIsOpen
<1>9. OpenIsOwned'
  <2> SUFFICES ASSUME NEW f \in Fingerprints, ledger'[f].mark = "open"
               PROVE  \E d \in Correlators :
                        Busy(d)' /\ job'[d].fp = f /\ Owns(d)'
    BY DEF OpenIsOwned
  <2>1. ledger[f].mark = "open" /\ (Owns(c) => f # job[c].fp)
    BY <1>1, <1>2
  <2>2. PICK d \in Correlators : Busy(d) /\ job[d].fp = f /\ Owns(d)
    BY <2>1 DEF OpenIsOwned
  <2>3. d # c
    BY <2>1, <2>2
  <2> QED
    BY <1>1, <1>4, <2>2, <2>3
<1>10. HolderKeepsClaim' /\ DeliveredIsTold'
  <2>1. \A d \in Correlators \ {c} : Owns(d) =>
          ledger'[job[d].fp].told = ledger[job[d].fp].told
    BY <1>1, JobType DEF Owns, Jobs
  <2> QED
    BY <1>1, <1>3, <1>4, <2>1
       DEF HolderKeepsClaim, Notifying, DeliveredIsTold, At
<1>11. LostByFault'
  BY <1>1, <1>2, <1>3, <1>4 DEF LostByFault, At
<1>12. RecordBeforeNotification'
  BY <1>1 DEF RecordBeforeNotification, Steps
<1>13. CooldownWasTold'
  BY <1>1, <1>2 DEF CooldownWasTold
<1> QED
  BY <1>6, <1>7, <1>8, <1>9, <1>10, <1>11, <1>12, <1>13
----------------------------------------------------------------------------
(* Then by the steps that change a claim. *)

(* The SET NX of c took effect; c goes on, or gives up after a last lost   *)
(* reply.                                                                  *)
LEMMA OpenStep ==
  ASSUME IInv, TypeOK', NEW c \in Correlators, At(c, "claim"),
         NEW f \in Fingerprints, f = job[c].fp, claim[f] = NoToken,
         claim' = [claim EXCEPT ![f] = job[c].token], UNCHANGED record,
         \A d \in Correlators \ {c} : job'[d] = job[d],
         \/ /\ job'[c].step \in {"claim", "publish"}
            /\ job'[c].step = "claim" => <<"claim", "reply">> \in Faults
            /\ job'[c].fp = f /\ job'[c].token = job[c].token
            /\ job'[c].delivered = job[c].delivered
            /\ Mark(f, "open")
         \/ /\ job'[c].step = "idle" /\ <<"claim", "reply">> \in Faults
            /\ Mark(f, "lost")
  PROVE  IInv'
<1> USE DEF IInv
<1>1. Busy(c) /\ job[c].token # NoToken /\ ~Owns(c)
  BY DEF At, Busy, TokenDrawn, Owns
<1>2. /\ claim'[f] = job[c].token
      /\ \A g \in Fingerprints \ {f} : claim'[g] = claim[g]
  BY DEF TypeOK
<1>3. /\ ledger'[f].mark = IF job'[c].step = "idle" THEN "lost" ELSE "open"
      /\ \A g \in Fingerprints \ {f} : ledger'[g] = ledger[g]
  BY MarkFrame
<1>4. \A d \in Correlators \ {c} :
        Busy(d) => /\ job[d].fp \in Fingerprints
                   /\ job[d].fp = f => ~Owns(d) /\ ~Owns(d)'
                   /\ Owns(d)' <=> Owns(d)
  BY <1>1, <1>2, JobType DEF Owns, Jobs, TokensApart, Busy
<1>5. \A d \in Correlators \ {c} :
        (Busy(d)' <=> Busy(d)) /\ (Owns(d)' <=> Owns(d))
  BY <1>4 DEF Busy, Owns
<1>6. job'[c].step # "idle" =>
        Busy(c)' /\ Owns(c)' /\ job'[c].fp = f /\ job'[c].token = job[c].token
  BY <1>1, <1>2 DEF Busy, Owns
<1>7. job'[c].step = "idle" => ~Busy(c)' /\ ~Owns(c)'
  BY DEF Busy, Owns
<1>8. TokenDrawn'
  BY <1>1, <1>5, <1>6, <1>7 DEF TokenDrawn, Busy
<1>9. TokensApart'
  BY <1>1, <1>5, <1>6, <1>7 DEF TokensApart
<1>10. TokenInPlace'
  <2> SUFFICES ASSUME NEW d \in Correlators, NEW g \in Fingerprints,
                      Busy(d)', claim'[g] # NoToken,
                      claim'[g] = job'[d].token
               PROVE  job'[d].fp = g
    BY DEF TokenInPlace
  <2>1. CASE d = c /\ g # f
    BY <1>1, <1>2, <1>6, <1>7, <2>1 DEF TokenInPlace
  <2>2. CASE d = c /\ g = f
    BY <1>6, <1>7, <2>2
  <2>3. CASE d # c /\ g # f
    BY <1>2, <1>5, <2>3 DEF TokenInPlace
  <2>4. CASE d # c /\ g = f
    BY <1>1, <1>2, <1>5, <2>4 DEF TokensApart
  <2> QED
    BY <2>1, <2>2, <2>3, <2>4
<1>11. BlankIffFree'
  BY <1>1, <1>2, <1>3 DEF BlankIffFree
<1>12. OwnedIsOpen'
  BY <1>3, <1>4, <1>5, <1>6, <1>7 DEF OwnedIsOpen, Owns
<1>13. OpenIsOwned'
  <2> SUFFICES ASSUME NEW g \in Fingerprints, ledger'[g].mark = "open"
               PROVE  \E d \in Correlators :
                        Busy(d)' /\ job'[d].fp = g /\ Owns(d)'
    BY DEF OpenIsOwned
  <2>1. CASE g = f
    BY <1>3, <1>6, <2>1
  <2>2. CASE g # f
    <3>1. PICK d \in Correlators : Busy(d) /\ job[d].fp = g /\ Owns(d)
      BY <1>3, <2>2 DEF OpenIsOwned
    <3>2. d # c
      BY <1>1, <3>1
    <3> QED
      BY <1>5, <3>1, <3>2
  <2> QED
    BY <2>1, <2>2
<1>14. HolderKeepsClaim'
  BY <1>5, <1>6, <1>7 DEF HolderKeepsClaim, Notifying
<1>15. DeliveredIsTold'
  <2>1. ~job[c].delivered
    BY DEF DeliveredIsTold, At
  <2>2. \A d \in Correlators \ {c} : Owns(d) =>
          ledger'[job[d].fp] = ledger[job[d].fp]
    BY <1>3, <1>4 DEF Owns
  <2> QED
    BY <1>5, <1>6, <1>7, <2>1, <2>2 DEF DeliveredIsTold, At
<1>16. LostByFault'
  BY <1>3, <1>5, <1>6, <1>7 DEF LostByFault, At, OrphanFaults
<1>17. RecordBeforeNotification'
  BY <1>6 DEF RecordBeforeNotification, Steps, At
<1>18. CooldownWasTold'
  BY <1>3 DEF CooldownWasTold
<1> QED
  BY <1>8, <1>9, <1>10, <1>11, <1>12, <1>13, <1>14, <1>15, <1>16, <1>17, <1>18

(* A claim disappears from Redis, released by its owner or expired.        *)
LEMMA ClearStep ==
  ASSUME IInv, TypeOK', NEW f \in Fingerprints,
         claim' = [claim EXCEPT ![f] = NoToken],
         ledger' = [ledger EXCEPT ![f] = Blank], UNCHANGED record,
         \A d \in Correlators :
           \/ job'[d] = job[d]
           \/ job'[d].step = "idle"
           \/ /\ Busy(d) /\ job'[d].step = job[d].step
              /\ job'[d].fp = job[d].fp /\ job'[d].token = job[d].token
              /\ job'[d].delivered = job[d].delivered
              /\ job'[d].lapsed \/ job[d].step = "release",
         \A d \in Correlators :
           Owns(d) /\ job[d].fp = f /\ Notifying(d) => job'[d].lapsed,
         \A d \in Correlators :
           Owns(d) /\ job[d].fp # f => job'[d].step # "idle"
  PROVE  IInv'
<1> USE DEF IInv
<1>1. /\ claim'[f] = NoToken /\ ledger'[f] = Blank
      /\ \A g \in Fingerprints \ {f} :
           claim'[g] = claim[g] /\ ledger'[g] = ledger[g]
  BY DEF TypeOK
<1>2. \A d \in Correlators : Busy(d)' =>
        /\ Busy(d) /\ job'[d].step = job[d].step
        /\ job'[d].fp = job[d].fp /\ job'[d].token = job[d].token
        /\ job'[d].delivered = job[d].delivered
        /\ job[d].fp \in Fingerprints
  BY JobType DEF Busy, Jobs
<1>3. \A d \in Correlators : Owns(d)' => Owns(d) /\ job[d].fp # f
  BY <1>1, <1>2 DEF Owns
<1>4. \A d \in Correlators : Owns(d) /\ job[d].fp # f => Busy(d)' /\ Owns(d)'
  BY <1>1, <1>2 DEF Owns, Busy
<1>5. TokenDrawn' /\ TokensApart' /\ TokenInPlace'
  BY <1>1, <1>2 DEF TokenDrawn, TokensApart, TokenInPlace
<1>6. BlankIffFree'
  BY <1>1 DEF BlankIffFree
<1>7. OwnedIsOpen'
  BY <1>1, <1>2, <1>3 DEF OwnedIsOpen, Owns
<1>8. OpenIsOwned'
  <2> SUFFICES ASSUME NEW g \in Fingerprints, ledger'[g].mark = "open"
               PROVE  \E d \in Correlators :
                        Busy(d)' /\ job'[d].fp = g /\ Owns(d)'
    BY DEF OpenIsOwned
  <2>1. g # f /\ ledger[g].mark = "open"
    BY <1>1 DEF Blank
  <2>2. PICK d \in Correlators : Busy(d) /\ job[d].fp = g /\ Owns(d)
    BY <2>1 DEF OpenIsOwned
  <2> QED
    BY <1>2, <1>4, <2>1, <2>2
<1>9. HolderKeepsClaim'
  <2> SUFFICES ASSUME NEW d \in Correlators, Notifying(d)', ~job'[d].lapsed
               PROVE  Owns(d)'
    BY DEF HolderKeepsClaim
  <2>1. Busy(d)' /\ Notifying(d) /\ job'[d] = job[d]
    BY <1>2 DEF Notifying, Busy
  <2>2. Owns(d)
    BY <2>1 DEF HolderKeepsClaim
  <2> QED
    BY <1>4, <2>1, <2>2
<1>10. DeliveredIsTold'
  <2>1. \A d \in Correlators : Busy(d)' \/ job'[d].step = "idle"
    BY DEF Busy
  <2> QED
    BY <1>1, <1>2, <1>3, <2>1 DEF DeliveredIsTold, At, Busy
<1>11. LostByFault'
  <2>1. \A g \in Fingerprints :
          ledger'[g].mark = "lost" => ledger[g].mark = "lost"
    BY <1>1 DEF Blank
  <2>2. \A d \in Correlators : Owns(d)' => job'[d].step = job[d].step
    BY <1>2 DEF Owns
  <2> QED
    BY <1>3, <2>1, <2>2 DEF LostByFault, At
<1>12. RecordBeforeNotification'
  BY <1>2 DEF RecordBeforeNotification, Steps, Busy
<1>13. CooldownWasTold'
  BY <1>1 DEF CooldownWasTold, Blank
<1> QED
  BY <1>5, <1>6, <1>7, <1>8, <1>9, <1>10, <1>11, <1>12, <1>13
----------------------------------------------------------------------------
(* The steps of the specification. *)

LEMMA BusyAt ==
  ASSUME TypeOK, NEW c \in Correlators, NEW s \in Steps, At(c, s)
  PROVE  /\ Busy(c) /\ job[c] \in Jobs /\ job[c].fp \in Fingerprints
         /\ job[c].token \in Tokens \cup {NoToken}
<1>1. Busy(c)
  BY DEF Steps, At, Busy
<1> QED
  BY <1>1, JobType DEF Jobs

LEMMA InvMatch ==
  ASSUME IInv, TypeOK', NEW c \in Correlators, Match(c)
  PROVE  IInv'
<1> USE DEF IInv
<1>1. /\ job'[c].step = "store" /\ job'[c].token = NoToken
      /\ ~job'[c].delivered
      /\ \A d \in Correlators \ {c} : job'[d] = job[d]
      /\ UNCHANGED <<claim, record, ledger>>
  BY BecomeFrame DEF Match
<1>2. ~Busy(c) /\ ~Owns(c) /\ Busy(c)' /\ ~Owns(c)'
  BY <1>1 DEF Match, Busy, Owns
<1>3. \A d \in Correlators \ {c} :
        (Busy(d)' <=> Busy(d)) /\ (Owns(d)' <=> Owns(d))
  BY <1>1 DEF Busy, Owns
<1>4. TokenDrawn' /\ TokensApart' /\ TokenInPlace'
  BY <1>1, <1>2, <1>3 DEF TokenDrawn, TokensApart, TokenInPlace
<1>5. BlankIffFree' /\ CooldownWasTold' /\ OwnedIsOpen'
  BY <1>1, <1>2, <1>3 DEF BlankIffFree, CooldownWasTold, OwnedIsOpen
<1>6. OpenIsOwned'
  <2> SUFFICES ASSUME NEW g \in Fingerprints, ledger'[g].mark = "open"
               PROVE  \E d \in Correlators :
                        Busy(d)' /\ job'[d].fp = g /\ Owns(d)'
    BY DEF OpenIsOwned
  <2>1. PICK d \in Correlators : Busy(d) /\ job[d].fp = g /\ Owns(d)
    BY <1>1 DEF OpenIsOwned
  <2> QED
    BY <1>1, <1>2, <1>3, <2>1
<1>7. HolderKeepsClaim' /\ DeliveredIsTold' /\ LostByFault'
  BY <1>1, <1>2, <1>3
     DEF HolderKeepsClaim, Notifying, DeliveredIsTold, LostByFault, At
<1>8. RecordBeforeNotification'
  BY <1>1 DEF RecordBeforeNotification, Steps
<1> QED
  BY <1>4, <1>5, <1>6, <1>7, <1>8

LEMMA InvStore ==
  ASSUME IInv, TypeOK', NEW c \in Correlators, Store(c)
  PROVE  IInv'
<1> USE DEF IInv
<1>1. /\ Busy(c) /\ job[c] \in Jobs /\ job[c].fp \in Fingerprints
      /\ job[c].step = "store" /\ job[c].token = NoToken /\ ~Owns(c)
      /\ ~job[c].delivered
  BY BusyAt DEF Store, Steps, TokenDrawn, Owns, DeliveredIsTold, At
<1>2. PICK o \in Outcomes("store") : StoreAttempt(c, o)
  BY DEF Store
<1>3. UNCHANGED claim /\ record \subseteq record'
  BY <1>2 DEF StoreAttempt
<1>4. CASE Retried(c, o) /\ Retry(c) /\ UNCHANGED ledger
  <2>1. /\ job'[c].step = job[c].step /\ job'[c].fp = job[c].fp
        /\ job'[c].token = job[c].token
        /\ job'[c].delivered = job[c].delivered
        /\ job'[c].lapsed = job[c].lapsed
        /\ \A d \in Correlators \ {c} : job'[d] = job[d]
    BY <1>1, <1>4, RetryFrame
  <2> QED
    BY <1>1, <1>3, <1>4, <2>1, MoveStep DEF Steps
<1>5. CASE Raised(c, o) /\ Finish(c, "lost")
  \* the record may have been written by the attempt whose reply was lost
  <2>1. /\ job'[c].step = "idle" /\ ledger' = ledger
        /\ \A d \in Correlators \ {c} : job'[d] = job[d]
    BY <1>1, <1>5, FinishFrame
  <2>2. ~Busy(c)' /\ ~Owns(c)'
    BY <2>1 DEF Busy, Owns
  <2>3. \A d \in Correlators \ {c} :
          (Busy(d)' <=> Busy(d)) /\ (Owns(d)' <=> Owns(d))
    BY <1>3, <2>1 DEF Busy, Owns
  <2>4. TokenDrawn' /\ TokensApart' /\ TokenInPlace'
    BY <1>3, <2>1, <2>2, <2>3 DEF TokenDrawn, TokensApart, TokenInPlace
  <2>5. BlankIffFree' /\ CooldownWasTold' /\ OwnedIsOpen'
    BY <1>3, <2>1, <2>2, <2>3 DEF BlankIffFree, CooldownWasTold, OwnedIsOpen
  <2>6. OpenIsOwned'
    BY <1>1, <2>1, <2>2, <2>3 DEF OpenIsOwned
  <2>7. HolderKeepsClaim' /\ DeliveredIsTold' /\ LostByFault'
    BY <2>1, <2>2, <2>3
       DEF HolderKeepsClaim, Notifying, DeliveredIsTold, LostByFault, At
  <2>8. RecordBeforeNotification'
    BY <1>3, <2>1 DEF RecordBeforeNotification, Steps
  <2> QED
    BY <2>4, <2>5, <2>6, <2>7, <2>8
<1>6. CASE /\ o = "ok" /\ UNCHANGED ledger
           /\ \E t \in FreshTokens :
                Become(c, [job[c] EXCEPT !.step = "claim", !.attempt = 1,
                                         !.token = t])
  <2>1. PICK t \in FreshTokens :
          Become(c, [job[c] EXCEPT !.step = "claim", !.attempt = 1, !.token = t])
    BY <1>6
  <2>2. /\ t \in Tokens /\ t # NoToken
        /\ \A g \in Fingerprints : claim[g] # t
        /\ \A d \in Correlators : Busy(d) => job[d].token # t
    BY TokenAssumption DEF FreshTokens
  <2> DEFINE k == [job[c] EXCEPT !.step = "claim"]
             l == [k EXCEPT !.attempt = 1]
  <2>3. 1 \in 1..MaxAttempts /\ "claim" \in Steps
    BY SettingsAssumption DEF Steps
  <2>4. /\ k \in Jobs /\ k.step = "claim" /\ k.fp = job[c].fp
        /\ k.delivered = job[c].delivered
    BY <1>1, <2>3, JobUpdate DEF Jobs
  <2>5. job'[c] = [l EXCEPT !.token = t]
    BY <2>1, BecomeFrame
  <2> HIDE DEF k
  <2>6. /\ l \in Jobs /\ l.step = "claim" /\ l.fp = job[c].fp
        /\ l.delivered = job[c].delivered
    BY <2>3, <2>4, JobUpdate DEF Jobs
  <2> HIDE DEF l
  <2>7. /\ job'[c].step = "claim" /\ job'[c].fp = job[c].fp
        /\ job'[c].token = t /\ ~job'[c].delivered
        /\ \A d \in Correlators \ {c} : job'[d] = job[d]
    BY <1>1, <2>1, <2>5, <2>6, BecomeFrame DEF Jobs
  <2>8. Busy(c)' /\ ~Owns(c)'
    BY <1>1, <1>3, <2>2, <2>7 DEF Busy, Owns
  <2>9. \A d \in Correlators \ {c} :
          (Busy(d)' <=> Busy(d)) /\ (Owns(d)' <=> Owns(d))
    BY <1>3, <2>7 DEF Busy, Owns
  <2>10. TokenDrawn' /\ TokensApart'
    BY <2>2, <2>7, <2>8, <2>9 DEF TokenDrawn, TokensApart
  <2>11. TokenInPlace'
    BY <1>3, <2>2, <2>7, <2>8, <2>9 DEF TokenInPlace
  <2>12. BlankIffFree' /\ CooldownWasTold' /\ OwnedIsOpen'
    BY <1>3, <1>6, <2>7, <2>8, <2>9
       DEF BlankIffFree, CooldownWasTold, OwnedIsOpen
  <2>13. OpenIsOwned'
    BY <1>1, <1>6, <2>7, <2>8, <2>9 DEF OpenIsOwned
  <2>14. HolderKeepsClaim' /\ DeliveredIsTold' /\ LostByFault'
    BY <1>6, <2>7, <2>8, <2>9
       DEF HolderKeepsClaim, Notifying, DeliveredIsTold, LostByFault, At
  <2>15. job[c].fp \in record'
    BY <1>2, <1>6 DEF StoreAttempt, Executed
  <2>16. RecordBeforeNotification'
    BY <1>3, <2>7, <2>15 DEF RecordBeforeNotification
  <2> QED
    BY <2>10, <2>11, <2>12, <2>13, <2>14, <2>16
<1> QED
  BY <1>2, <1>4, <1>5, <1>6 DEF StoreAttempt
LEMMA InvClaim ==
  ASSUME IInv, TypeOK', NEW c \in Correlators, Claim(c)
  PROVE  IInv'
<1> USE DEF IInv
<1>1. /\ Busy(c) /\ job[c] \in Jobs /\ job[c].fp \in Fingerprints
      /\ job[c].step = "claim" /\ At(c, "claim")
  BY BusyAt DEF Claim, Steps, At
<1>2. PICK o \in Outcomes("claim") : ClaimAttempt(c, o)
  BY DEF Claim
<1> DEFINE opened == Executed(o) /\ claim[job[c].fp] = NoToken
<1>3. /\ UNCHANGED record
      /\ opened => claim' = [claim EXCEPT ![job[c].fp] = job[c].token]
      /\ ~opened => UNCHANGED claim
      /\ o = "reply" => <<"claim", "reply">> \in Faults
  BY <1>2 DEF ClaimAttempt, Outcomes
<1>4. CASE o = "ok" /\ claim[job[c].fp] = NoToken
  <2>1. /\ Mark(job[c].fp, "open")
        /\ Become(c, [job[c] EXCEPT !.step = "publish", !.attempt = 1,
                                    !.lapsed = FALSE])
    BY <1>2, <1>4 DEF ClaimAttempt, Executed, Retried, Raised, Transient
  <2> DEFINE k == [job[c] EXCEPT !.step = "publish"]
             l == [k EXCEPT !.attempt = 1]
  <2>2. 1 \in 1..MaxAttempts /\ "publish" \in Steps
    BY SettingsAssumption DEF Steps
  <2>3. /\ k \in Jobs /\ k.step = "publish" /\ k.fp = job[c].fp
        /\ k.delivered = job[c].delivered /\ k.token = job[c].token
    BY <1>1, <2>2, JobUpdate DEF Jobs
  <2>4. job'[c] = [l EXCEPT !.lapsed = FALSE]
    BY <2>1, BecomeFrame
  <2> HIDE DEF k
  <2>5. /\ l \in Jobs /\ l.step = "publish" /\ l.fp = job[c].fp
        /\ l.delivered = job[c].delivered /\ l.token = job[c].token
    BY <2>2, <2>3, JobUpdate DEF Jobs
  <2> HIDE DEF l
  <2>6. /\ job'[c].step = "publish" /\ job'[c].fp = job[c].fp
        /\ job'[c].delivered = job[c].delivered
        /\ job'[c].token = job[c].token
        /\ \A d \in Correlators \ {c} : job'[d] = job[d]
    BY <2>1, <2>4, <2>5, BecomeFrame DEF Jobs
  <2>7. opened
    BY <1>4 DEF Executed
  <2> QED
    BY <1>1, <1>3, <1>4, <2>1, <2>6, <2>7, OpenStep
<1>5. CASE Finish(c, "lost") /\ ~opened
  <2>1. Owns(c) => <<"claim", "reply">> \in Faults
    BY <1>1 DEF LostByFault
  <2>2. Owns(c) => Faults \cap OrphanFaults # {}
    BY <2>1 DEF OrphanFaults
  <2> QED
    BY <1>1, <1>3, <1>5, <2>2, FinishStep
<1>6. CASE Finish(c, "lost") /\ opened /\ o # "ok"
  <2>1. <<"claim", "reply">> \in Faults
    BY <1>3, <1>6 DEF Executed
  <2>2. job[c].token # NoToken
    BY <1>1 DEF TokenDrawn
  <2>3. claim'[job[c].fp] = job[c].token
    BY <1>1, <1>3, <1>6 DEF TypeOK
  <2>4. Mark(job[c].fp, "lost")
    BY <1>6, <2>2, <2>3 DEF Finish
  <2>5. /\ job'[c].step = "idle"
        /\ \A d \in Correlators \ {c} : job'[d] = job[d]
    BY <1>1, <1>6, FinishFrame
  <2> QED
    BY <1>1, <1>3, <1>6, <2>1, <2>4, <2>5, OpenStep
<1>7. CASE Retried(c, o) /\ Retry(c)
  <2>1. /\ job'[c].step = job[c].step /\ job'[c].fp = job[c].fp
        /\ job'[c].token = job[c].token
        /\ job'[c].delivered = job[c].delivered
        /\ job'[c].lapsed = job[c].lapsed
        /\ \A d \in Correlators \ {c} : job'[d] = job[d]
    BY <1>1, <1>7, RetryFrame
  <2>2. CASE opened
    <3>1. <<"claim", "reply">> \in Faults
      BY <1>3, <1>7, <2>2 DEF Executed, Retried, Transient
    <3>2. Mark(job[c].fp, "open")
      <4>1. ~(o = "ok" /\ ~(claim[job[c].fp] = NoToken)) /\ ~Raised(c, o)
        BY <1>1, <1>7, SettingsAssumption
           DEF Retried, Raised, Transient, Jobs
      <4> QED
        BY <1>2, <2>2, <4>1 DEF ClaimAttempt
    <3> QED
      BY <1>1, <1>3, <2>1, <2>2, <3>1, <3>2, OpenStep
  <2>3. CASE ~opened
    <3>1. UNCHANGED ledger
      <4>1. ~(o = "ok") /\ ~Raised(c, o)
        BY <1>1, <1>7, SettingsAssumption
           DEF Retried, Raised, Transient, Jobs
      <4> QED
        BY <1>2, <2>3, <4>1 DEF ClaimAttempt
    <3> QED
      BY <1>1, <1>3, <2>1, <2>3, <3>1, MoveStep DEF Steps, DeliveredIsTold, At
  <2> QED
    BY <2>2, <2>3
<1>8. \/ o = "ok" /\ claim[job[c].fp] = NoToken
      \/ o = "ok" /\ ~(claim[job[c].fp] = NoToken) /\ Finish(c, "lost")
      \/ Retried(c, o) /\ Retry(c)
      \/ Raised(c, o) /\ Finish(c, "lost")
  BY <1>2 DEF ClaimAttempt
<1>9. Raised(c, o) => o # "ok"
  BY DEF Raised, Transient
<1> QED
  BY <1>4, <1>5, <1>6, <1>7, <1>8, <1>9

LEMMA InvPublish ==
  ASSUME IInv, TypeOK', NEW c \in Correlators, Publish(c)
  PROVE  IInv'
<1> USE DEF IInv
<1>1. /\ Busy(c) /\ job[c].step = "publish" /\ ~job[c].delivered
      /\ UNCHANGED <<claim, record, ledger>>
  BY BusyAt DEF Publish, Steps, At, DeliveredIsTold
<1>2. \/ \E s \in {"send", "release"} : GoTo(c, s)
      \/ Retry(c)
  BY DEF Publish
<1>3. ASSUME NEW s \in {"send", "release"}, GoTo(c, s)
      PROVE  IInv'
  <2>1. s \in Steps /\ s # "store" /\ s # "claim"
    BY DEF Steps
  <2>2. /\ job'[c].step = s /\ job'[c].fp = job[c].fp
        /\ job'[c].token = job[c].token
        /\ job'[c].delivered = job[c].delivered
        /\ job'[c].lapsed = job[c].lapsed
        /\ \A d \in Correlators \ {c} : job'[d] = job[d]
    BY <1>1, <1>3, <2>1, GoToFrame
  <2> QED
    BY <1>1, <2>1, <2>2, MoveStep DEF Notifying
<1>4. CASE Retry(c)
  <2>1. /\ job'[c].step = job[c].step /\ job'[c].fp = job[c].fp
        /\ job'[c].token = job[c].token
        /\ job'[c].delivered = job[c].delivered
        /\ job'[c].lapsed = job[c].lapsed
        /\ \A d \in Correlators \ {c} : job'[d] = job[d]
    BY <1>1, <1>4, RetryFrame
  <2> QED
    BY <1>1, <2>1, MoveStep DEF Notifying, Steps
<1> QED
  BY <1>2, <1>3, <1>4

LEMMA InvRelease ==
  ASSUME IInv, TypeOK', NEW c \in Correlators, Release(c)
  PROVE  IInv'
<1> USE DEF IInv
<1>1. /\ Busy(c) /\ job[c] \in Jobs /\ job[c].fp \in Fingerprints
      /\ job[c].step = "release"
  BY BusyAt DEF Release, Steps, At
<1>2. PICK o \in Outcomes("release") : ReleaseAttempt(c, o)
  BY DEF Release
<1>3. UNCHANGED record
  BY <1>2 DEF ReleaseAttempt
<1>4. CASE Executed(o) /\ Owns(c)
  <2>1. /\ claim' = [claim EXCEPT ![job[c].fp] = NoToken]
        /\ ledger' = [ledger EXCEPT ![job[c].fp] = Blank]
        /\ Become(c, Idle) \/ Retry(c)
    BY <1>2, <1>4 DEF ReleaseAttempt
  <2>2. /\ \A d \in Correlators \ {c} : job'[d] = job[d]
        /\ \/ job'[c].step = "idle"
           \/ /\ job'[c].step = job[c].step /\ job'[c].fp = job[c].fp
              /\ job'[c].token = job[c].token
              /\ job'[c].delivered = job[c].delivered
    BY <1>1, <2>1, BecomeFrame, RetryFrame DEF Idle
  <2>3. \A d \in Correlators : Owns(d) /\ job[d].fp = job[c].fp => d = c
    BY <1>4 DEF Owns, TokensApart
  <2>4. ~Notifying(c)
    BY <1>1 DEF Notifying
  <2>5. \A d \in Correlators \ {c} : Owns(d) => job'[d].step # "idle"
    BY <2>2 DEF Owns, Busy
  <2> QED
    BY <1>1, <1>3, <2>1, <2>2, <2>3, <2>4, <2>5, ClearStep
<1>5. CASE ~(Executed(o) /\ Owns(c))
  <2>1. UNCHANGED claim
    BY <1>2, <1>5 DEF ReleaseAttempt
  <2>2. CASE Retry(c) /\ UNCHANGED ledger
    <3>1. /\ job'[c].step = job[c].step /\ job'[c].fp = job[c].fp
          /\ job'[c].token = job[c].token
          /\ job'[c].delivered = job[c].delivered
          /\ job'[c].lapsed = job[c].lapsed
          /\ \A d \in Correlators \ {c} : job'[d] = job[d]
      BY <1>1, <2>2, RetryFrame
    <3> QED
      BY <1>1, <1>3, <2>1, <2>2, <3>1, MoveStep DEF Steps
  <2>3. CASE o = "ok" /\ Become(c, Idle) /\ UNCHANGED ledger
    \* the claim had lapsed, or a lost reply hid that it was released
    <3>1. ~Owns(c)
      BY <1>5, <2>3 DEF Executed
    <3>2. ~(job[c].token # NoToken /\ claim'[job[c].fp] = job[c].token)
      BY <1>1, <2>1, <3>1 DEF Owns
    <3>3. Finish(c, "lost")
      BY <2>3, <3>2 DEF Finish
    <3> QED
      BY <1>1, <1>3, <2>1, <3>1, <3>3, FinishStep
  <2>4. CASE Raised(c, o) /\ Finish(c, "lost")
    <3>1. Owns(c) => ~Executed(o)
      BY <1>5
    <3>2. Owns(c) => <<"release", o>> \in Faults /\ o \in {"request", "reject"}
      BY <2>4, <3>1 DEF Executed, Outcomes, Raised, Transient
    <3>3. Owns(c) => Faults \cap OrphanFaults # {}
      BY <3>2 DEF OrphanFaults
    <3> QED
      BY <1>1, <1>3, <2>1, <2>4, <3>3, FinishStep
  <2> QED
    BY <1>2, <1>5, <2>2, <2>3, <2>4 DEF ReleaseAttempt
<1> QED
  BY <1>4, <1>5

LEMMA InvSendAlert ==
  ASSUME IInv, TypeOK', NEW c \in Correlators, SendAlert(c)
  PROVE  IInv'
<1> USE DEF IInv
<1>1. /\ Busy(c) /\ job[c].step = "send" /\ At(c, "send")
      /\ UNCHANGED <<claim, record>>
  BY BusyAt DEF SendAlert, Steps, At
<1>2. CASE Finish(c, "quiet")
  BY <1>1, <1>2, FinishStep
<1>3. CASE job[c].delivered /\ Finish(c, "kept")
  BY <1>1, <1>3, FinishStep DEF DeliveredIsTold
<1>4. CASE GoTo(c, "release") /\ UNCHANGED ledger
  <2>1. "release" \in Steps
    BY DEF Steps
  <2>2. /\ job'[c].step = "release" /\ job'[c].fp = job[c].fp
        /\ job'[c].token = job[c].token
        /\ job'[c].lapsed = job[c].lapsed
        /\ \A d \in Correlators \ {c} : job'[d] = job[d]
    BY <1>1, <1>4, <2>1, GoToFrame
  <2> QED
    BY <1>1, <1>4, <2>1, <2>2, MoveStep
<1> QED
  BY <1>2, <1>3, <1>4 DEF SendAlert

LEMMA InvCrash ==
  ASSUME IInv, TypeOK', NEW c \in Correlators, Crash(c)
  PROVE  IInv'
<1>1. Faults \cap OrphanFaults # {}
  BY DEF Crash, OrphanFaults
<1> QED
  BY <1>1, FinishStep DEF Crash
LEMMA InvPost ==
  ASSUME IInv, TypeOK', NEW c \in Correlators, Post(c)
  PROVE  IInv'
<1> USE DEF IInv
<1>1. /\ Busy(c) /\ job[c] \in Jobs /\ job[c].fp \in Fingerprints
      /\ job[c].step = "send" /\ job[c].channel < NumChannels
      /\ job[c].delivered \in BOOLEAN
      /\ UNCHANGED <<claim, record>>
  BY BusyAt DEF Post, Steps, At, Jobs
<1>2. ASSUME NEW d \in BOOLEAN,
             Become(c, [job[c] EXCEPT !.channel = @ + 1, !.delivered = d])
      PROVE  /\ job'[c].step = "send" /\ job'[c].fp = job[c].fp
             /\ job'[c].token = job[c].token
             /\ job'[c].delivered = d
             /\ job'[c].lapsed = job[c].lapsed
             /\ \A e \in Correlators \ {c} : job'[e] = job[e]
  <2> DEFINE k == [job[c] EXCEPT !.channel = @ + 1]
  <2>1. job[c].channel + 1 \in 0..NumChannels
    BY <1>1, SettingsAssumption DEF Jobs
  <2>2. /\ k \in Jobs /\ k.step = job[c].step /\ k.fp = job[c].fp
        /\ k.token = job[c].token /\ k.lapsed = job[c].lapsed
    BY <1>1, <2>1, JobUpdate DEF Jobs
  <2>3. job'[c] = [k EXCEPT !.delivered = d]
    BY <1>2, BecomeFrame
  <2> HIDE DEF k
  <2> QED
    BY <1>1, <1>2, <2>2, <2>3, BecomeFrame DEF Jobs
<1>3. CASE /\ UNCHANGED ledger
           /\ Become(c, [job[c] EXCEPT !.channel = @ + 1,
                                       !.delivered = job[c].delivered])
  BY <1>1, <1>2, <1>3, MoveStep DEF Steps, Notifying
<1>6. CASE /\ <<"send", "redirect">> \in Faults
           /\ UNCHANGED ledger
           /\ Become(c, [job[c] EXCEPT !.channel = @ + 1, !.delivered = TRUE])
  BY <1>1, <1>2, <1>6, MoveStep DEF Steps, Notifying
<1>4. CASE UNCHANGED ledger /\ GoTo(c, "release")
  <2>1. "release" \in Steps
    BY DEF Steps
  <2>2. /\ job'[c].step = "release" /\ job'[c].fp = job[c].fp
        /\ job'[c].token = job[c].token
        /\ job'[c].lapsed = job[c].lapsed
        /\ \A d \in Correlators \ {c} : job'[d] = job[d]
    BY <1>1, <1>4, <2>1, GoToFrame
  <2> QED
    BY <1>1, <1>4, <2>1, <2>2, MoveStep
<1>5. ASSUME NEW d \in BOOLEAN,
             Become(c, [job[c] EXCEPT !.channel = @ + 1, !.delivered = d]),
             ledger' = IF Owns(c) THEN [ledger EXCEPT ![job[c].fp].told = TRUE]
                                  ELSE ledger
      PROVE  IInv'
  <2>1. /\ job'[c].step = "send" /\ job'[c].fp = job[c].fp
        /\ job'[c].token = job[c].token
        /\ job'[c].lapsed = job[c].lapsed
        /\ \A e \in Correlators \ {c} : job'[e] = job[e]
    BY <1>2, <1>5
  <2>2. \A e \in Correlators : /\ Busy(e)' <=> Busy(e)
                               /\ Owns(e)' <=> Owns(e)
                               /\ job'[e].step = job[e].step
                               /\ job'[e].fp = job[e].fp
                               /\ job'[e].token = job[e].token
    BY <1>1, <2>1 DEF Busy, Owns
  <2>3. \A g \in Fingerprints :
          /\ ledger'[g].mark = ledger[g].mark
          /\ ledger[g].told => ledger'[g].told
          /\ Owns(c) /\ g = job[c].fp => ledger'[g].told
          /\ ~Owns(c) \/ g # job[c].fp => ledger'[g] = ledger[g]
    BY <1>1, <1>5 DEF TypeOK
  <2>4. TokenDrawn' /\ TokensApart' /\ TokenInPlace'
    BY <1>1, <2>2 DEF TokenDrawn, TokensApart, TokenInPlace
  <2>5. BlankIffFree'
    <3>1. Owns(c) => claim[job[c].fp] # NoToken
      BY DEF Owns
    <3> QED
      BY <1>1, <2>3, <3>1 DEF BlankIffFree
  <2>6. OwnedIsOpen' /\ CooldownWasTold'
    <3>1. \A e \in Correlators : Owns(e) => job[e].fp \in Fingerprints
      BY JobType DEF Owns, Jobs
    <3> QED
      BY <2>2, <2>3, <3>1 DEF OwnedIsOpen, CooldownWasTold
  <2>7. OpenIsOwned'
    <3> SUFFICES ASSUME NEW g \in Fingerprints, ledger'[g].mark = "open"
                 PROVE  \E e \in Correlators :
                          Busy(e)' /\ job'[e].fp = g /\ Owns(e)'
      BY DEF OpenIsOwned
    <3>1. PICK e \in Correlators : Busy(e) /\ job[e].fp = g /\ Owns(e)
      BY <2>3 DEF OpenIsOwned
    <3> QED
      BY <2>2, <3>1
  <2>8. HolderKeepsClaim'
    BY <2>1, <2>2 DEF HolderKeepsClaim, Notifying
  <2>9. DeliveredIsTold'
    <3>1. \A e \in Correlators : Owns(e) => job[e].fp \in Fingerprints
      BY JobType DEF Owns, Jobs
    <3>2. \A e \in Correlators \ {c} :
            job'[e] = job[e]
      BY <2>1
    <3> QED
      BY <1>1, <2>2, <2>3, <3>1, <3>2 DEF DeliveredIsTold, At
  <2>10. LostByFault' /\ RecordBeforeNotification'
    BY <1>1, <2>2, <2>3 DEF LostByFault, RecordBeforeNotification, At, Steps
  <2> QED
    BY <2>4, <2>5, <2>6, <2>7, <2>8, <2>9, <2>10
<1> QED
  BY <1>1, <1>3, <1>4, <1>5, <1>6 DEF Post

LEMMA InvExpireClaim ==
  ASSUME IInv, TypeOK', NEW f \in Fingerprints, ExpireClaim(f)
  PROVE  IInv'
<1> USE DEF IInv
<1>1. \A d \in Correlators :
        job'[d] = IF Owns(d) /\ job[d].fp = f
                    THEN [job[d] EXCEPT !.lapsed = TRUE] ELSE job[d]
  BY DEF ExpireClaim
<1>2. \A d \in Correlators : Owns(d) /\ job[d].fp = f =>
        /\ Busy(d) /\ job'[d].step = job[d].step
        /\ job'[d].fp = job[d].fp /\ job'[d].token = job[d].token
        /\ job'[d].delivered = job[d].delivered /\ job'[d].lapsed
  BY <1>1, JobType DEF Owns, Jobs
<1>3. \A d \in Correlators : Owns(d) /\ job[d].fp # f => job'[d].step # "idle"
  BY <1>1 DEF Owns, Busy
<1> QED
  BY <1>1, <1>2, <1>3, ClearStep DEF ExpireClaim

LEMMA InvExpireRecord ==
  ASSUME IInv, TypeOK', NEW f \in Fingerprints, ExpireRecord(f)
  PROVE  IInv'
<1> USE DEF IInv
<1>1. UNCHANGED <<job, claim, ledger>> /\ record' = record \ {f}
  BY DEF ExpireRecord
<1>2. RecordBeforeNotification'
  <2>1. \A c \in Correlators : job[c].step \in Steps => job[c].fp # f
    BY DEF ExpireRecord, Steps, Busy
  <2> QED
    BY <1>1, <2>1 DEF RecordBeforeNotification
<1> QED
  BY <1>1, <1>2
     DEF TokenDrawn, TokensApart, TokenInPlace, BlankIffFree, OwnedIsOpen,
         OpenIsOwned, HolderKeepsClaim, Notifying, DeliveredIsTold,
         LostByFault, CooldownWasTold, Busy, Owns, At

LEMMA InvStutter ==
  ASSUME IInv, UNCHANGED vars
  PROVE  IInv'
  BY DEF vars, IInv, TypeOK, TokenDrawn, TokensApart, TokenInPlace,
         BlankIffFree, OwnedIsOpen, OpenIsOwned, HolderKeepsClaim, Notifying,
         DeliveredIsTold, LostByFault, RecordBeforeNotification,
         CooldownWasTold, Busy, Owns, At

LEMMA InvInit == Init => IInv
<1> SUFFICES ASSUME Init PROVE IInv
  OBVIOUS
<1>1. TypeOK
  BY DEF Init, TypeOK, Blank, Marks
<1>2. \A c \in Correlators : ~Busy(c) /\ ~Owns(c) /\ job[c].step = "idle"
  BY DEF Init, Busy, Owns, Idle
<1>3. \A f \in Fingerprints :
        claim[f] = NoToken /\ ledger[f] = Blank /\ ledger[f].mark = "none"
  BY DEF Init, Blank
<1> QED
  BY <1>1, <1>2, <1>3
     DEF IInv, TokenDrawn, TokensApart, TokenInPlace, BlankIffFree,
         OwnedIsOpen, OpenIsOwned, HolderKeepsClaim, Notifying,
         DeliveredIsTold, LostByFault, RecordBeforeNotification,
         CooldownWasTold, At, Steps

LEMMA InvStep == IInv /\ [Next]_vars => IInv'
<1> SUFFICES ASSUME IInv, [Next]_vars PROVE IInv'
  OBVIOUS
<1>1. TypeOK'
  BY TypeStep DEF IInv
<1> QED
  BY <1>1, InvMatch, InvStore, InvClaim, InvPublish, InvRelease, InvPost,
     InvSendAlert, InvCrash, InvExpireClaim, InvExpireRecord, InvStutter
     DEF Next, Handle

(* The inductive invariant holds in every state. *)
THEOREM Invariance == Spec => []IInv
  BY InvInit, InvStep, PTL DEF Spec

(* The safety properties follow from the invariant, state by state. *)
LEMMA IInvSafe ==
  IInv => /\ SingleNotifier /\ NoOrphan
          /\ RecordBeforeNotification /\ CooldownWasTold
<1>1. IInv => SingleNotifier
  BY DEF IInv, SingleNotifier, HolderKeepsClaim, TokensApart, Owns
<1>2. IInv => NoOrphan
  BY DEF IInv, NoOrphan, LostByFault, OpenIsOwned
<1> QED
  BY <1>1, <1>2 DEF IInv

(* Two correlators never publish or send the same alert at once, unless    *)
(* the cooldown of one of them ran out meanwhile.                          *)
THEOREM OneNotifier == Spec => []SingleNotifier
  BY IInvSafe, Invariance, PTL

(* A claim nobody works on was settled, or one of OrphanFaults happened.   *)
THEOREM ClaimsReleased == Spec => []NoOrphan
  BY IInvSafe, Invariance, PTL

(* What is published or sent is on record. *)
THEOREM RecordedFirst == Spec => []RecordBeforeNotification
  BY IInvSafe, Invariance, PTL

(* A cooldown after a delivery is one in which a channel took the alert.   *)
THEOREM ToldBeforeCooldown == Spec => []CooldownWasTold
  BY IInvSafe, Invariance, PTL

(* What a step takes the claim of a settled alert away with. *)
LEMMA SettledStep ==
  ASSUME IInv, [Next]_vars, NEW f \in Fingerprints,
         ledger[f].mark \in {"kept", "quiet"}, claim'[f] # claim[f]
  PROVE  ExpireClaim(f)
<1> USE DEF IInv
<1>1. claim[f] # NoToken
  BY DEF BlankIffFree, Blank
<1>2. \A c \in Correlators : Owns(c) => job[c].fp # f
  BY DEF OwnedIsOpen
<1>3. ASSUME NEW c \in Correlators, Claim(c) PROVE FALSE
  <2>1. job[c].fp \in Fingerprints
    BY <1>3, BusyAt DEF Claim, Steps
  <2>2. PICK o : ClaimAttempt(c, o)
    BY <1>3 DEF Claim
  <2>3. \/ UNCHANGED claim
        \/ /\ claim[job[c].fp] = NoToken
           /\ claim' = [claim EXCEPT ![job[c].fp] = job[c].token]
    BY <2>2 DEF ClaimAttempt
  <2> QED
    BY <1>1, <2>1, <2>3 DEF TypeOK
<1>4. ASSUME NEW c \in Correlators, Release(c) PROVE FALSE
  <2>1. job[c].fp \in Fingerprints
    BY <1>4, BusyAt DEF Release, Steps
  <2>2. PICK o \in Outcomes("release") : ReleaseAttempt(c, o)
    BY <1>4 DEF Release
  <2>3. \/ UNCHANGED claim
        \/ Owns(c) /\ claim' = [claim EXCEPT ![job[c].fp] = NoToken]
    BY <2>2 DEF ReleaseAttempt
  <2> QED
    BY <1>2, <2>1, <2>3 DEF TypeOK
<1>5. ASSUME NEW c \in Correlators,
             Match(c) \/ Store(c) \/ Publish(c) \/ Post(c) \/ SendAlert(c)
               \/ Crash(c)
      PROVE  UNCHANGED claim
  BY <1>5 DEF Match, Store, StoreAttempt, Publish, Post, SendAlert, Crash
<1>6. ASSUME NEW g \in Fingerprints, ExpireClaim(g) PROVE g = f
  BY <1>6 DEF ExpireClaim, TypeOK
<1>7. ASSUME NEW g \in Fingerprints, ExpireRecord(g) PROVE UNCHANGED claim
  BY <1>7 DEF ExpireRecord
<1> QED
  BY <1>3, <1>4, <1>5, <1>6, <1>7 DEF Next, Handle, vars

(* A settled claim goes by its expiry only: no release and no SET of any   *)
(* correlator touches it.                                                  *)
THEOREM SettledStays == Spec => SettledUntilExpiry
<1>1. IInv /\ [Next]_vars =>
        [\A f \in Fingerprints :
           /\ ledger[f].mark \in {"kept", "quiet"}
           /\ claim'[f] # claim[f]
           => ExpireClaim(f)]_vars
  BY SettledStep
<1> QED
  BY <1>1, Invariance, PTL DEF Spec, SettledUntilExpiry

----------------------------------------------------------------------------
(***************************************************************************)
(* The pipeline implements the abstract cooldown: its initial state is one *)
(* of AlertCooldown, and each of its steps moves one fingerprint along the *)
(* phases of AlertCooldown or none.  A fingerprint is orphaned only with   *)
(* one of OrphanFaults.  And no channel is told twice within a cooldown.   *)
(***************************************************************************)

Phase == [f \in Fingerprints |-> PhaseOf(f)]

(* What the abstract specification allows. *)
CooldownStep == Cooldown!Next \/ Phase' = Phase

(* The phase of a fingerprint depends on its claim and on its mark. *)
LEMMA PhaseFrame ==
  ASSUME NEW f, claim'[f] = claim[f], ledger'[f].mark = ledger[f].mark
  PROVE  PhaseOf(f)' = PhaseOf(f)
  BY DEF PhaseOf

LEMMA NoMove ==
  ASSUME \A f \in Fingerprints :
           claim'[f] = claim[f] /\ ledger'[f].mark = ledger[f].mark
  PROVE  CooldownStep
<1>1. \A f \in Fingerprints : PhaseOf(f)' = PhaseOf(f)
  BY PhaseFrame
<1> QED
  BY <1>1 DEF CooldownStep, Phase

LEMMA OneMove ==
  ASSUME NEW f \in Fingerprints,
         \A g \in Fingerprints \ {f} :
           claim'[g] = claim[g] /\ ledger'[g].mark = ledger[g].mark
  PROVE  Cooldown!Move(f, PhaseOf(f), PhaseOf(f)')
<1>1. \A g \in Fingerprints \ {f} : PhaseOf(g)' = PhaseOf(g)
  BY PhaseFrame
<1> QED
  BY <1>1 DEF Cooldown!Move

(* A free fingerprint is claimed. *)
LEMMA OpenPhase ==
  ASSUME IInv, TypeOK', NEW f \in Fingerprints, NEW t \in Tokens,
         NEW m \in {"open", "lost"}, claim[f] = NoToken,
         claim' = [claim EXCEPT ![f] = t], Mark(f, m),
         m = "lost" => Faults \cap OrphanFaults # {}
  PROVE  CooldownStep
<1>1. /\ claim'[f] = t /\ ledger'[f].mark = m
      /\ \A g \in Fingerprints \ {f} :
           claim'[g] = claim[g] /\ ledger'[g] = ledger[g]
  BY MarkFrame DEF IInv, TypeOK
<1>2. Cooldown!Move(f, PhaseOf(f), PhaseOf(f)')
  BY <1>1, OneMove
<1>3. PhaseOf(f) = "free"
  BY DEF PhaseOf
<1>4. PhaseOf(f)' = IF m = "open" THEN "held" ELSE "orphaned"
  BY <1>1, TokenAssumption DEF PhaseOf
<1>5. CASE m = "open"
  BY <1>2, <1>3, <1>4, <1>5
     DEF CooldownStep, Cooldown!Next, Cooldown!Acquire
<1>6. CASE m = "lost"
  <2>1. Phase[f] = "free"
    BY <1>3 DEF Phase
  <2> QED
    BY <1>2, <1>3, <1>4, <1>6, <2>1
       DEF CooldownStep, Cooldown!Next, Cooldown!Abandon, Phase
<1> QED
  BY <1>5, <1>6

(* A correlator is done; what it owns is settled or, by a fault, left.     *)
LEMMA FinishPhase ==
  ASSUME IInv, NEW c \in Correlators, Busy(c),
         NEW m \in {"kept", "quiet", "lost"},
         UNCHANGED claim, Finish(c, m),
         m = "lost" /\ Owns(c) => Faults \cap OrphanFaults # {}
  PROVE  CooldownStep
<1>0. PICK f \in Fingerprints : f = job[c].fp
  BY JobType DEF IInv, Jobs
<1>1. TypeOK
  BY DEF IInv
<1>2. CASE ~Owns(c)
  <2>1. ledger' = ledger
    BY <1>2 DEF Finish, Owns
  <2> QED
    BY <2>1, NoMove
<1>3. CASE Owns(c)
  <2>1. /\ ledger[f].mark = "open" /\ claim[f] # NoToken
        /\ Finish(c, m) /\ Mark(f, m)
    BY <1>0, <1>3 DEF IInv, OwnedIsOpen, Owns, Finish
  <2>2. /\ ledger'[f].mark = m
        /\ \A g \in Fingerprints \ {f} : ledger'[g] = ledger[g]
    BY <1>1, <2>1, MarkFrame
  <2>3. Cooldown!Move(f, PhaseOf(f), PhaseOf(f)')
    BY <2>2, OneMove
  <2>4. /\ PhaseOf(f) = "held"
        /\ PhaseOf(f)' = IF m = "lost" THEN "orphaned" ELSE "cooling"
    BY <2>1, <2>2 DEF PhaseOf
  <2>5. CASE m # "lost"
    BY <1>1, <2>3, <2>4, <2>5
       DEF CooldownStep, Cooldown!Next, Cooldown!Settle
  <2>6. CASE m = "lost"
    <3>1. Phase[f] = "held" /\ Faults \cap OrphanFaults # {}
      BY <1>1, <1>3, <2>4, <2>6 DEF Phase
    <3> QED
      BY <1>1, <2>3, <2>4, <2>6, <3>1
         DEF CooldownStep, Cooldown!Next, Cooldown!Abandon, Phase
  <2> QED
    BY <2>5, <2>6
<1> QED
  BY <1>2, <1>3

(* A claimed fingerprint is freed: given back by its owner, or expired.    *)
LEMMA ClearPhase ==
  ASSUME IInv, NEW f \in Fingerprints, claim[f] # NoToken,
         claim' = [claim EXCEPT ![f] = NoToken],
         ledger' = [ledger EXCEPT ![f] = Blank]
  PROVE  CooldownStep
<1>1. /\ claim'[f] = NoToken
      /\ \A g \in Fingerprints \ {f} :
           claim'[g] = claim[g] /\ ledger'[g] = ledger[g]
  BY DEF IInv, TypeOK
<1>2. Cooldown!Move(f, PhaseOf(f), PhaseOf(f)')
  BY <1>1, OneMove
<1>3. PhaseOf(f) # "free" /\ PhaseOf(f)' = "free"
  BY <1>1 DEF PhaseOf
<1>4. Phase[f] = PhaseOf(f)
  BY DEF Phase
<1> QED
  BY <1>2, <1>3, <1>4 DEF CooldownStep, Cooldown!Next, Cooldown!Lapse, Phase

----------------------------------------------------------------------------
(* Every command and every event.                                          *)

LEMMA ClaimPhase ==
  ASSUME IInv, TypeOK', NEW c \in Correlators, Claim(c)
  PROVE  CooldownStep
<1>1. Busy(c) /\ job[c].token \in Tokens
  <2>1. Busy(c) /\ job[c] \in Jobs /\ job[c].step = "claim"
    BY BusyAt DEF IInv, Claim, At, Steps
  <2> QED
    BY <2>1 DEF IInv, TokenDrawn, Jobs
<1>2. PICK f \in Fingerprints, t \in Tokens :
        f = job[c].fp /\ t = job[c].token
  BY <1>1, JobType DEF IInv, Jobs
<1>3. PICK o \in Outcomes("claim") : ClaimAttempt(c, o)
  BY DEF Claim
<1>4. o = "reply" => Faults \cap OrphanFaults # {}
  BY <1>3 DEF Outcomes, OrphanFaults
<1>5. Owns(c) => Faults \cap OrphanFaults # {}
  BY DEF IInv, LostByFault, Claim, OrphanFaults
<1>6. CASE Executed(o) /\ claim[f] = NoToken
  <2>1. claim' = [claim EXCEPT ![f] = t]
    BY <1>2, <1>3, <1>6 DEF ClaimAttempt
  <2>2. claim'[f] = t /\ t # NoToken
    BY <2>1, TokenAssumption DEF IInv, TypeOK
  <2>3. \/ Mark(f, "open")
        \/ Mark(f, "lost") /\ o = "reply"
    BY <1>2, <1>3, <1>6, <2>2 DEF ClaimAttempt, Executed, Raised, Transient, Finish
  <2> QED
    BY <1>4, <1>6, <2>1, <2>3, OpenPhase
<1>7. CASE ~(Executed(o) /\ claim[f] = NoToken)
  <2>1. UNCHANGED claim
    BY <1>2, <1>3, <1>7 DEF ClaimAttempt
  <2>2. UNCHANGED ledger \/ Finish(c, "lost")
    BY <1>2, <1>3, <1>7 DEF ClaimAttempt, Executed
  <2> QED
    BY <1>1, <1>5, <2>1, <2>2, NoMove, FinishPhase
<1> QED
  BY <1>6, <1>7

LEMMA ReleasePhase ==
  ASSUME IInv, NEW c \in Correlators, Release(c)
  PROVE  CooldownStep
<1>1. Busy(c)
  BY BusyAt DEF IInv, Release, Steps
<1>2. PICK f \in Fingerprints : f = job[c].fp
  BY <1>1, JobType DEF IInv, Jobs
<1>3. PICK o \in Outcomes("release") : ReleaseAttempt(c, o)
  BY DEF Release
<1>4. CASE Executed(o) /\ Owns(c)
  <2>1. claim[f] # NoToken
    BY <1>2, <1>4 DEF Owns
  <2>2. claim' = [claim EXCEPT ![f] = NoToken]
    BY <1>2, <1>3, <1>4 DEF ReleaseAttempt
  <2>3. ledger' = [ledger EXCEPT ![f] = Blank]
    BY <1>2, <1>3, <1>4 DEF ReleaseAttempt
  <2> QED
    BY <2>1, <2>2, <2>3, ClearPhase
<1>5. CASE ~(Executed(o) /\ Owns(c))
  <2>1. UNCHANGED claim
    BY <1>3, <1>5 DEF ReleaseAttempt
  <2>2. UNCHANGED ledger \/ Finish(c, "lost")
    BY <1>3, <1>5 DEF ReleaseAttempt
  <2>3. Owns(c) /\ Finish(c, "lost") /\ ~UNCHANGED ledger
          => Faults \cap OrphanFaults # {}
    BY <1>3, <1>5 DEF ReleaseAttempt, Executed, Raised, Transient, Outcomes, OrphanFaults
  <2> QED
    BY <1>1, <2>1, <2>2, <2>3, NoMove, FinishPhase
<1> QED
  BY <1>4, <1>5

LEMMA PostPhase ==
  ASSUME IInv, NEW c \in Correlators, Post(c)
  PROVE  CooldownStep
<1>1. job[c].fp \in Fingerprints
  BY BusyAt DEF Post, IInv, Steps
<1>2. /\ UNCHANGED claim
      /\ \/ UNCHANGED ledger
         \/ ledger' = [ledger EXCEPT ![job[c].fp].told = TRUE]
  BY DEF Post
<1>3. \A f \in Fingerprints : ledger'[f].mark = ledger[f].mark
  BY <1>1, <1>2 DEF IInv, TypeOK
<1> QED
  BY <1>2, <1>3, NoMove

LEMMA SendPhase ==
  ASSUME IInv, NEW c \in Correlators, SendAlert(c)
  PROVE  CooldownStep
<1>1. Busy(c)
  BY BusyAt DEF IInv, SendAlert, Steps
<1>2. /\ UNCHANGED claim
      /\ UNCHANGED ledger \/ Finish(c, "quiet") \/ Finish(c, "kept")
  BY DEF SendAlert
<1> QED
  BY <1>1, <1>2, NoMove, FinishPhase

LEMMA StorePhase ==
  ASSUME IInv, NEW c \in Correlators, Store(c)
  PROVE  CooldownStep
<1>1. Busy(c) /\ ~Owns(c)
  <2>1. Busy(c) /\ job[c].step = "store"
    BY BusyAt DEF IInv, Store, At, Steps
  <2> QED
    BY <2>1 DEF IInv, TokenDrawn, Owns
<1>2. PICK o \in Outcomes("store") : StoreAttempt(c, o)
  BY DEF Store
<1>3. UNCHANGED claim /\ (UNCHANGED ledger \/ Finish(c, "lost"))
  BY <1>2 DEF StoreAttempt
<1> QED
  BY <1>1, <1>3, NoMove, FinishPhase

LEMMA StepRefines == IInv /\ [Next]_vars => CooldownStep
<1> SUFFICES ASSUME IInv, [Next]_vars PROVE CooldownStep
  OBVIOUS
<1>t. TypeOK'
  BY TypeStep DEF IInv
<1>1. ASSUME NEW c \in Correlators, Handle(c) PROVE CooldownStep
  <2>1. CASE Publish(c)
    BY <2>1, NoMove DEF Publish
  <2> QED
    BY <1>1, <1>t, <2>1, StorePhase, ClaimPhase, ReleasePhase, PostPhase,
       SendPhase DEF Handle
<1>2. ASSUME NEW c \in Correlators, Match(c) PROVE CooldownStep
  BY <1>2, NoMove DEF Match
<1>3. ASSUME NEW c \in Correlators, Crash(c) PROVE CooldownStep
  <2>1. Faults \cap OrphanFaults # {}
    BY <1>3 DEF Crash, OrphanFaults
  <2> QED
    BY <1>3, <2>1, FinishPhase DEF Crash
<1>4. ASSUME NEW f \in Fingerprints, ExpireClaim(f) PROVE CooldownStep
  BY <1>4, ClearPhase DEF ExpireClaim
<1>5. ASSUME NEW f \in Fingerprints, ExpireRecord(f) PROVE CooldownStep
  BY <1>5, NoMove DEF ExpireRecord
<1>6. CASE UNCHANGED vars
  BY <1>6, NoMove DEF vars
<1> QED
  BY <1>1, <1>2, <1>3, <1>4, <1>5, <1>6 DEF Next

(* The initial state and every step of the handling of alerts, by any      *)
(* number of correlators and under any failures, are those of the abstract *)
(* cooldown: AlertCooldown without its fairness.                           *)
THEOREM PipelineImplementsCooldown == Spec => Cooldown!Safety
<1>1. Init => Cooldown!Init
  BY DEF Init, Cooldown!Init, PhaseOf
<1>2. IInv /\ [Next]_vars => [Cooldown!Next]_Phase
  BY StepRefines DEF CooldownStep
<1> QED
  BY <1>1, <1>2, Invariance, PTL DEF Spec, Cooldown!Safety, Phase
----------------------------------------------------------------------------
(* Nobody is notified twice within a cooldown.                             *)

(* Channels that take an alert and are not heard, and exceptions that end  *)
(* send_alert after a delivery.                                            *)
RepeatFaults == {<<"send", "reply">>, <<"send", "raise">>}

(* What a channel was told under a claim, its owner counts as delivered.   *)
ToldIsDelivered ==
  \A c \in Correlators :
    Owns(c) /\ ledger[job[c].fp].told => At(c, "send") /\ job[c].delivered

(* A correlator takes a step in the handling of f. *)
LEMMA ToldFrame ==
  ASSUME IInv, ToldIsDelivered, NEW c \in Correlators, NEW f \in Fingerprints,
         \A d \in Correlators \ {c} : job'[d] = job[d],
         \A g \in Fingerprints \ {f} :
           claim'[g] = claim[g] /\ ledger'[g].told = ledger[g].told,
         ledger'[f].told =>
           /\ claim'[f] = claim[f]
           /\ ledger[f].told \/ (Owns(c) /\ job[c].fp = f),
         Owns(c)' => job'[c].fp = f,
         Owns(c)' /\ ledger'[f].told => At(c, "send")' /\ job'[c].delivered
  PROVE  ToldIsDelivered'
<1> SUFFICES ASSUME NEW d \in Correlators, Owns(d)', ledger'[job'[d].fp].told
             PROVE  At(d, "send")' /\ job'[d].delivered
  BY DEF ToldIsDelivered
<1>1. CASE d = c
  BY <1>1
<1>2. CASE d # c
  <2>1. /\ job'[d] = job[d] /\ Busy(d) /\ job[d].token # NoToken
        /\ claim'[job[d].fp] = job[d].token
    BY <1>2 DEF Owns, Busy
  <2>2. PICK g \in Fingerprints : g = job[d].fp
    BY <2>1, JobType DEF IInv, Jobs
  <2>3. claim'[g] = claim[g]
    BY <2>1, <2>2
  <2>4. Owns(d)
    BY <2>1, <2>2, <2>3 DEF Owns
  <2>5. ~(Owns(c) /\ job[c].fp = g)
    BY <1>2, <2>2, <2>4 DEF IInv, TokensApart, Owns
  <2>6. ledger[g].told
    BY <2>1, <2>2, <2>5
  <2> QED
    BY <2>1, <2>2, <2>4, <2>6 DEF ToldIsDelivered, At
<1> QED
  BY <1>1, <1>2

(* One of the steps that tell nobody, before the sending or after it. *)
LEMMA ToldElsewhere ==
  ASSUME IInv, ToldIsDelivered, NEW c \in Correlators, Busy(c), ~At(c, "send"),
         UNCHANGED claim, NEW m,
         \/ Retry(c) /\ UNCHANGED ledger
         \/ Finish(c, m)
         \/ \E s \in Steps : GoTo(c, s) /\ UNCHANGED ledger
  PROVE  ToldIsDelivered'
<1>0. PICK f \in Fingerprints : f = job[c].fp
  BY JobType DEF IInv, Jobs
<1>1. /\ \A d \in Correlators \ {c} : job'[d] = job[d]
      /\ \A g \in Fingerprints : ledger'[g].told = ledger[g].told
      /\ Owns(c)' => job'[c].fp = f /\ Owns(c)
  <2>1. CASE Retry(c) /\ UNCHANGED ledger
    BY <1>0, <2>1, RetryFrame DEF IInv, Owns
  <2>2. CASE Finish(c, m)
    BY <1>0, <2>2, FinishFrame DEF IInv, Owns, Busy
  <2>3. ASSUME NEW s \in Steps, GoTo(c, s) /\ UNCHANGED ledger
        PROVE  <1>1!1 /\ <1>1!2 /\ <1>1!3
    BY <1>0, <2>3, GoToFrame DEF IInv, Owns
  <2> QED
    BY <2>1, <2>2, <2>3
<1>2. Owns(c)' => ~ledger'[f].told
  BY <1>0, <1>1 DEF ToldIsDelivered
<1> QED
  BY <1>1, <1>2, ToldFrame

LEMMA ToldStore ==
  ASSUME IInv, ToldIsDelivered, NEW c \in Correlators, Store(c)
  PROVE  ToldIsDelivered'
<1>1. Busy(c) /\ ~At(c, "send")
  BY BusyAt DEF IInv, Store, At, Steps
<1>2. PICK o \in Outcomes("store") : StoreAttempt(c, o)
  BY DEF Store
<1>3. CASE \E t \in FreshTokens :
             /\ UNCHANGED ledger
             /\ Become(c, [job[c] EXCEPT !.step = "claim", !.attempt = 1,
                                         !.token = t])
  <2>1. PICK t \in FreshTokens :
          job' = [job EXCEPT ![c] = [job[c] EXCEPT !.step = "claim",
                                        !.attempt = 1, !.token = t]]
    BY <1>3 DEF Become
  <2>2. /\ \A d \in Correlators \ {c} : job'[d] = job[d]
        /\ job'[c] = [job[c] EXCEPT !.step = "claim", !.attempt = 1, !.token = t]
    BY <2>1 DEF IInv, TypeOK
  <2>3. job[c] \in Jobs
    BY <1>1, JobType DEF IInv
  <2>4. job'[c].fp = job[c].fp /\ job'[c].token = t
    BY <2>2, <2>3 DEF Jobs
  <2>5. PICK f \in Fingerprints : f = job[c].fp
    BY <2>3 DEF Jobs
  <2>6. claim'[f] # t
    BY <1>2 DEF StoreAttempt, FreshTokens
  <2>7. ~Owns(c)'
    BY <2>4, <2>5, <2>6 DEF Owns
  <2> QED
    BY <1>2, <1>3, <2>2, <2>5, <2>7, ToldFrame DEF StoreAttempt
<1>4. CASE Retry(c) /\ UNCHANGED ledger
  BY <1>1, <1>2, <1>4, ToldElsewhere DEF StoreAttempt
<1>5. CASE Finish(c, "lost")
  BY <1>1, <1>2, <1>5, ToldElsewhere DEF StoreAttempt
<1> QED
  BY <1>2, <1>3, <1>4, <1>5 DEF StoreAttempt

LEMMA ToldClaim ==
  ASSUME IInv, ToldIsDelivered, NEW c \in Correlators, Claim(c)
  PROVE  ToldIsDelivered'
<1>1. Busy(c) /\ ~At(c, "send") /\ TypeOK /\ job[c] \in Jobs
  BY BusyAt DEF IInv, Claim, At, Steps
<1>0. PICK f \in Fingerprints : f = job[c].fp
  BY <1>1 DEF Jobs
<1>2. PICK o \in Outcomes("claim") : ClaimAttempt(c, o)
  BY DEF Claim
<1>3. CASE Executed(o) /\ claim[f] = NoToken
  <2>1. /\ claim' = [claim EXCEPT ![f] = job[c].token]
        /\ \/ Become(c, [job[c] EXCEPT !.step = "publish", !.attempt = 1,
                                       !.lapsed = FALSE]) /\ Mark(f, "open")
           \/ Retry(c) /\ Mark(f, "open")
           \/ Finish(c, "lost")
    BY <1>0, <1>2, <1>3 DEF ClaimAttempt
  <2>2. ~ledger[f].told
    BY <1>3 DEF IInv, BlankIffFree, Blank
  <2>3. /\ ~ledger'[f].told
        /\ \A g \in Fingerprints \ {f} : ledger'[g] = ledger[g]
    BY <1>0, <1>1, <2>1, <2>2, MarkFrame, FinishFrame
  <2>4. /\ \A d \in Correlators \ {c} : job'[d] = job[d]
        /\ job'[c].fp = f \/ job'[c].step = "idle"
    <3>1. CASE Become(c, [job[c] EXCEPT !.step = "publish", !.attempt = 1,
                                        !.lapsed = FALSE])
      <4>1. [job[c] EXCEPT !.step = "publish", !.attempt = 1,
                           !.lapsed = FALSE].fp = f
        BY <1>0, <1>1 DEF Jobs
      <4> QED
        BY <1>1, <3>1, <4>1, BecomeFrame
    <3>2. CASE Retry(c)
      BY <1>0, <1>1, <3>2, RetryFrame
    <3>3. CASE Finish(c, "lost")
      BY <1>1, <3>3, FinishFrame
    <3> QED
      BY <2>1, <3>1, <3>2, <3>3
  <2>5. Owns(c)' => job'[c].fp = f
    BY <2>4 DEF Owns, Busy
  <2>6. \A g \in Fingerprints \ {f} : claim'[g] = claim[g]
    BY <1>1, <2>1 DEF TypeOK
  <2> QED
    BY <2>3, <2>4, <2>5, <2>6, ToldFrame
<1>4. CASE ~(Executed(o) /\ claim[f] = NoToken)
  <2>1. UNCHANGED claim
    BY <1>0, <1>2, <1>4 DEF ClaimAttempt
  <2>2. \/ Retry(c) /\ UNCHANGED ledger
        \/ Finish(c, "lost")
    BY <1>0, <1>2, <1>4 DEF ClaimAttempt, Executed
  <2> QED
    BY <1>1, <2>1, <2>2, ToldElsewhere
<1> QED
  BY <1>3, <1>4

LEMMA ToldRelease ==
  ASSUME IInv, ToldIsDelivered, NEW c \in Correlators, Release(c)
  PROVE  ToldIsDelivered'
<1>1. Busy(c) /\ ~At(c, "send") /\ TypeOK /\ job[c] \in Jobs
  BY BusyAt DEF IInv, Release, At, Steps
<1>0. PICK f \in Fingerprints : f = job[c].fp
  BY <1>1 DEF Jobs
<1>2. PICK o \in Outcomes("release") : ReleaseAttempt(c, o)
  BY DEF Release
<1>3. CASE Executed(o) /\ Owns(c)
  <2>1. /\ claim' = [claim EXCEPT ![f] = NoToken]
        /\ ledger' = [ledger EXCEPT ![f] = Blank]
        /\ Become(c, Idle) \/ Retry(c)
    BY <1>0, <1>2, <1>3 DEF ReleaseAttempt
  <2>2. /\ ~ledger'[f].told
        /\ \A g \in Fingerprints \ {f} :
             claim'[g] = claim[g] /\ ledger'[g] = ledger[g]
    BY <1>1, <2>1 DEF TypeOK, Blank
  <2>3. /\ \A d \in Correlators \ {c} : job'[d] = job[d]
        /\ job'[c].fp = f \/ job'[c].step = "idle"
    BY <1>0, <1>1, <2>1, BecomeFrame, RetryFrame DEF Idle
  <2>4. Owns(c)' => job'[c].fp = f
    BY <2>3 DEF Owns, Busy
  <2> QED
    BY <2>2, <2>3, <2>4, ToldFrame
<1>4. CASE ~(Executed(o) /\ Owns(c))
  <2>1. UNCHANGED claim
    BY <1>2, <1>4 DEF ReleaseAttempt
  <2>2. \/ Become(c, Idle) /\ UNCHANGED ledger
        \/ Retry(c) /\ UNCHANGED ledger
        \/ Finish(c, "lost")
    BY <1>2, <1>4 DEF ReleaseAttempt
  <2>3. CASE Become(c, Idle) /\ UNCHANGED ledger
    <3>1. /\ \A d \in Correlators \ {c} : job'[d] = job[d]
          /\ ~Owns(c)'
      BY <1>1, <2>3, BecomeFrame DEF Idle, Owns, Busy
    <3> QED
      BY <1>0, <2>1, <2>3, <3>1, ToldFrame
  <2> QED
    BY <1>1, <2>1, <2>2, <2>3, ToldElsewhere
<1> QED
  BY <1>3, <1>4

LEMMA ToldPost ==
  ASSUME IInv, ToldIsDelivered, NEW c \in Correlators, Post(c),
         Faults \cap RepeatFaults = {}
  PROVE  ToldIsDelivered'
<1>1. /\ Busy(c) /\ TypeOK /\ job[c] \in Jobs /\ job[c].step = "send"
      /\ job[c].delivered \in BOOLEAN
  BY BusyAt DEF IInv, Post, At, Steps, Jobs
<1>0. PICK f \in Fingerprints : f = job[c].fp
  BY <1>1 DEF Jobs
<1>2. PICK d \in BOOLEAN :
        /\ Become(c, [job[c] EXCEPT !.channel = @ + 1, !.delivered = d])
        /\ \/ /\ d = TRUE
              /\ ledger' = IF Owns(c) THEN [ledger EXCEPT ![f].told = TRUE]
                                      ELSE ledger
           \/ UNCHANGED ledger /\ (job[c].delivered => d)
  BY <1>0, <1>1 DEF Post, RepeatFaults
<1>3. /\ job'[c].step = "send" /\ job'[c].fp = f /\ job'[c].token = job[c].token
      /\ job'[c].delivered = d
      /\ \A e \in Correlators \ {c} : job'[e] = job[e]
  <2> DEFINE k == [job[c] EXCEPT !.channel = @ + 1, !.delivered = d]
  <2>1. k.step = "send" /\ k.fp = f /\ k.token = job[c].token /\ k.delivered = d
    BY <1>0, <1>1 DEF Jobs
  <2>2. Become(c, k)
    BY <1>2
  <2> HIDE DEF k
  <2> QED
    BY <1>1, <2>1, <2>2, BecomeFrame
<1>4. UNCHANGED claim
  BY DEF Post
<1>5. Owns(c)' => Owns(c)
  BY <1>0, <1>1, <1>3, <1>4 DEF Owns
<1>6. /\ \A g \in Fingerprints \ {f} : ledger'[g].told = ledger[g].told
      /\ ledger'[f].told => ledger[f].told \/ (Owns(c) /\ d)
  BY <1>1, <1>2 DEF TypeOK
<1>7. Owns(c)' /\ ledger'[f].told => d
  <2>1. CASE d = TRUE
    BY <2>1
  <2>2. CASE UNCHANGED ledger /\ (job[c].delivered => d)
    BY <1>0, <1>5, <2>2 DEF ToldIsDelivered
  <2> QED
    BY <1>2, <2>1, <2>2
<1> QED
  BY <1>0, <1>3, <1>4, <1>6, <1>7, ToldFrame DEF At

LEMMA ToldSend ==
  ASSUME IInv, ToldIsDelivered, NEW c \in Correlators, SendAlert(c)
  PROVE  ToldIsDelivered'
<1>1. /\ Busy(c) /\ TypeOK /\ UNCHANGED claim
  BY BusyAt DEF IInv, SendAlert, Steps
<1>0. PICK f \in Fingerprints : f = job[c].fp
  BY <1>1, JobType DEF Jobs
<1>2. CASE Finish(c, "quiet") \/ Finish(c, "kept")
  <2>1. /\ job'[c].step = "idle"
        /\ \A d \in Correlators \ {c} : job'[d] = job[d]
        /\ \A g \in Fingerprints : ledger'[g].told = ledger[g].told
    BY <1>1, <1>2, FinishFrame
  <2>2. ~Owns(c)'
    BY <2>1 DEF Owns, Busy
  <2> QED
    BY <1>1, <2>1, <2>2, <1>0, ToldFrame
<1>3. CASE ~job[c].delivered /\ GoTo(c, "release") /\ UNCHANGED ledger
  <2>0. "release" \in Steps
    BY DEF Steps
  <2>1. /\ job'[c].fp = f /\ job'[c].token = job[c].token
        /\ \A d \in Correlators \ {c} : job'[d] = job[d]
    BY <1>0, <1>1, <1>3, <2>0, GoToFrame
  <2>2. Owns(c)' => Owns(c)
    BY <1>0, <1>1, <2>1 DEF Owns
  <2>3. Owns(c)' => ~ledger'[f].told
    BY <1>0, <1>3, <2>2 DEF ToldIsDelivered
  <2> QED
    BY <1>1, <1>3, <2>1, <2>3, ToldFrame
<1> QED
  BY <1>2, <1>3 DEF SendAlert

LEMMA ToldExpire ==
  ASSUME IInv, ToldIsDelivered, NEW f \in Fingerprints, ExpireClaim(f)
  PROVE  ToldIsDelivered'
<1> SUFFICES ASSUME NEW d \in Correlators, Owns(d)', ledger'[job'[d].fp].told
             PROVE  At(d, "send")' /\ job'[d].delivered
  BY DEF ToldIsDelivered
<1>1. job'[d] = IF Owns(d) /\ job[d].fp = f
                  THEN [job[d] EXCEPT !.lapsed = TRUE] ELSE job[d]
  BY DEF ExpireClaim
<1>2. /\ claim'[f] = NoToken
      /\ \A g \in Fingerprints \ {f} :
           claim'[g] = claim[g] /\ ledger'[g] = ledger[g]
  BY DEF ExpireClaim, IInv, TypeOK
<1>3. CASE Owns(d) /\ job[d].fp = f
  <2>1. job[d] \in Jobs
    BY <1>3, JobType DEF IInv, Owns
  <2>2. job'[d].fp = f
    BY <1>1, <1>3, <2>1 DEF Jobs
  <2> QED
    BY <1>2, <2>2 DEF Owns
<1>4. CASE ~(Owns(d) /\ job[d].fp = f)
  <2>1. job'[d] = job[d] /\ Busy(d) /\ job[d].token # NoToken
    BY <1>1, <1>4 DEF Owns, Busy
  <2>2. PICK g \in Fingerprints : g = job[d].fp
    BY <2>1, JobType DEF IInv, Jobs
  <2>3. g # f
    BY <1>2, <2>1, <2>2 DEF Owns
  <2> QED
    BY <1>2, <2>1, <2>2, <2>3 DEF ToldIsDelivered, Owns, At, Busy
<1> QED
  BY <1>3, <1>4

LEMMA ToldInit == Init => ToldIsDelivered
  BY DEF Init, ToldIsDelivered, Owns, Busy, Idle

LEMMA ToldStep ==
  ASSUME IInv, ToldIsDelivered, [Next]_vars, Faults \cap RepeatFaults = {}
  PROVE  ToldIsDelivered'
<1>1. ASSUME NEW c \in Correlators, Match(c) PROVE ToldIsDelivered'
  <2>1. PICK f \in Fingerprints, s \in Severities :
          Become(c, [step |-> "store", fp |-> f, severity |-> s,
                     token |-> NoToken, attempt |-> 1, channel |-> 0,
                     delivered |-> FALSE, lapsed |-> FALSE])
    BY <1>1 DEF Match
  <2>2. /\ job'[c].token = NoToken
        /\ \A d \in Correlators \ {c} : job'[d] = job[d]
    BY <2>1, BecomeFrame DEF IInv
  <2>3. ~Owns(c)'
    BY <2>2 DEF Owns
  <2> QED
    BY <1>1, <2>2, <2>3, ToldFrame DEF Match
<1>2. ASSUME NEW c \in Correlators, Publish(c) PROVE ToldIsDelivered'
  <2>1. Busy(c) /\ TypeOK /\ UNCHANGED <<claim, ledger>> /\ ~At(c, "send")
    BY <1>2, BusyAt DEF IInv, Publish, At, Steps
  <2>2. \/ Retry(c)
        \/ \E s \in Steps : GoTo(c, s)
    BY <1>2 DEF Publish, Steps
  <2> QED
    BY <2>1, <2>2, ToldElsewhere
<1>3. ASSUME NEW c \in Correlators, Crash(c) PROVE ToldIsDelivered'
  <2>0. PICK f \in Fingerprints : f = job[c].fp
    BY <1>3, JobType DEF Crash, IInv, Jobs
  <2>1. /\ job'[c].step = "idle"
        /\ \A d \in Correlators \ {c} : job'[d] = job[d]
        /\ \A g \in Fingerprints : ledger'[g].told = ledger[g].told
    BY <1>3, FinishFrame DEF Crash, IInv
  <2>2. ~Owns(c)'
    BY <2>1 DEF Owns, Busy
  <2> QED
    BY <1>3, <2>0, <2>1, <2>2, ToldFrame DEF Crash
<1>4. ASSUME NEW f \in Fingerprints, ExpireRecord(f) PROVE ToldIsDelivered'
  BY <1>4 DEF ExpireRecord, ToldIsDelivered, Owns, Busy, At
<1>5. CASE UNCHANGED vars
  BY <1>5 DEF vars, ToldIsDelivered, Owns, Busy, At
<1> QED
  BY <1>1, <1>2, <1>3, <1>4, <1>5, ToldStore, ToldClaim, ToldRelease, ToldPost,
     ToldSend, ToldExpire DEF Next, Handle

(* What a step takes the claim of an alert away with that was told.        *)
LEMMA ToldClaimStep ==
  ASSUME IInv, ToldIsDelivered, [Next]_vars, NEW f \in Fingerprints,
         ledger[f].told, claim'[f] # claim[f]
  PROVE  ExpireClaim(f)
<1> USE DEF IInv
<1>1. claim[f] # NoToken
  BY DEF BlankIffFree, Blank
<1>2. ASSUME NEW c \in Correlators, Claim(c) PROVE FALSE
  <2>1. job[c].fp \in Fingerprints
    BY <1>2, BusyAt DEF Claim, Steps
  <2>2. PICK o : ClaimAttempt(c, o)
    BY <1>2 DEF Claim
  <2>3. \/ UNCHANGED claim
        \/ /\ claim[job[c].fp] = NoToken
           /\ claim' = [claim EXCEPT ![job[c].fp] = job[c].token]
    BY <2>2 DEF ClaimAttempt
  <2> QED
    BY <1>1, <2>1, <2>3 DEF TypeOK
<1>3. ASSUME NEW c \in Correlators, Release(c) PROVE FALSE
  <2>1. job[c].fp \in Fingerprints /\ job[c].step # "send"
    BY <1>3, BusyAt DEF Release, At, Steps
  <2>2. PICK o \in Outcomes("release") : ReleaseAttempt(c, o)
    BY <1>3 DEF Release
  <2>3. \/ UNCHANGED claim
        \/ Owns(c) /\ claim' = [claim EXCEPT ![job[c].fp] = NoToken]
    BY <2>2 DEF ReleaseAttempt
  <2>4. Owns(c) => ~ledger[job[c].fp].told
    BY <2>1 DEF ToldIsDelivered, At
  <2> QED
    BY <2>1, <2>3, <2>4 DEF TypeOK
<1>4. ASSUME NEW c \in Correlators,
             Match(c) \/ Store(c) \/ Publish(c) \/ Post(c) \/ SendAlert(c)
               \/ Crash(c)
      PROVE  UNCHANGED claim
  BY <1>4 DEF Match, Store, StoreAttempt, Publish, Post, SendAlert, Crash
<1>5. ASSUME NEW g \in Fingerprints, ExpireClaim(g) PROVE g = f
  BY <1>5 DEF ExpireClaim, TypeOK
<1>6. ASSUME NEW g \in Fingerprints, ExpireRecord(g) PROVE UNCHANGED claim
  BY <1>6 DEF ExpireRecord
<1> QED
  BY <1>2, <1>3, <1>4, <1>5, <1>6 DEF Next, Handle, vars

(* Once a channel took an alert its claim goes by its expiry only, and     *)
(* correlate() sends nobody the next one: as long as a POST that is taken  *)
(* is answered and none raises.                                            *)
THEOREM NotifiedOnce ==
  ASSUME Faults \cap RepeatFaults = {}
  PROVE  Spec => NoRepeatWithinCooldown
<1>1. Init => ToldIsDelivered
  BY ToldInit
<1>2. IInv /\ ToldIsDelivered /\ [Next]_vars => ToldIsDelivered'
  BY ToldStep
<1>3. IInv /\ ToldIsDelivered /\ [Next]_vars =>
        [\A f \in Fingerprints :
           ledger[f].told /\ claim'[f] # claim[f] => ExpireClaim(f)]_vars
  BY ToldClaimStep
<1> QED
  BY <1>1, <1>2, <1>3, Invariance, PTL DEF Spec, NoRepeatWithinCooldown
----------------------------------------------------------------------------
(* What a correlator is handling stays the same until it is done with it.  *)
KeepsAlert(c) == job'[c].fp = job[c].fp /\ job'[c].severity = job[c].severity

LEMMA FieldsKeep ==
  ASSUME NEW r \in Jobs, NEW x, NEW y, NEW z
  PROVE  /\ [r EXCEPT !.attempt = x].fp = r.fp
         /\ [r EXCEPT !.attempt = x].severity = r.severity
         /\ [r EXCEPT !.lapsed = x].fp = r.fp
         /\ [r EXCEPT !.lapsed = x].severity = r.severity
         /\ [r EXCEPT !.step = x, !.attempt = y].fp = r.fp
         /\ [r EXCEPT !.step = x, !.attempt = y].severity = r.severity
         /\ [r EXCEPT !.step = x, !.attempt = y, !.token = z].fp = r.fp
         /\ [r EXCEPT !.step = x, !.attempt = y, !.token = z].severity = r.severity
         /\ [r EXCEPT !.step = x, !.attempt = y, !.lapsed = z].fp = r.fp
         /\ [r EXCEPT !.step = x, !.attempt = y, !.lapsed = z].severity = r.severity
         /\ [r EXCEPT !.channel = x, !.delivered = y].fp = r.fp
         /\ [r EXCEPT !.channel = x, !.delivered = y].severity = r.severity
  BY DEF Jobs

(* Every step of the handling ends it or goes on with the same alert. *)
LEMMA AlertKept ==
  ASSUME TypeOK, NEW c \in Correlators, Handle(c)
  PROVE  job'[c] = Idle \/ KeepsAlert(c)
<1>1. Busy(c) /\ job[c] \in Jobs
  <2>1. \E s \in Steps : At(c, s)
    BY DEF Handle, Store, Claim, Publish, Release, Post, SendAlert, Steps
  <2> QED
    BY <2>1, BusyAt
<1>2. ASSUME NEW m, Finish(c, m) PROVE job'[c] = Idle
  BY <1>2, BecomeFrame DEF Finish
<1>3. ASSUME Retry(c) PROVE KeepsAlert(c)
  <2>1. job'[c] = [job[c] EXCEPT !.attempt = @ + 1]
    BY <1>3, BecomeFrame DEF Retry
  <2> QED
    BY <1>1, <2>1, FieldsKeep DEF KeepsAlert
<1>4. ASSUME NEW s, GoTo(c, s) PROVE KeepsAlert(c)
  <2>1. job'[c] = [job[c] EXCEPT !.step = s, !.attempt = 1]
    BY <1>4, BecomeFrame DEF GoTo
  <2> QED
    BY <1>1, <2>1, FieldsKeep DEF KeepsAlert
<1>5. ASSUME NEW t, Become(c, [job[c] EXCEPT !.step = "claim", !.attempt = 1,
                                             !.token = t])
      PROVE  KeepsAlert(c)
  <2>1. job'[c] = [job[c] EXCEPT !.step = "claim", !.attempt = 1, !.token = t]
    BY <1>5, BecomeFrame
  <2> QED
    BY <1>1, <2>1, FieldsKeep DEF KeepsAlert
<1>6. ASSUME Become(c, [job[c] EXCEPT !.step = "publish", !.attempt = 1,
                                      !.lapsed = FALSE])
      PROVE  KeepsAlert(c)
  <2>1. job'[c] = [job[c] EXCEPT !.step = "publish", !.attempt = 1, !.lapsed = FALSE]
    BY <1>6, BecomeFrame
  <2> QED
    BY <1>1, <2>1, FieldsKeep DEF KeepsAlert
<1>7. ASSUME NEW d, Become(c, [job[c] EXCEPT !.channel = @ + 1, !.delivered = d])
      PROVE  KeepsAlert(c)
  <2>1. job'[c] = [job[c] EXCEPT !.channel = @ + 1, !.delivered = d]
    BY <1>7, BecomeFrame
  <2> QED
    BY <1>1, <2>1, FieldsKeep DEF KeepsAlert
<1>8. Become(c, Idle) => job'[c] = Idle
  BY BecomeFrame
<1>9. CASE Store(c)
  BY <1>2, <1>3, <1>5, <1>9 DEF Store, StoreAttempt
<1>10. CASE Claim(c)
  BY <1>2, <1>3, <1>6, <1>10 DEF Claim, ClaimAttempt
<1>11. CASE Publish(c)
  BY <1>3, <1>4, <1>11 DEF Publish
<1>12. CASE Release(c)
  BY <1>2, <1>3, <1>8, <1>12 DEF Release, ReleaseAttempt
<1>13. CASE Post(c)
  BY <1>4, <1>7, <1>13 DEF Post
<1>14. CASE SendAlert(c)
  BY <1>2, <1>4, <1>14 DEF SendAlert
<1> QED
  BY <1>9, <1>10, <1>11, <1>12, <1>13, <1>14 DEF Handle

(* A cooldown that runs out changes no alert. *)
LEMMA AlertKeptByExpiry ==
  ASSUME TypeOK, NEW f \in Fingerprints, ExpireClaim(f),
         NEW c \in Correlators, Busy(c)
  PROVE  KeepsAlert(c)
<1>1. job[c] \in Jobs
  BY JobType
<1>2. job'[c] = IF Owns(c) /\ job[c].fp = f
                  THEN [job[c] EXCEPT !.lapsed = TRUE] ELSE job[c]
  BY DEF ExpireClaim
<1> QED
  BY <1>1, <1>2, FieldsKeep DEF KeepsAlert

(* The claim of no other fingerprint than the own is touched, and the own  *)
(* is set only while it is free.                                           *)
LEMMA ClaimsOnly ==
  ASSUME TypeOK, NEW c \in Correlators, Handle(c),
         NEW f \in Fingerprints, claim'[f] # claim[f]
  PROVE  /\ job[c].fp = f
         /\ (Claim(c) /\ claim[f] = NoToken) \/ claim'[f] = NoToken
<1>1. \E s \in Steps : At(c, s)
  BY DEF Handle, Store, Claim, Publish, Release, Post, SendAlert, Steps
<1>2. job[c].fp \in Fingerprints
  BY <1>1, BusyAt
<1>3. CASE Claim(c)
  BY <1>2, <1>3 DEF Claim, ClaimAttempt, TypeOK
<1>4. CASE Release(c)
  BY <1>2, <1>4 DEF Release, ReleaseAttempt, TypeOK
<1>5. Store(c) \/ Publish(c) \/ Post(c) \/ SendAlert(c) => UNCHANGED claim
  BY DEF Store, StoreAttempt, Publish, Post, SendAlert
<1> QED
  BY <1>3, <1>4, <1>5 DEF Handle

(* A claim goes quiet because of an alert of its own below the threshold. *)
LEMMA QuietBelowThreshold ==
  ASSUME TypeOK, [Next]_vars, NEW f \in Fingerprints, ledger'[f].mark = "quiet"
  PROVE  \/ ledger[f].mark = "quiet"
         \/ \E c \in Correlators :
              Busy(c) /\ job[c].fp = f /\ ~ShouldNotify(c)
<1>1. ASSUME NEW c \in Correlators, Busy(c), NEW m, Finish(c, m)
      PROVE  \/ ledger'[f].mark = ledger[f].mark
             \/ ledger'[f].mark = m /\ job[c].fp = f
  <2>1. job[c].fp = f \/ f \in Fingerprints \ {job[c].fp}
    OBVIOUS
  <2> QED
    BY <1>1, <2>1, FinishFrame
<1>2. ASSUME NEW g \in Fingerprints, Mark(g, "open")
      PROVE  ledger[f].mark = "quiet"
  BY <1>2, MarkFrame
<1>3. ASSUME NEW g, ledger' = [ledger EXCEPT ![g] = Blank]
      PROVE  ledger[f].mark = "quiet"
  BY <1>3 DEF TypeOK, Blank
<1>4. ASSUME NEW g, ledger' = [ledger EXCEPT ![g].told = TRUE]
      PROVE  ledger[f].mark = "quiet"
  BY <1>4 DEF TypeOK
<1>5. CASE UNCHANGED ledger
  BY <1>5
<1>6. ASSUME NEW c \in Correlators, Store(c) PROVE ledger[f].mark = "quiet"
  <2>1. Busy(c)
    BY <1>6, BusyAt DEF Store, Steps
  <2>2. Finish(c, "lost") => ledger[f].mark = "quiet"
    BY <1>1, <2>1
  <2> QED
    BY <1>5, <1>6, <2>2 DEF Store, StoreAttempt
<1>7. ASSUME NEW c \in Correlators, Claim(c) PROVE ledger[f].mark = "quiet"
  <2>1. Busy(c) /\ job[c].fp \in Fingerprints
    BY <1>7, BusyAt DEF Claim, Steps
  <2> QED
    BY <1>1, <1>2, <1>5, <1>7, <2>1 DEF Claim, ClaimAttempt
<1>8. ASSUME NEW c \in Correlators, Release(c) PROVE ledger[f].mark = "quiet"
  <2>1. Busy(c)
    BY <1>8, BusyAt DEF Release, Steps
  <2> QED
    BY <1>1, <1>3, <1>5, <1>8, <2>1 DEF Release, ReleaseAttempt
<1>9. ASSUME NEW c \in Correlators, Post(c) PROVE ledger[f].mark = "quiet"
  BY <1>4, <1>5, <1>9 DEF Post
<1>10. ASSUME NEW c \in Correlators, SendAlert(c)
       PROVE  \/ ledger[f].mark = "quiet"
              \/ Busy(c) /\ job[c].fp = f /\ ~ShouldNotify(c)
  <2>1. Busy(c)
    BY <1>10, BusyAt DEF SendAlert, Steps
  <2> QED
    BY <1>1, <1>5, <1>10, <2>1 DEF SendAlert
<1>11. ASSUME NEW c \in Correlators, Crash(c) PROVE ledger[f].mark = "quiet"
  BY <1>1, <1>11 DEF Crash
<1>12. ASSUME NEW c \in Correlators, Match(c) \/ Publish(c)
       PROVE  ledger[f].mark = "quiet"
  BY <1>5, <1>12 DEF Match, Publish
<1>13. ASSUME NEW g \in Fingerprints, ExpireClaim(g) \/ ExpireRecord(g)
       PROVE  ledger[f].mark = "quiet"
  BY <1>3, <1>5, <1>13 DEF ExpireClaim, ExpireRecord
<1> QED
  BY <1>5, <1>6, <1>7, <1>8, <1>9, <1>10, <1>11, <1>12, <1>13
     DEF Next, Handle, vars
----------------------------------------------------------------------------
(* The handling of an alert is bounded                                     *)

(* At most so many steps of its handling are left to an alert: an attempt  *)
(* each of the commands, a POST to each channel, and the verdict.          *)
AttemptsLeft(j) == MaxAttempts - j.attempt + 1

Left(j) ==
  CASE j.step = "store" -> AttemptsLeft(j) + 3 * MaxAttempts + NumChannels + 1
    [] j.step = "claim" -> AttemptsLeft(j) + 2 * MaxAttempts + NumChannels + 1
    [] j.step = "publish" -> AttemptsLeft(j) + MaxAttempts + NumChannels + 1
    [] j.step = "send" -> NumChannels - j.channel + MaxAttempts + 1
    [] j.step = "release" -> AttemptsLeft(j)
    [] OTHER -> 0

StepsLeft(c) == Left(job[c])

LEMMA LeftRange ==
  ASSUME NEW j \in {Idle} \cup Jobs
  PROVE  /\ Left(j) \in 0..(4 * MaxAttempts + NumChannels + 1)
         /\ j \in Jobs => Left(j) > 0
<1> USE SettingsAssumption
<1>1. CASE j = Idle
  <2>1. Left(j) = 0 /\ j \notin Jobs
    BY <1>1 DEF Left, Idle, Jobs, Steps
  <2> QED
    BY <2>1
<1>2. CASE j \in Jobs
  <2>1. AttemptsLeft(j) \in 1..MaxAttempts /\ j.channel \in 0..NumChannels
    BY <1>2 DEF Jobs, AttemptsLeft
  <2>2. j.step \in Steps
    BY <1>2 DEF Jobs
  <2> QED
    BY <2>1, <2>2 DEF Left, Steps
<1> QED
  BY <1>1, <1>2

(* Another attempt of the same command. *)
LEMMA LeftOfRetry ==
  ASSUME NEW j \in Jobs, j.step # "send", j.attempt < MaxAttempts
  PROVE  Left([j EXCEPT !.attempt = @ + 1]) < Left(j)
<1> DEFINE k == [j EXCEPT !.attempt = @ + 1]
<1>1. k.step = j.step /\ k.attempt = j.attempt + 1
  BY DEF Jobs
<1>2. AttemptsLeft(j) \in Int /\ AttemptsLeft(k) = AttemptsLeft(j) - 1
  BY <1>1, SettingsAssumption DEF Jobs, AttemptsLeft
<1>3. j.step \in Steps
  BY DEF Jobs
<1> HIDE DEF k
<1>4. Left(k) < Left(j)
  BY <1>1, <1>2, <1>3, SettingsAssumption DEF Left, Steps
<1> QED
  BY <1>4 DEF k

(* On to a later command. *)
Later == {<<"store", "claim">>, <<"claim", "publish">>, <<"publish", "send">>,
          <<"publish", "release">>, <<"send", "release">>}

LEMMA LeftOfNext ==
  ASSUME NEW j \in Jobs, NEW k, <<j.step, k.step>> \in Later, k.attempt = 1,
         k.channel = j.channel
  PROVE  Left(k) < Left(j)
<1>1. AttemptsLeft(j) \in 1..MaxAttempts /\ AttemptsLeft(k) = MaxAttempts
  BY SettingsAssumption DEF Jobs, AttemptsLeft
<1>2. j.channel \in 0..NumChannels
  BY DEF Jobs
<1>3. CASE j.step = "store" /\ k.step = "claim"
  BY <1>1, <1>3, SettingsAssumption DEF Left
<1>4. CASE j.step = "claim" /\ k.step = "publish"
  BY <1>1, <1>4, SettingsAssumption DEF Left
<1>5. CASE j.step = "publish" /\ k.step = "send"
  BY <1>1, <1>2, <1>5, SettingsAssumption DEF Left
<1>6. CASE j.step = "publish" /\ k.step = "release"
  BY <1>1, <1>6, SettingsAssumption DEF Left
<1>7. CASE j.step = "send" /\ k.step = "release"
  BY <1>1, <1>2, <1>7, SettingsAssumption DEF Left
<1> QED
  BY <1>3, <1>4, <1>5, <1>6, <1>7 DEF Later

LEMMA FieldsSet ==
  ASSUME NEW r \in Jobs, NEW x, NEW y, NEW z
  PROVE  /\ [r EXCEPT !.step = x, !.attempt = y].step = x
         /\ [r EXCEPT !.step = x, !.attempt = y].attempt = y
         /\ [r EXCEPT !.step = x, !.attempt = y].channel = r.channel
         /\ [r EXCEPT !.step = x, !.attempt = y, !.token = z].step = x
         /\ [r EXCEPT !.step = x, !.attempt = y, !.token = z].attempt = y
         /\ [r EXCEPT !.step = x, !.attempt = y, !.token = z].channel = r.channel
         /\ [r EXCEPT !.step = x, !.attempt = y, !.lapsed = z].step = x
         /\ [r EXCEPT !.step = x, !.attempt = y, !.lapsed = z].attempt = y
         /\ [r EXCEPT !.step = x, !.attempt = y, !.lapsed = z].channel = r.channel
         /\ [r EXCEPT !.channel = x, !.delivered = y].step = r.step
         /\ [r EXCEPT !.channel = x, !.delivered = y].channel = x
  BY DEF Jobs

LEMMA LeftShrinks ==
  ASSUME TypeOK, NEW c \in Correlators, Handle(c)
  PROVE  StepsLeft(c)' < StepsLeft(c)
<1> DEFINE j == job[c]
<1>1. j \in Jobs
  <2>1. \E s \in Steps : At(c, s)
    BY DEF Handle, Store, Claim, Publish, Release, Post, SendAlert, Steps
  <2> QED
    BY <2>1, BusyAt
<1> SUFFICES Left(job'[c]) < Left(j)
  BY DEF StepsLeft, Left, AttemptsLeft
<1> HIDE DEF j
<1>2. ASSUME job'[c] = Idle PROVE Left(job'[c]) < Left(j)
  <2>1. Left(Idle) = 0
    BY DEF Left, Idle
  <2>2. Left(j) \in Int /\ Left(j) > 0
    BY <1>1, LeftRange
  <2> QED
    BY <1>2, <2>1, <2>2
<1>3. ASSUME NEW m, Finish(c, m) PROVE Left(job'[c]) < Left(j)
  BY <1>2, <1>3, BecomeFrame DEF Finish
<1>4. ASSUME NEW o, Retried(c, o), Retry(c), j.step # "send"
      PROVE  Left(job'[c]) < Left(j)
  <2>1. job'[c] = [j EXCEPT !.attempt = @ + 1] /\ j.attempt < MaxAttempts
    BY <1>4, BecomeFrame DEF Retry, Retried, j
  <2> QED
    BY <1>1, <1>4, <2>1, LeftOfRetry
<1>5. ASSUME NEW s, GoTo(c, s), <<j.step, s>> \in Later
      PROVE  Left(job'[c]) < Left(j)
  <2>1. job'[c] = [j EXCEPT !.step = s, !.attempt = 1]
    BY <1>5, BecomeFrame DEF GoTo, j
  <2>2. job'[c].step = s /\ job'[c].attempt = 1 /\ job'[c].channel = j.channel
    BY <1>1, <2>1, FieldsSet
  <2> QED
    BY <1>1, <1>5, <2>2, LeftOfNext
<1>6. ASSUME j.step = "store", NEW t,
             Become(c, [j EXCEPT !.step = "claim", !.attempt = 1, !.token = t])
      PROVE  Left(job'[c]) < Left(j)
  <2>1. job'[c] = [j EXCEPT !.step = "claim", !.attempt = 1, !.token = t]
    BY <1>6, BecomeFrame
  <2>2. /\ job'[c].step = "claim" /\ job'[c].attempt = 1
        /\ job'[c].channel = j.channel
    BY <1>1, <2>1, FieldsSet
  <2> QED
    BY <1>1, <1>6, <2>2, LeftOfNext DEF Later
<1>7. ASSUME j.step = "claim",
             Become(c, [j EXCEPT !.step = "publish", !.attempt = 1,
                                 !.lapsed = FALSE])
      PROVE  Left(job'[c]) < Left(j)
  <2>1. job'[c] = [j EXCEPT !.step = "publish", !.attempt = 1, !.lapsed = FALSE]
    BY <1>7, BecomeFrame
  <2>2. /\ job'[c].step = "publish" /\ job'[c].attempt = 1
        /\ job'[c].channel = j.channel
    BY <1>1, <2>1, FieldsSet
  <2> QED
    BY <1>1, <1>7, <2>2, LeftOfNext DEF Later
<1>8. ASSUME j.step = "send", j.channel < NumChannels, NEW d,
             Become(c, [j EXCEPT !.channel = @ + 1, !.delivered = d])
      PROVE  Left(job'[c]) < Left(j)
  <2>1. job'[c] = [j EXCEPT !.channel = j.channel + 1, !.delivered = d]
    BY <1>8, BecomeFrame
  <2>2. job'[c].step = "send" /\ job'[c].channel = j.channel + 1
    BY <1>1, <1>8, <2>1, FieldsSet
  <2>3. j.channel \in Int
    BY <1>1, SettingsAssumption DEF Jobs
  <2> QED
    BY <1>8, <2>2, <2>3, SettingsAssumption DEF Left
<1>9. CASE Store(c)
  BY <1>3, <1>4, <1>6, <1>9 DEF Store, StoreAttempt, At, j
<1>10. CASE Claim(c)
  BY <1>3, <1>4, <1>7, <1>10 DEF Claim, ClaimAttempt, At, j
<1>11. CASE Publish(c)
  BY <1>4, <1>5, <1>11 DEF Publish, At, Later, j
<1>12. CASE Release(c)
  <2>1. Become(c, Idle) => job'[c] = Idle
    BY BecomeFrame
  <2> QED
    BY <1>2, <1>3, <1>4, <1>12, <2>1 DEF Release, ReleaseAttempt, At, j
<1>13. CASE Post(c)
  BY <1>5, <1>8, <1>13 DEF Post, At, Later, j
<1>14. CASE SendAlert(c)
  BY <1>3, <1>5, <1>14 DEF SendAlert, At, Later, j
<1> QED
  BY <1>9, <1>10, <1>11, <1>12, <1>13, <1>14 DEF Handle

(* A correlator's step is its own affair. *)
LEMMA OwnStep ==
  ASSUME NEW c \in Correlators, Match(c) \/ Handle(c) \/ Crash(c)
  PROVE  \E k : Become(c, k)
<1> USE DEF Retry, GoTo, Finish
<1>1. Match(c) => \E k : Become(c, k)
  BY DEF Match
<1>2. Store(c) => \E k : Become(c, k)
  BY DEF Store, StoreAttempt
<1>3. Claim(c) => \E k : Become(c, k)
  BY DEF Claim, ClaimAttempt
<1>4. Publish(c) => \E k : Become(c, k)
  BY DEF Publish
<1>5. Release(c) => \E k : Become(c, k)
  BY DEF Release, ReleaseAttempt
<1>6. Post(c) => \E k : Become(c, k)
  BY DEF Post
<1>7. SendAlert(c) => \E k : Become(c, k)
  BY DEF SendAlert
<1>8. Crash(c) => \E k : Become(c, k)
  BY DEF Crash
<1> QED
  BY <1>1, <1>2, <1>3, <1>4, <1>5, <1>6, <1>7, <1>8 DEF Handle

LEMMA LeftNeverGrows ==
  ASSUME TypeOK, [Next]_vars, NEW c \in Correlators, Busy(c)
  PROVE  StepsLeft(c)' <= StepsLeft(c)
<1>1. job[c] \in Jobs
  BY JobType
<1>2. Left(job[c]) \in Int /\ Left(job[c]) > 0
  BY <1>1, LeftRange
<1> SUFFICES Left(job'[c]) <= Left(job[c])
  BY DEF StepsLeft, Left, AttemptsLeft
<1>3. CASE job'[c] = job[c]
  BY <1>2, <1>3
<1>4. CASE Handle(c)
  <2>1. Left(job'[c]) < Left(job[c])
    BY <1>4, LeftShrinks DEF StepsLeft, Left, AttemptsLeft
  <2>2. TypeOK'
    BY TypeStep
  <2>3. Left(job'[c]) \in Int
    <3>1. job'[c] \in {Idle} \cup Jobs
      BY <2>2 DEF TypeOK, Idle, Jobs, Steps
    <3> QED
      BY <3>1, LeftRange
  <2> QED
    BY <1>2, <2>1, <2>3
<1>5. CASE Crash(c)
  <2>1. job'[c] = Idle
    BY <1>5, BecomeFrame DEF Crash, Finish
  <2>2. Left(Idle) = 0
    BY DEF Left, Idle
  <2> QED
    BY <1>2, <2>1, <2>2
<1>6. ASSUME NEW d \in Correlators, d # c, Match(d) \/ Handle(d) \/ Crash(d)
      PROVE  job'[c] = job[c]
  <2>1. PICK k : Become(d, k)
    BY <1>6, OwnStep
  <2> QED
    BY <1>6, <2>1, BecomeFrame
<1>7. ASSUME NEW f \in Fingerprints, ExpireClaim(f)
      PROVE  Left(job'[c]) <= Left(job[c])
  <2>1. job'[c] = IF Owns(c) /\ job[c].fp = f
                    THEN [job[c] EXCEPT !.lapsed = TRUE] ELSE job[c]
    BY <1>7 DEF ExpireClaim
  <2>2. /\ job'[c].step = job[c].step /\ job'[c].attempt = job[c].attempt
        /\ job'[c].channel = job[c].channel
    BY <1>1, <2>1 DEF Jobs
  <2>3. Left(job'[c]) = Left(job[c])
    BY <2>2 DEF Left, AttemptsLeft
  <2> QED
    BY <1>2, <2>3
<1>8. ASSUME NEW f \in Fingerprints, ExpireRecord(f) PROVE job'[c] = job[c]
  BY <1>8 DEF ExpireRecord
<1>9. Match(c) => FALSE
  BY DEF Match
<1> QED
  BY <1>3, <1>4, <1>5, <1>6, <1>7, <1>8, <1>9 DEF Next, vars

(* The work on an alert is bounded: every step of correlate() on it leaves *)
(* fewer to come, of at most four commands with all their attempts, a POST *)
(* to each channel and the verdict, and neither other correlators nor      *)
(* Redis nor the channels can add to them (_with_retry, send_alert).       *)
THEOREM HandlingBounded ==
  Spec => /\ [](\A c \in Correlators :
                  /\ StepsLeft(c) \in 0..(4 * MaxAttempts + NumChannels + 1)
                  /\ Busy(c) => StepsLeft(c) > 0)
          /\ [][\A c \in Correlators :
                  /\ Handle(c) => StepsLeft(c)' < StepsLeft(c)
                  /\ Busy(c) => StepsLeft(c)' <= StepsLeft(c)]_vars
<1>1. TypeOK => \A c \in Correlators :
                  /\ StepsLeft(c) \in 0..(4 * MaxAttempts + NumChannels + 1)
                  /\ Busy(c) => StepsLeft(c) > 0
  BY JobType, LeftRange DEF TypeOK, StepsLeft
<1>2. TypeOK /\ [Next]_vars =>
        [\A c \in Correlators :
           /\ Handle(c) => StepsLeft(c)' < StepsLeft(c)
           /\ Busy(c) => StepsLeft(c)' <= StepsLeft(c)]_vars
  BY LeftShrinks, LeftNeverGrows
<1> QED
  BY <1>1, <1>2, TypeCorrect, PTL DEF Spec
=============================================================================
