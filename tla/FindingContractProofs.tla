----------------------- MODULE FindingContractProofs -----------------------
(***************************************************************************)
(* Theorems about FindingContract, for any texts of any lengths, any       *)
(* configurations and any places in the code.                              *)
(***************************************************************************)
EXTENDS FindingContract, ScoringProofs, FiniteSetTheorems

----------------------------------------------------------------------------
(* The state                                                               *)

(* What runs was accepted. *)
RunningIsValid == stage \in {"running", "stopped"} => Valid(settings)

(* An alert has the severity that its fingerprint tells.                   *)
GradedByFingerprint ==
  \A x \in {alert, before} :
    x # None => x.severity = Grade(x.fingerprint[3])

(* What a producer has made has passed Finding.__post_init__. *)
MadeIsValid ==
  /\ api # None => /\ Fits(api.service, 200) /\ Length[api.endpoint] <= 2048
                   /\ Encodable({api.service, api.endpoint})
  /\ code # None => Encodable({code.file})

ContractInv ==
  /\ TypeOK /\ RunningIsValid /\ AcceptedIsUsable /\ GradedByFingerprint
  /\ MadeIsValid

LEMMA TextLength == \A t \in Texts : Length[t] \in Nat /\ (t # NoText => Length[t] >= 1)
  BY TextAssumption

LEMMA DigitsType ==
  ASSUME NEW n
  PROVE  Digits(n) \in Nat
<1>1. PICK A : A = 0..9
  OBVIOUS
<1>2. IsFiniteSet(A)
  <2>1. \A a, b \in Int : IsFiniteSet(a..b)
    BY FS_Interval
  <2>2. 0 \in Int /\ 9 \in Int
    OBVIOUS
  <2> QED
    BY <1>1, <2>1, <2>2, Zenon
<1>3. \A S \in SUBSET A : Cardinality(S) \in Nat
  BY <1>2, FS_Subset, FS_CardinalityType
<1>4. {k \in A : 10^k <= n} \in SUBSET A
  OBVIOUS
<1> QED
  BY <1>1, <1>3, <1>4 DEF Digits

LEMMA SettingsType ==
  ASSUME settings \in Configurations
  PROVE  /\ settings.platform \in Texts \ Blank
         /\ \A u \in settings.targets : u.label \in Texts /\ u.path \in Texts
         /\ settings.minSeverity \in 0..4
<1> DEFINE Rest == [production : BOOLEAN, platform : Texts \ Blank,
     redisHost : {"name", "blank"}, password : {"secret", "short", "sample"},
     targets : SUBSET Urls, slack : Urls \cup {NoUrl}, webhook : Urls \cup {NoUrl},
     minSeverity : 0..4,
     token : {"none", "good", "bad"}, chat : {"none", "good", "bad"},
     paths : SUBSET {"directory", "missing", "root", "unusable"},
     extensions : SUBSET {"dotted", "other"}]
<1>1. settings \in Rest
  BY ConfigurationAssumption
<1>2. /\ settings.platform \in Texts \ Blank /\ settings.minSeverity \in 0..4
      /\ settings.targets \subseteq Urls
  BY <1>1
<1>3. \A u \in Urls : u.label \in Texts /\ u.path \in Texts
  BY DEF Urls
<1> QED
  BY <1>2, <1>3

LEMMA InvValidate == ContractInv /\ Validate => ContractInv'
  BY DEF ContractInv, Validate, TypeOK, RunningIsValid, AcceptedIsUsable,
         GradedByFingerprint, MadeIsValid

LEMMA PathGiven ==
  ASSUME NEW u, ValidUrl(u)
  PROVE  u.path # NoText
<1>1. u.path \notin {NoText, "/"}
  BY DEF ValidUrl
<1> QED
  BY <1>1

(* The finding about a fit target is valid. *)
LEMMA FitIsValid ==
  ASSUME settings \in Configurations, Valid(settings),
         NEW u \in settings.targets, ~Unfit(u), NEW k \in ApiKinds
  PROVE  ValidFinding(ApiFinding(k, Service(u), Endpoint(u)), settings.platform,
                      Preamble(k) + (Length[Service(u)] + Length[Endpoint(u)]),
                      60 + (Length[Service(u)] + Length[Endpoint(u)]))
<1> DEFINE f == ApiFinding(k, Service(u), Endpoint(u))
<1>1. /\ f.service = u.label /\ f.endpoint = u.path /\ f.file = NoText
      /\ f.line = 0 /\ f.confidence = k.confidence
  BY DEF ApiFinding, Service, Endpoint
<1>2. /\ Length[u.label] \in Nat /\ Length[u.path] \in Nat
      /\ Fits(u.label, 200)
      /\ 23 + Length[u.label] + Length[u.path] <= 500
      /\ u.label \notin Garbled /\ u.path \notin Garbled
  BY SettingsType, TextLength DEF Unfit, Service, Endpoint, Encodable
<1>3. Preamble(k) \in 16..23
  BY DEF Preamble
<1>4. /\ Holds(settings.platform, 100) /\ settings.platform \notin Blank
      /\ Length[NoText] = 0 /\ NoText \notin Garbled
  BY TextAssumption, CharacterAssumption, SettingsType DEF Valid
<1>5. 0 <= k.confidence /\ k.confidence <= 1000
  BY ApiKindFacts DEF Ranged
<1>7. Length[settings.platform] \in Nat
  BY SettingsType, TextLength
<1> HIDE DEF f
<1>6. ValidFinding(f, settings.platform,
                   Preamble(k) + (Length[Service(u)] + Length[Endpoint(u)]),
                   60 + (Length[Service(u)] + Length[Endpoint(u)]))
  <2>1. /\ 1 <= Preamble(k) + (Length[u.label] + Length[u.path])
        /\ Preamble(k) + (Length[u.label] + Length[u.path]) <= 500
        /\ 1 <= 60 + (Length[u.label] + Length[u.path])
        /\ 60 + (Length[u.label] + Length[u.path]) <= 4000
        /\ Length[u.path] <= 2048
    <3>1. PICK x \in 16..23, a \in Nat, b \in Nat :
            x = Preamble(k) /\ a = Length[u.label] /\ b = Length[u.path]
      BY <1>2, <1>3
    <3>2. 23 + a + b <= 500
      BY <1>2, <3>1
    <3>3. /\ 1 <= x + (a + b) /\ x + (a + b) <= 500 /\ b <= 2048
          /\ 1 <= 60 + (a + b) /\ 60 + (a + b) <= 4000
      BY <3>2
    <3> QED
      BY <3>1, <3>3
  <2>2. Fits(settings.platform, 200)
    BY <1>4, <1>7 DEF Fits, Holds
  <2>3. Length[f.file] <= 4096
    BY <1>1, <1>4
  <2>4. f.line >= 0
    BY <1>1
  <2>5. Encodable({f.service, f.endpoint, f.file})
    BY <1>1, <1>2, <1>4 DEF Encodable
  <2> QED
    BY <1>1, <1>2, <1>5, <2>1, <2>2, <2>3, <2>4, <2>5
       DEF ValidFinding, Service, Endpoint
<1> QED
  BY <1>6 DEF f

LEMMA InvProbe == ContractInv /\ Probe => ContractInv'
<1> SUFFICES ASSUME ContractInv, Probe PROVE ContractInv'
  OBVIOUS
<1> USE DEF ContractInv
<1>1. /\ stage = "running" /\ Valid(settings) /\ settings \in Configurations
      /\ UNCHANGED <<settings, code, alert, before, outcome>>
  BY DEF Probe, RunningIsValid, TypeOK
<1>2. PICK t \in settings.targets, kind \in ApiKinds :
        LET f == ApiFinding(kind, Service(t), Endpoint(t))
            target == Length[f.service] + Length[f.endpoint]
            title == Preamble(kind) + target
        IN  IF ValidFinding(f, settings.platform, title, 60 + target)
              THEN api' = f /\ raised' = <<"nothing">> /\ UNCHANGED stage
              ELSE /\ stage' = "stopped" /\ raised' = <<"target", t>>
                   /\ UNCHANGED api
  BY DEF Probe
<1>3. CASE /\ api' = ApiFinding(kind, Service(t), Endpoint(t))
           /\ raised' = <<"nothing">> /\ UNCHANGED stage
           /\ MadeIsValid'
  <2>1. TypeOK'
    BY <1>1, <1>3 DEF TypeOK
  <2> QED
    BY <1>1, <1>3, <2>1
       DEF RunningIsValid, AcceptedIsUsable, GradedByFingerprint
<1>4. CASE /\ stage' = "stopped" /\ raised' = <<"target", t>> /\ UNCHANGED api
           /\ Unfit(t)
  <2>1. TypeOK'
    BY <1>1, <1>4 DEF TypeOK
  <2>2. AcceptedIsUsable'
    BY <1>1, <1>4 DEF AcceptedIsUsable, Unfit, Service, Endpoint
  <2> QED
    BY <1>1, <1>4, <2>1, <2>2 DEF RunningIsValid, GradedByFingerprint, MadeIsValid
<1>5. /\ ApiFinding(kind, Service(t), Endpoint(t)).service = Service(t)
      /\ ApiFinding(kind, Service(t), Endpoint(t)).endpoint = Endpoint(t)
  BY DEF ApiFinding
<1>6. ASSUME NEW f, NEW n, NEW m, ValidFinding(f, settings.platform, n, m), api' = f
      PROVE  MadeIsValid'
  BY <1>1, <1>6 DEF MadeIsValid, ValidFinding, Encodable
<1> QED
  BY <1>1, <1>2, <1>3, <1>4, <1>5, <1>6, FitIsValid

(* The finding in a fit file is valid. *)
LEMMA FitPlaceIsValid ==
  ASSUME settings \in Configurations, Valid(settings),
         NEW p \in Places, ~UnfitPlace(p), NEW k \in CodeKinds
  PROVE  ValidFinding(CodeFinding(k, p[1], p[2], p[3]), settings.platform, 500,
                      IF k \in AstPatterns THEN 80 ELSE Naming(p[2], p[3]))
<1> DEFINE f == CodeFinding(k, p[1], p[2], p[3])
           d == IF k \in AstPatterns THEN 80 ELSE Naming(p[2], p[3])
<1>1. /\ f.service = p[1] /\ f.endpoint = NoText /\ f.file = p[2]
      /\ f.line = p[3] /\ f.confidence = k.confidence
  BY DEF CodeFinding
<1>2. /\ p[2] \in Texts /\ p[3] \in Nat
      /\ Fits(p[1], 200) /\ Holds(p[2], 4096)
  BY PlaceAssumption
<1>3. /\ Holds(settings.platform, 100) /\ settings.platform \in Texts \ Blank
      /\ Length[NoText] = 0 /\ NoText \notin Garbled
  BY TextAssumption, CharacterAssumption, SettingsType DEF Valid
<1>4. 0 <= k.confidence /\ k.confidence <= 1000
  BY CodeKindFacts DEF Ranged
<1>5. 1 <= d /\ d <= 4000
  <2>1. PICK a \in Nat, b \in Nat : a = Length[p[2]] /\ b = Digits(p[3])
    BY <1>2, TextLength, DigitsType
  <2>2. Naming(p[2], p[3]) = IF p[3] = 0 THEN 24 + a ELSE 37 + a + b
    BY <2>1 DEF Naming
  <2>3. Naming(p[2], p[3]) \in Nat /\ 1 <= Naming(p[2], p[3])
    BY <2>1, <2>2
  <2>4. Naming(p[2], p[3]) <= 4000
    BY <2>3 DEF UnfitPlace
  <2> HIDE DEF d
  <2>5. d = 80 \/ d = Naming(p[2], p[3])
    BY DEF d
  <2> QED
    BY <2>3, <2>4, <2>5
<1> HIDE DEF f, d
<1>6. Encodable({f.service, f.endpoint, f.file})
  BY <1>1, <1>3 DEF UnfitPlace, Encodable
<1>7. Length[f.file] <= 4096 /\ f.line >= 0 /\ Fits(f.service, 200)
  BY <1>1, <1>2 DEF Holds
<1>8. Fits(settings.platform, 200) /\ Length[f.endpoint] <= 2048
  BY <1>1, <1>3, TextLength DEF Fits, Holds
<1>9. ValidFinding(f, settings.platform, 500, d)
  BY <1>1, <1>4, <1>5, <1>6, <1>7, <1>8 DEF ValidFinding
<1> QED
  BY <1>9 DEF f, d

LEMMA InvScan == ContractInv /\ Scan => ContractInv'
<1> SUFFICES ASSUME ContractInv, Scan PROVE ContractInv'
  OBVIOUS
<1> USE DEF ContractInv
<1>1. /\ stage = "running" /\ Valid(settings) /\ settings \in Configurations
      /\ UNCHANGED <<settings, api, alert, before, outcome>>
  BY DEF Scan, RunningIsValid, TypeOK
<1>2. PICK p \in Places, kind \in CodeKinds :
        LET f == CodeFinding(kind, p[1], p[2], p[3])
            description == IF kind \in AstPatterns THEN 80 ELSE Naming(p[2], p[3])
        IN  IF ValidFinding(f, settings.platform, 500, description)
              THEN code' = f /\ raised' = <<"nothing">> /\ UNCHANGED stage
              ELSE /\ stage' = IF kind = FileModified THEN "stopped" ELSE stage
                   /\ code' = None /\ raised' = <<"file", p>>
  BY DEF Scan
<1>3. CASE /\ code' = CodeFinding(kind, p[1], p[2], p[3])
           /\ raised' = <<"nothing">> /\ UNCHANGED stage
           /\ MadeIsValid'
  <2>1. TypeOK'
    BY <1>1, <1>3 DEF TypeOK
  <2> QED
    BY <1>1, <1>3, <2>1
       DEF RunningIsValid, AcceptedIsUsable, GradedByFingerprint
<1>4. CASE /\ stage' \in {"stopped", "running"} /\ UnfitPlace(p)
           /\ code' = None /\ raised' = <<"file", p>>
  <2>1. TypeOK'
    BY <1>1, <1>4 DEF TypeOK
  <2>2. AcceptedIsUsable'
    BY <1>1, <1>4 DEF AcceptedIsUsable
  <2> QED
    BY <1>1, <1>4, <2>1, <2>2 DEF RunningIsValid, GradedByFingerprint, MadeIsValid
<1>5. ASSUME NEW f, NEW n, NEW m, ValidFinding(f, settings.platform, n, m), code' = f
      PROVE  MadeIsValid'
  BY <1>1, <1>5 DEF MadeIsValid, ValidFinding, Encodable
<1> QED
  BY <1>1, <1>2, <1>3, <1>4, <1>5, FitPlaceIsValid

LEMMA InvWatch == ContractInv /\ Watch => ContractInv'
<1> SUFFICES ASSUME ContractInv, Watch PROVE ContractInv'
  OBVIOUS
<1> USE DEF ContractInv
<1>1. /\ stage = "running" /\ stage' = "stopped" /\ raised' = <<"paths">>
      /\ "directory" \notin settings.paths
      /\ UNCHANGED <<settings, api, code, alert, before, outcome>>
  BY DEF Watch
<1>2. TypeOK'
  BY <1>1 DEF TypeOK
<1> QED
  BY <1>1, <1>2
     DEF RunningIsValid, AcceptedIsUsable, GradedByFingerprint, MadeIsValid

LEMMA InvCorrelate == ContractInv /\ Correlate => ContractInv'
<1> SUFFICES ASSUME ContractInv, Correlate PROVE ContractInv'
  OBVIOUS
<1> USE DEF ContractInv
<1>1. /\ stage = "running" /\ Valid(settings) /\ settings \in Configurations
      /\ api # None /\ code # None
      /\ UNCHANGED <<settings, before, outcome>>
  BY DEF Correlate, RunningIsValid, TypeOK
<1>2. PICK t \in settings.targets, k \in ApiKinds :
        api = ApiFinding(k, Service(t), Endpoint(t))
  BY <1>1 DEF TypeOK
<1>3. PICK p \in Places, l \in CodeKinds :
        code = CodeFinding(l, p[1], p[2], p[3])
  BY <1>1 DEF TypeOK
<1>4. /\ api.type = k.type /\ api.severity = k.severity
      /\ api.confidence = k.confidence
      /\ api.service = Service(t) /\ api.endpoint = Endpoint(t)
  BY <1>2 DEF ApiFinding
<1>5. /\ code.type = l.type /\ code.severity = l.severity
      /\ code.confidence = l.confidence /\ code.endpoint = NoText
      /\ code.file = p[2] /\ code.line = p[3]
  BY <1>3 DEF CodeFinding
<1>6. AlertSeverity(api, code) = Grade(Fingerprint(api, code)[3])
  <2>1. Known(api, code)
    BY <1>5 DEF Correlate, ShareScope
  <2>2. Ranged(api) /\ ApiGrade(api)
    BY <1>4, ApiKindFacts DEF Ranged, ApiGrade
  <2>3. Ranged(code) /\ CodeGrade(code)
    BY <1>5, CodeKindFacts DEF Ranged, CodeGrade
  <2>4. Fingerprint(api, code)[3] = api.type
    BY DEF Fingerprint
  <2> QED
    BY <2>1, <2>2, <2>3, <2>4, KnownGrade
<1>7. AlertSeverity(api, code) \in Low..Critical
  BY <1>4, <1>5, ApiKindFacts, CodeKindFacts DEF Ranged, AlertSeverity
<1>8. CASE ValidAlert(api, code, settings.platform)
  <2>1. /\ alert' = [source |-> "correlator",
                     fingerprint |-> Fingerprint(api, code),
                     severity |-> AlertSeverity(api, code)]
        /\ api' = None /\ code' = None
        /\ raised' = <<"nothing">> /\ UNCHANGED stage
    BY <1>8 DEF Correlate
  <2>2. /\ alert'.severity = AlertSeverity(api, code)
        /\ alert'.fingerprint = Fingerprint(api, code)
    BY <2>1
  <2>3. TypeOK'
    BY <1>1, <1>7, <2>1, <2>2 DEF TypeOK
  <2>4. GradedByFingerprint'
    BY <1>1, <1>6, <2>2 DEF GradedByFingerprint
  <2> QED
    BY <1>1, <2>1, <2>3, <2>4 DEF RunningIsValid, AcceptedIsUsable, MadeIsValid
<1>9. ValidAlert(api, code, settings.platform)
  <2>1. /\ Fits(api.service, 200) /\ Length[api.endpoint] <= 2048
        /\ Encodable({api.service, api.endpoint, code.file})
    BY <1>1 DEF MadeIsValid, Encodable
  <2>2. api.endpoint # NoText /\ api.endpoint \in Texts
    <3>1. ValidUrl(t)
      BY <1>1 DEF Valid, ValidTargets
    <3> QED
      BY <1>1, <1>4, <3>1, SettingsType, PathGiven DEF Endpoint
  <2>3. Holds(api.endpoint, 2048)
    BY <2>1, <2>2, TextLength DEF Holds
  <2>4. Holds(code.file, 4096) /\ code.line >= 0
    <3>1. Holds(p[2], 4096) /\ p[3] \in Nat
      BY PlaceAssumption
    <3> QED
      BY <1>5, <3>1
  <2>5. Fits(settings.platform, 200)
    <3>1. Holds(settings.platform, 100) /\ settings.platform \in Texts \ Blank
      BY <1>1, SettingsType DEF Valid
    <3> QED
      BY <3>1, TextLength DEF Fits, Holds
  <2> QED
    BY <2>1, <2>3, <2>4, <2>5 DEF ValidAlert
<1> QED
  BY <1>8, <1>9

LEMMA InvSend == ContractInv /\ Send => ContractInv'
<1> SUFFICES ASSUME ContractInv, Send PROVE ContractInv'
  OBVIOUS
<1> USE DEF ContractInv
<1>1. /\ stage = "running" /\ Valid(settings) /\ alert # None
      /\ before' = alert /\ alert' = None /\ raised' = <<"nothing">>
      /\ UNCHANGED <<settings, stage, api, code>>
  BY DEF Send, RunningIsValid
<1>2. settings.minSeverity \in Low..Critical
  BY <1>1 DEF Valid, ValidNotifier
<1>3. outcome' \in {"below", "nobody", "posted"}
  <2>1. settings.minSeverity # 0
    BY <1>2, Levels
  <2>2. outcome' = CASE settings.minSeverity = 0 -> "raised"
                  [] alert.severity < settings.minSeverity -> "below"
                  [] NumChannels(settings) = 0 -> "nobody"
                  [] OTHER -> "posted"
    BY DEF Send
  <2> HIDE DEF ContractInv
  <2> QED
    BY <2>1, <2>2
<1>4. TypeOK'
  BY <1>1, <1>3 DEF TypeOK
<1> QED
  BY <1>1, <1>3, <1>4
     DEF RunningIsValid, AcceptedIsUsable, GradedByFingerprint, MadeIsValid

LEMMA InvInit == Init => ContractInv
  BY DEF Init, ContractInv, TypeOK, RunningIsValid, AcceptedIsUsable,
         GradedByFingerprint, MadeIsValid

(* The inductive invariant of the process behind settings.validate: it     *)
(* runs with valid settings only, and what a producer has made has passed  *)
(* Finding.__post_init__.                                                  *)
THEOREM ContractInvariance == Spec => []ContractInv
<1>1. ContractInv /\ [Next]_vars => ContractInv'
  <2>1. ContractInv /\ UNCHANGED vars => ContractInv'
    BY DEF vars, ContractInv, TypeOK, RunningIsValid, AcceptedIsUsable,
           GradedByFingerprint, MadeIsValid
  <2> QED
    BY <2>1, InvValidate, InvProbe, InvScan, InvWatch, InvCorrelate, InvSend
       DEF Next
<1> QED
  BY <1>1, InvInit, PTL DEF Spec

(* Every state is of the declared type. *)
THEOREM ContractTypes == Spec => []TypeOK
<1>1. ContractInv => TypeOK
  BY DEF ContractInv
<1> QED
  BY <1>1, ContractInvariance, PTL

(* What settings.validate accepts makes no constructor and no send_alert   *)
(* raise, whatever the producers report, except for an unfit target or     *)
(* file; new_correlated_alert never raises.                                *)
THEOREM AcceptedNeverRaises == Spec => []AcceptedIsUsable
<1>1. ContractInv => AcceptedIsUsable
  BY DEF ContractInv
<1> QED
  BY <1>1, ContractInvariance, PTL

(* The fingerprint of an alert decides its severity, whatever the          *)
(* threshold, the window and the texts are.                                *)
THEOREM FingerprintTellsSeverity == Spec => []SameFingerprintSameSeverity
<1>1. ContractInv => SameFingerprintSameSeverity
  BY DEF ContractInv, GradedByFingerprint, SameFingerprintSameSeverity
<1> QED
  BY <1>1, ContractInvariance, PTL
=============================================================================
