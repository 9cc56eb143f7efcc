--------------------------- MODULE ScoringProofs ---------------------------
(***************************************************************************)
(* Theorems about Scoring: what the correlator makes of any two findings   *)
(* that the producers report, for any window, threshold and texts.         *)
(***************************************************************************)
EXTENDS Scoring, TLAPS

----------------------------------------------------------------------------
(* The kinds of finding                                                    *)

Ranged(k) == 
  /\ k.severity \in Low..Critical
  /\ k.confidence \in Int /\ 0 <= k.confidence /\ k.confidence <= 1000

(* The severity of the API findings that are in the knowledge base follows *)
(* from their type.                                                        *)
ApiGrade(k) ==
  /\ k.type \in {"http_5xx", "endpoint_down"} => k.severity = Critical
  /\ k.type \in {"auth_failure", "rate_limit_hit"} => k.severity = High
  /\ k.type = "high_latency" => k.severity = Medium

(* Of the code findings this is said where it matters. *)
CodeGrade(k) ==
  /\ k.type # "missing_auth_check"
  /\ k.type = "hardcoded_secret" => k.severity = Critical
  /\ k.type = "sql_injection_risk" => k.severity = High

LEMMA Levels == Low = 1 /\ Medium = 2 /\ High = 3 /\ Critical = 4
  BY DEF Low, Medium, High, Critical

LEMMA KindFields ==
  ASSUME NEW t, NEW s, NEW c
  PROVE  /\ Kind(t, s, c).type = t
         /\ Kind(t, s, c).severity = s
         /\ Kind(t, s, c).confidence = c
  BY DEF Kind

LEMMA StatusClass ==
  ASSUME NEW s \in Statuses
  PROVE  /\ ClassifyStatus(s) # "high_latency" /\ ClassifyStatus(s) # "endpoint_down"
         /\ ClassifyStatus(s) = "http_5xx" => s >= 500
         /\ ClassifyStatus(s) \in {"auth_failure", "rate_limit_hit"} => s < 500
<1>1. s \in Int
  BY DEF Statuses
<1>2. CASE s \in {401, 403}
  BY <1>2 DEF ClassifyStatus
<1>3. CASE s = 429
  BY <1>3 DEF ClassifyStatus
<1>4. CASE s \in 500..599
  BY <1>1, <1>4 DEF ClassifyStatus
<1>5. CASE s \in 400..499 \ {401, 403, 429}
  BY <1>1, <1>5 DEF ClassifyStatus
<1>6. CASE s \notin {401, 403} /\ s # 429 /\ s \notin 500..599 /\ s \notin 400..499
  <2>1. ClassifyStatus(s) = "anomalous_response"
    BY <1>6 DEF ClassifyStatus
  <2> QED
    BY <2>1
<1> QED
  BY <1>1, <1>2, <1>3, <1>4, <1>5, <1>6

LEMMA ApiKindFacts ==
  ASSUME NEW k \in ApiKinds PROVE Ranged(k) /\ ApiGrade(k)
<1>1. \A n \in FailureCounts : n \in Nat
  BY ScoringAssumption DEF FailureCounts
<1>2. ASSUME NEW n \in FailureCounts, NEW x \in Nat
      PROVE  LET c == AtMost(990, x + 50 * n)
             IN  c \in Int /\ 0 <= c /\ c <= 1000
  BY <1>1, <1>2 DEF AtMost
<1>3. ASSUME NEW s \in Statuses, NEW n \in FailureCounts, k = StatusKind(s, n)
      PROVE  Ranged(k) /\ ApiGrade(k)
  <2>1. /\ k.type = ClassifyStatus(s)
        /\ k.severity = IF s >= 500 THEN Critical ELSE High
        /\ k.confidence = AtMost(990, 700 + 50 * n)
    BY <1>3, KindFields DEF StatusKind
  <2>2. s \in Int
    BY DEF Statuses
  <2>3. Ranged(k)
    BY <1>2, <2>1, Levels DEF Ranged
  <2>4. ApiGrade(k)
    BY <2>1, <2>2, StatusClass DEF ApiGrade
  <2> QED
    BY <2>3, <2>4
<1>4. ASSUME NEW n \in FailureCounts, k = DownKind(n)
      PROVE  Ranged(k) /\ ApiGrade(k)
  <2>1. /\ k.type = "endpoint_down" /\ k.severity = Critical
        /\ k.confidence = AtMost(990, 800 + 50 * n)
    BY <1>4, KindFields DEF DownKind
  <2> QED
    BY <1>2, <2>1, Levels DEF Ranged, ApiGrade
<1>5. CASE k = SlowKind \/ k = TlsKind
  BY <1>5, KindFields, Levels DEF SlowKind, TlsKind, Ranged, ApiGrade
<1> QED
  BY <1>3, <1>4, <1>5 DEF ApiKinds

LEMMA CodeKindFacts ==
  ASSUME NEW k \in CodeKinds PROVE Ranged(k) /\ CodeGrade(k)
<1>1. ASSUME NEW t, NEW s \in 1..4, NEW c \in 1..1000, k = Kind(t, s, c),
             t # "missing_auth_check",
             t = "hardcoded_secret" => s = 4,
             t = "sql_injection_risk" => s = 3
      PROVE  Ranged(k) /\ CodeGrade(k)
  BY <1>1, KindFields, Levels DEF Ranged, CodeGrade
<1>2. CASE k \in LinePatterns
  <2>1. k \in SecurityPatterns /\ k.type # "missing_auth_check"
    BY <1>2 DEF LinePatterns
  <2>2. CASE \E c \in {850, 880, 900, 970, 990} :
               k = Kind("hardcoded_secret", Critical, c)
    BY <1>1, <2>2, Levels
  <2>3. CASE \E c \in {750, 800} : k = Kind("sql_injection_risk", High, c)
    BY <1>1, <2>3, Levels
  <2>4. CASE k \in {Kind("eval_usage", High, 800), Kind("ssrf_risk", High, 650),
                    Kind("weak_crypto", Medium, 880), Kind("weak_crypto", High, 850)}
    BY <1>1, <2>4, Levels
  <2>5. CASE k \in {Kind("mass_assignment", High, 800),
                    Kind("open_redirect", High, 720),
                    Kind("reentrancy_risk", Critical, 700)}
    BY <1>1, <2>5, Levels
  <2>6. k # Kind("missing_auth_check", Medium, 550)
    BY <2>1, KindFields
  <2> QED
    BY <2>1, <2>2, <2>3, <2>4, <2>5, <2>6 DEF SecurityPatterns
<1>3. CASE k \in AstPatterns
  BY <1>1, <1>3, Levels DEF AstPatterns
<1>4. CASE k = FileModified
  BY <1>1, <1>4, Levels DEF FileModified
<1> QED
  BY <1>2, <1>3, <1>4 DEF CodeKinds

(* The severity of an alert follows from the type of its API finding, that *)
(* is from its fingerprint.                                                *)
Grade(type) ==
  IF type \in {"http_5xx", "endpoint_down", "auth_failure"} THEN Critical
                                                            ELSE High

LEMMA KnownGrade ==
  ASSUME NEW a, NEW c, Ranged(a), Ranged(c), ApiGrade(a), CodeGrade(c), Known(a, c)
  PROVE  AlertSeverity(a, c) = Grade(a.type)
<1>1. /\ a.severity \in 1..4 /\ c.severity \in 1..4
  BY Levels DEF Ranged
<1>2. CASE a.type \in {"http_5xx", "endpoint_down"}
  BY <1>1, <1>2, Levels DEF ApiGrade, AlertSeverity, Grade
<1>3. CASE a.type = "auth_failure"
  <2>1. c.type = "hardcoded_secret"
    BY <1>3 DEF Known, KnownPairs, CodeGrade
  <2> QED
    BY <1>1, <1>3, <2>1, Levels DEF ApiGrade, CodeGrade, AlertSeverity, Grade
<1>4. CASE a.type = "high_latency"
  <2>1. c.type = "sql_injection_risk"
    BY <1>4 DEF Known, KnownPairs
  <2> QED
    BY <1>1, <1>4, <2>1, Levels DEF ApiGrade, CodeGrade, AlertSeverity, Grade
<1>5. a.type # "rate_limit_hit"
  BY DEF Known, KnownPairs, CodeGrade
<1>6. a.type \in {"http_5xx", "auth_failure", "endpoint_down", "high_latency",
                  "rate_limit_hit"}
  BY DEF Known, KnownPairs
<1> QED
  BY <1>2, <1>3, <1>4, <1>5, <1>6
----------------------------------------------------------------------------
(* Pairs of findings of the producers                                      *)

(* A finding as new_finding makes it for a watcher. *)
FromApi(a) == \E k \in ApiKinds : a = ApiFinding(k, a.service, a.endpoint)
FromCode(c) == \E k \in CodeKinds : c = CodeFinding(k, c.service, c.file, c.line)

LEMMA ApiFacts ==
  ASSUME NEW a, FromApi(a)
  PROVE  /\ a.source = "api" /\ a.trace = NoText
         /\ Ranged(a) /\ ApiGrade(a)
         /\ \E k \in ApiKinds : a.type = k.type /\ a.confidence = k.confidence
<1>1. PICK k \in ApiKinds : a = ApiFinding(k, a.service, a.endpoint)
  BY DEF FromApi
<1>2. /\ a.source = "api" /\ a.trace = NoText /\ a.type = k.type
      /\ a.severity = k.severity /\ a.confidence = k.confidence
  BY <1>1 DEF ApiFinding
<1>3. Ranged(k) /\ ApiGrade(k)
  BY ApiKindFacts
<1> QED
  BY <1>2, <1>3 DEF Ranged, ApiGrade

LEMMA CodeFacts ==
  ASSUME NEW c, FromCode(c)
  PROVE  /\ c.source = "code" /\ c.trace = NoText /\ c.endpoint = NoText
         /\ Ranged(c) /\ CodeGrade(c)
         /\ \E k \in CodeKinds :
              c.type = k.type /\ c.severity = k.severity /\ c.confidence = k.confidence
<1>1. PICK k \in CodeKinds : c = CodeFinding(k, c.service, c.file, c.line)
  BY DEF FromCode
<1>2. /\ c.source = "code" /\ c.trace = NoText /\ c.endpoint = NoText
      /\ c.type = k.type /\ c.severity = k.severity /\ c.confidence = k.confidence
  BY <1>1 DEF CodeFinding
<1>3. Ranged(k) /\ CodeGrade(k)
  BY CodeKindFacts
<1> QED
  BY <1>2, <1>3 DEF Ranged, CodeGrade

(* _findings_share_scope: a code finding has no endpoint, so that only the *)
(* knowledge base brings the findings of the two watchers together.        *)
THEOREM OnlyKnownPairs ==
  ASSUME NEW a, NEW c, NEW dt, FromApi(a), FromCode(c), ShareScope(a, c, dt)
  PROVE  Known(a, c)
  BY CodeFacts DEF ShareScope

(* What _compute_fingerprint hashes decides the maximum that               *)
(* new_correlated_alert takes of the two severities, although neither the  *)
(* severities nor the type of the code finding is among it.                *)
THEOREM SeverityOfPair ==
  ASSUME NEW a, NEW c, NEW dt, FromApi(a), FromCode(c), ShareScope(a, c, dt)
  PROVE  AlertSeverity(a, c) = Grade(Fingerprint(a, c)[3])
<1>1. Known(a, c)
  BY OnlyKnownPairs
<1>2. AlertSeverity(a, c) = Grade(a.type)
  BY <1>1, ApiFacts, CodeFacts, KnownGrade
<1>3. Fingerprint(a, c)[3] = a.type
  BY DEF Fingerprint
<1> QED
  BY <1>2, <1>3

(* The severity of every alert is one of the upper two: the default        *)
(* threshold of the notifier, high, suppresses none of them.               *)
THEOREM AlertsAreSevere ==
  ASSUME NEW a, NEW c, NEW dt, FromApi(a), FromCode(c), ShareScope(a, c, dt)
  PROVE  AlertSeverity(a, c) \in {High, Critical}
  BY SeverityOfPair DEF Grade

----------------------------------------------------------------------------
(* The confidence                                                          *)

LEMMA ScoreRange ==
  ASSUME NEW a, NEW c, NEW dt, FromApi(a), FromCode(c)
  PROVE  /\ Score(a, c, dt) \in 500..800
         /\ c.severity < High => Score(a, c, dt) <= 720
<1>1. ~Same(a.trace, c.trace) /\ ~Same(a.endpoint, c.endpoint)
  BY ApiFacts, CodeFacts DEF Same
<1> DEFINE p == Proximity(dt)
           s == Bonus(a.severity >= High /\ c.severity >= High, 80)
           k == Bonus(Known(a, c), 120)
<1>2. p \in {0, 50, 100}
  BY DEF Proximity, Bonus
<1>3. s \in {0, 80} /\ k \in {0, 120}
  BY DEF Bonus
<1>4. Bonus(Same(a.trace, c.trace), 350) = 0 /\ Bonus(Same(a.endpoint, c.endpoint), 100) = 0
  BY <1>1 DEF Bonus
<1>5. c.severity < High => s = 0
  BY Levels, CodeFacts DEF Bonus, Ranged
<1>6. Score(a, c, dt) = 500 + 0 + 0 + p + s + k
  BY <1>4 DEF Score
<1> HIDE DEF p, s, k
<1> QED
  BY <1>2, <1>3, <1>5, <1>6
LEMMA ApiConfidence ==
  ASSUME NEW k \in ApiKinds PROVE k.confidence <= 990
<1>1. ASSUME NEW n \in FailureCounts, NEW x \in Nat
      PROVE  AtMost(990, x + 50 * n) <= 990
  BY <1>1, ScoringAssumption DEF FailureCounts, AtMost
<1>2. ASSUME NEW s \in Statuses, NEW n \in FailureCounts, k = StatusKind(s, n)
      PROVE  k.confidence <= 990
  BY <1>1, <1>2, KindFields DEF StatusKind
<1>3. ASSUME NEW n \in FailureCounts, k = DownKind(n)
      PROVE  k.confidence <= 990
  BY <1>1, <1>3, KindFields DEF DownKind
<1>4. CASE k = SlowKind \/ k = TlsKind
  BY <1>4, KindFields DEF SlowKind, TlsKind
<1> QED
  BY <1>2, <1>3, <1>4 DEF ApiKinds

LEMMA NullDereference ==
  ASSUME NEW k \in CodeKinds, k.type = "null_dereference"
  PROVE  k.severity = Medium /\ k.confidence = 550
<1>1. ASSUME NEW t, NEW s, NEW n, k = Kind(t, s, n)
      PROVE  t = "null_dereference"
  BY <1>1, KindFields
<1>2. k \notin SecurityPatterns
  BY <1>1 DEF SecurityPatterns
<1>3. k \in AstPatterns
  BY <1>1, <1>2 DEF CodeKinds, LinePatterns, FileModified
<1>4. k = Kind("null_dereference", Medium, 550)
  BY <1>1, <1>3 DEF AstPatterns
<1> QED
  BY <1>4, KindFields

LEMMA SumOf ==
  ASSUME NEW x \in Int, NEW y \in Int, 0 <= x, x <= 1000, 0 <= y, y <= 1000
  PROVE  x + y \in 0..2000 /\ x + y \in Nat
  OBVIOUS

(* The sum that _compute_confidence takes the mean of. *)
LEMMA SumRange ==
  ASSUME NEW a, NEW c, FromApi(a), FromCode(c)
  PROVE  a.confidence + c.confidence \in Nat
<1>1. a.confidence \in Int /\ 0 <= a.confidence /\ a.confidence <= 1000
  BY ApiFacts DEF Ranged
<1>2. c.confidence \in Int /\ 0 <= c.confidence /\ c.confidence <= 1000
  BY CodeFacts DEF Ranged
<1> QED
  BY <1>1, <1>2, SumOf

LEMMA Product ==
  ASSUME NEW x \in Nat, NEW y \in Nat, NEW m \in Nat, NEW n \in Nat, x <= m, y <= n
  PROVE  x * y \in Nat /\ x * y <= m * n
<1>1. x * y <= m * y
  BY SMT
<1>2. m * y <= m * n
  BY SMT
<1> QED
  BY <1>1, <1>2, SMT

(* A confidence is between 0 and 0.99, as _compute_confidence caps it,     *)
(* which CorrelatedAlert.__post_init__ asks for.                           *)
THEOREM ConfidenceBounds ==
  ASSUME NEW a, NEW c, NEW dt, FromApi(a), FromCode(c)
  PROVE  Confidence(a, c, dt) \in 0..990
<1>1. PICK x \in Nat, y \in Nat :
        x = Score(a, c, dt) /\ y = a.confidence + c.confidence
  <2>1. Score(a, c, dt) \in Nat
    BY ScoreRange
  <2>2. a.confidence + c.confidence \in Nat
    BY SumRange
  <2> QED
    BY <2>1, <2>2
<1>2. x * y \in Nat
  OBVIOUS
<1>3. PICK z \in Nat : z = x * y
  BY <1>2
<1>4. PICK q \in Nat : q = (z + 1000) \div 2000
  OBVIOUS
<1>5. Confidence(a, c, dt) = AtMost(990, q)
  BY <1>1, <1>3, <1>4 DEF Confidence
<1> QED
  BY <1>5 DEF AtMost

(* Two findings that lie closer together are no less likely to be a match: *)
(* the proximity bonus of _compute_confidence never falls with the time.   *)
THEOREM CloserIsLikelier ==
  ASSUME NEW a, NEW c, FromApi(a), FromCode(c),
         NEW near \in Nat, NEW far \in Nat, near <= far, Likely(a, c, far)
  PROVE  Likely(a, c, near)
<1>1. PICK x \in Nat, y \in Nat, w \in Nat :
        /\ x = Score(a, c, near) /\ w = Score(a, c, far)
        /\ y = a.confidence + c.confidence
  <2>1. Score(a, c, near) \in Nat /\ Score(a, c, far) \in Nat
    BY ScoreRange
  <2>2. a.confidence + c.confidence \in Nat
    BY SumRange
  <2> QED
    BY <2>1, <2>2
<1>2. w <= x
  <2>1. Proximity(far) <= Proximity(near) /\ Proximity(far) \in Nat
        /\ Proximity(near) \in Nat
    BY DEF Proximity, Bonus
  <2>2. PICK p \in Nat, q \in Nat, r \in Nat :
          x = 500 + p + q + Proximity(near) + r + 0
            /\ w = 500 + p + q + Proximity(far) + r + 0
    <3> DEFINE p == Bonus(Same(a.trace, c.trace), 350)
               q == Bonus(Same(a.endpoint, c.endpoint), 100)
               s == Bonus(a.severity >= High /\ c.severity >= High, 80)
               k == Bonus(Known(a, c), 120)
    <3>1. p \in Nat /\ q \in Nat /\ s \in Nat /\ k \in Nat
      BY DEF Bonus
    <3>2. x = 500 + p + q + Proximity(near) + s + k
            /\ w = 500 + p + q + Proximity(far) + s + k
      BY <1>1 DEF Score
    <3> HIDE DEF p, q, s, k
    <3>3. s + k \in Nat
      BY <3>1
    <3>4. x = 500 + p + q + Proximity(near) + (s + k) + 0
            /\ w = 500 + p + q + Proximity(far) + (s + k) + 0
      BY <2>1, <3>1, <3>2
    <3> QED
      BY <3>1, <3>3, <3>4
  <2> QED
    BY <2>1, <2>2
<1>3. w * y <= x * y /\ x * y \in Nat /\ w * y \in Nat
  BY <1>2, Product
<1>4. PICK m \in Nat, n \in Nat : m = w * y /\ n = x * y
  BY <1>3
<1>5. AtMost(990, (m + 1000) \div 2000) <= AtMost(990, (n + 1000) \div 2000)
  BY <1>3, <1>4 DEF AtMost
<1>6. AtMost(990, (m + 1000) \div 2000) >= MinConfidence
  BY <1>1, <1>4 DEF Likely, Confidence
<1>7. AtMost(990, (m + 1000) \div 2000) \in Int
        /\ AtMost(990, (n + 1000) \div 2000) \in Int
  BY DEF AtMost
<1>8. AtMost(990, (n + 1000) \div 2000) >= MinConfidence
  BY <1>5, <1>6, <1>7, ScoringAssumption
<1> QED
  BY <1>1, <1>4, <1>8 DEF Likely, Confidence

(* What is in the knowledge base and can not make an alert unless          *)
(* min_confidence is lowered from its default of 0.6 to 0.554: a possible  *)
(* null dereference is never sure enough, and no scanner reports a missing *)
(* check, so that an endpoint that is down or limits its callers is never  *)
(* correlated with anything (_CORRELATION_KB and _compute_confidence).     *)
THEOREM DeadKnowledge ==
  ASSUME NEW a, NEW c, NEW dt, FromApi(a), FromCode(c), ShareScope(a, c, dt),
         MinConfidence >= 555, Likely(a, c, dt)
  PROVE  /\ c.type \notin {"null_dereference", "missing_auth_check"}
         /\ a.type \in {"http_5xx", "auth_failure", "high_latency"}
<1>1. c.type # "missing_auth_check" /\ Known(a, c)
  BY CodeFacts, OnlyKnownPairs DEF CodeGrade
<1>2. c.type # "null_dereference"
  <2> SUFFICES ASSUME c.type = "null_dereference" PROVE FALSE
    OBVIOUS
  <2>1. c.severity = Medium /\ c.confidence = 550
    BY CodeFacts, NullDereference
  <2>2. PICK x \in Nat : x = Score(a, c, dt) /\ x <= 720
    BY <2>1, ScoreRange, Levels
  <2>3. PICK y \in Nat : y = a.confidence + c.confidence /\ y <= 1540
    BY <2>1, SumRange, ApiFacts, ApiConfidence DEF Ranged
  <2>4. x * y <= 720 * 1540 /\ x * y \in Nat
    BY <2>2, <2>3, Product
  <2>5. PICK z \in Nat : z = x * y /\ z <= 1108800
    BY <2>4
  <2>6. AtMost(990, (z + 1000) \div 2000) <= 554
    BY <2>5 DEF AtMost
  <2> QED
    BY <2>2, <2>3, <2>5, <2>6, ScoringAssumption DEF Likely, Confidence, AtMost
<1> QED
  BY <1>1, <1>2 DEF Known, KnownPairs

(* The score of two findings made in the same minute. *)
LEMMA ScoreOfKinds ==
  ASSUME NEW k \in ApiKinds, NEW l \in CodeKinds, NEW s, NEW e, NEW f, NEW n,
         <<k.type, l.type>> \in KnownPairs
  PROVE  LET a == ApiFinding(k, s, e)
             c == CodeFinding(l, s, f, n)
         IN  /\ ShareScope(a, c, 0)
             /\ Score(a, c, 0) = 720 + Bonus(k.severity >= High /\ l.severity >= High, 80)
             /\ a.confidence = k.confidence /\ c.confidence = l.confidence
<1> DEFINE a == ApiFinding(k, s, e)
           c == CodeFinding(l, s, f, n)
<1>1. /\ a.source = "api" /\ a.service = s /\ a.type = k.type /\ a.trace = NoText
      /\ a.severity = k.severity /\ a.confidence = k.confidence
  BY DEF ApiFinding
<1>2. /\ c.source = "code" /\ c.service = s /\ c.type = l.type /\ c.trace = NoText
      /\ c.severity = l.severity /\ c.confidence = l.confidence
      /\ c.endpoint = NoText
  BY DEF CodeFinding
<1> HIDE DEF a, c
<1>3. Known(a, c)
  BY <1>1, <1>2 DEF Known
<1>4. ShareScope(a, c, 0)
  <2>1. 0 <= CorrelationWindow
    BY ScoringAssumption
  <2> QED
    BY <1>1, <1>2, <1>3, <2>1 DEF ShareScope
<1>5. ~Same(a.trace, c.trace) /\ ~Same(a.endpoint, c.endpoint)
  BY <1>1, <1>2 DEF Same
<1>6. /\ Bonus(Same(a.trace, c.trace), 350) = 0
      /\ Bonus(Same(a.endpoint, c.endpoint), 100) = 0
      /\ Bonus(Known(a, c), 120) = 120
      /\ Proximity(0) = 100
  BY <1>3, <1>5 DEF Bonus, Proximity
<1>7. PICK p \in Int : p = Bonus(k.severity >= High /\ l.severity >= High, 80)
  BY DEF Bonus
<1>8. Score(a, c, 0) = 720 + p
  BY <1>1, <1>2, <1>6, <1>7 DEF Score
<1> QED
  BY <1>1, <1>2, <1>4, <1>7, <1>8 DEF a, c

LEMMA KindsLikely ==
  ASSUME NEW k \in ApiKinds, NEW l \in CodeKinds, NEW s, NEW e, NEW f, NEW n,
         <<k.type, l.type>> \in KnownPairs, MinConfidence <= 600,
         \/ k.severity >= High /\ l.severity >= High
              /\ k.confidence = 990 /\ l.confidence >= 650
         \/ k.confidence = 900 /\ l.confidence = 800
  PROVE  LET a == ApiFinding(k, s, e)
             c == CodeFinding(l, s, f, n)
         IN  ShareScope(a, c, 0) /\ Likely(a, c, 0)
<1> DEFINE a == ApiFinding(k, s, e)
           c == CodeFinding(l, s, f, n)
<1>1. /\ ShareScope(a, c, 0)
      /\ Score(a, c, 0) = 720 + Bonus(k.severity >= High /\ l.severity >= High, 80)
      /\ a.confidence = k.confidence /\ c.confidence = l.confidence
  BY ScoreOfKinds
<1> HIDE DEF a, c
<1>2. PICK x \in {720, 800} :
        /\ x = Score(a, c, 0)
        /\ k.severity >= High /\ l.severity >= High => x = 800
  BY <1>1 DEF Bonus
<1>3. PICK y \in Int : y = l.confidence /\ 0 <= y
  BY CodeKindFacts DEF Ranged
<1>4. CASE x = 800 /\ a.confidence = 990 /\ y >= 650
  <2>1. Confidence(a, c, 0) = AtMost(990, (800 * (990 + y) + 1000) \div 2000)
    BY <1>1, <1>2, <1>3, <1>4 DEF Confidence
  <2>2. AtMost(990, (800 * (990 + y) + 1000) \div 2000) >= 600
    BY <1>4 DEF AtMost
  <2>3. AtMost(990, (800 * (990 + y) + 1000) \div 2000) \in Int
    BY DEF AtMost
  <2> QED
    BY <1>1, <2>1, <2>2, <2>3, ScoringAssumption DEF Likely, a, c
<1>5. CASE a.confidence = 900 /\ y = 800
  <2>1. Confidence(a, c, 0) = AtMost(990, (x * 1700 + 1000) \div 2000)
    BY <1>1, <1>2, <1>3, <1>5 DEF Confidence
  <2>2. AtMost(990, (x * 1700 + 1000) \div 2000) \in {612, 680}
    BY <1>2 DEF AtMost
  <2> QED
    BY <1>1, <2>1, <2>2, ScoringAssumption DEF Likely, a, c
<1> QED
  BY <1>1, <1>2, <1>3, <1>4, <1>5

(* The rest of the knowledge base is alive: of every other pair of types   *)
(* the watchers report findings that, made in the same second, share their *)
(* scope and are likely enough for the default of min_confidence.          *)
THEOREM LiveKnowledge ==
  ASSUME NEW type, NEW defect, <<type, defect>> \in KnownPairs,
         defect \notin {"null_dereference", "missing_auth_check"},
         MinConfidence <= 600, NEW s, NEW e, NEW f, NEW n
  PROVE  \E k \in ApiKinds, l \in CodeKinds :
           /\ k.type = type /\ l.type = defect
           /\ ShareScope(ApiFinding(k, s, e), CodeFinding(l, s, f, n), 0)
           /\ Likely(ApiFinding(k, s, e), CodeFinding(l, s, f, n), 0)
<1>1. AtMost(990, 700 + 50 * 100) = 990
  BY DEF AtMost
<1>2. 100 \in FailureCounts /\ 500 \in Statuses /\ 401 \in Statuses
  BY ScoringAssumption DEF FailureCounts, Statuses
<1>3. ClassifyStatus(500) = "http_5xx" /\ ClassifyStatus(401) = "auth_failure"
  BY DEF ClassifyStatus
<1> DEFINE error == StatusKind(500, 100)
           denial == StatusKind(401, 100)
<1>4. /\ error \in ApiKinds /\ error.type = "http_5xx"
      /\ error.severity = Critical /\ error.confidence = 990
  BY <1>1, <1>2, <1>3, KindFields DEF ApiKinds, StatusKind
<1>5. /\ denial \in ApiKinds /\ denial.type = "auth_failure"
      /\ denial.severity = High /\ denial.confidence = 990
  BY <1>1, <1>2, <1>3, KindFields DEF ApiKinds, StatusKind
<1>6. /\ SlowKind \in ApiKinds /\ SlowKind.type = "high_latency"
      /\ SlowKind.confidence = 900
  BY KindFields DEF ApiKinds, SlowKind
<1>7. ASSUME defect \in {"sql_injection_risk", "eval_usage", "reentrancy_risk",
                         "hardcoded_secret", "ssrf_risk"}
      PROVE  \E l \in CodeKinds :
               /\ l.type = defect /\ l.severity >= High /\ l.confidence >= 650
               /\ defect = "sql_injection_risk" => l.confidence = 800
  <2> DEFINE sql == Kind("sql_injection_risk", High, 800)
             eval == Kind("eval_usage", High, 800)
             reentrancy == Kind("reentrancy_risk", Critical, 700)
             secret == Kind("hardcoded_secret", Critical, 900)
             ssrf == Kind("ssrf_risk", High, 650)
  <2>1. {sql, eval, reentrancy, secret, ssrf} \subseteq SecurityPatterns
    BY DEF SecurityPatterns
  <2>2. \A l \in {sql, eval, reentrancy, secret, ssrf} :
          /\ l.type # "missing_auth_check"
          /\ l.severity >= High /\ l.confidence >= 650
    BY KindFields, Levels
  <2>3. \A l \in {sql, eval, reentrancy, secret, ssrf} : l \in CodeKinds
    BY <2>1, <2>2 DEF CodeKinds, LinePatterns
  <2>4. /\ sql.type = "sql_injection_risk" /\ eval.type = "eval_usage"
        /\ reentrancy.type = "reentrancy_risk" /\ ssrf.type = "ssrf_risk"
        /\ secret.type = "hardcoded_secret" /\ sql.confidence = 800
    BY KindFields
  <2> HIDE DEF sql, eval, reentrancy, secret, ssrf
  <2> QED
    BY <1>7, <2>2, <2>3, <2>4
<1> HIDE DEF error, denial
<1>8. /\ defect \in {"sql_injection_risk", "eval_usage", "reentrancy_risk",
                     "hardcoded_secret", "ssrf_risk"}
      /\ type \in {"http_5xx", "auth_failure", "high_latency"}
      /\ type = "high_latency" => defect = "sql_injection_risk"
  BY DEF KnownPairs
<1>9. PICK l \in CodeKinds :
        /\ l.type = defect /\ l.severity >= High /\ l.confidence >= 650
        /\ defect = "sql_injection_risk" => l.confidence = 800
  BY <1>7, <1>8
<1>10. CASE type = "http_5xx"
  BY <1>4, <1>9, <1>10, Levels, KindsLikely
<1>11. CASE type = "auth_failure"
  BY <1>5, <1>9, <1>11, Levels, KindsLikely
<1>12. CASE type = "high_latency"
  BY <1>6, <1>8, <1>9, <1>12, KindsLikely
<1> QED
  BY <1>8, <1>10, <1>11, <1>12
=============================================================================
