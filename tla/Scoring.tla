------------------------------ MODULE Scoring ------------------------------
(***************************************************************************)
(* Which API finding and which code finding belong together, how sure the  *)
(* correlator is that they do, and the alert it makes of them.             *)
(*                                                                         *)
(* These are functions of two findings.  A finding has the fields of       *)
(* schema.Finding that one of them looks at.  Severities are their order,  *)
(* confidences thousandths, times seconds; NoText is null or "".           *)
(***************************************************************************)
EXTENDS Integers

CONSTANTS
  CorrelationWindow,  \* settings.correlator.correlation_window_secs
  MinConfidence,      \* settings.correlator.min_confidence, in thousandths
  FailureThreshold,   \* settings.api_watcher.failure_threshold
  Lower               \* Lower[t]: the text t in lower case

NoText == ""

(* The bounds of _env_int and _env_float. *)
ASSUME ScoringAssumption ==
  /\ CorrelationWindow \in 1..86400
  /\ MinConfidence \in 0..1000
  /\ FailureThreshold \in 1..100

Low == 1
Medium == 2
High == 3
Critical == 4

----------------------------------------------------------------------------
(* What the producers report *)

Kind(type, severity, confidence) ==
  [type |-> type, severity |-> severity, confidence |-> confidence]

AtMost(limit, n) == IF n > limit THEN limit ELSE n

ClassifyStatus(status) ==
  CASE status \in {401, 403} -> "auth_failure"
    [] status = 429 -> "rate_limit_hit"
    [] status \in 500..599 -> "http_5xx"
    [] status \in 400..499 \ {401, 403, 429} -> "http_4xx"
    [] OTHER -> "anomalous_response"

(* An answer other than 2xx, after so many failures in a row. *)
StatusKind(status, failures) ==
  Kind(ClassifyStatus(status), IF status >= 500 THEN Critical ELSE High,
       AtMost(990, 700 + 50 * failures))

DownKind(failures) ==
  Kind("endpoint_down", Critical, AtMost(990, 800 + 50 * failures))

SlowKind == Kind("high_latency", Medium, 900)
TlsKind == Kind("ssl_error", High, 990)

Statuses == 100..999 \ 200..299
FailureCounts == FailureThreshold..100

ApiKinds ==
  {StatusKind(s, n) : s \in Statuses, n \in FailureCounts}
    \cup {DownKind(n) : n \in FailureCounts} \cup {SlowKind, TlsKind}

(* SECURITY_PATTERNS *)
SecurityPatterns ==
  {Kind("hardcoded_secret", Critical, c) : c \in {850, 880, 900, 970, 990}}
    \cup {Kind("sql_injection_risk", High, c) : c \in {750, 800}}
    \cup {Kind("eval_usage", High, 800), Kind("ssrf_risk", High, 650),
          Kind("weak_crypto", Medium, 880), Kind("weak_crypto", High, 850),
          Kind("mass_assignment", High, 800), Kind("open_redirect", High, 720),
          Kind("missing_auth_check", Medium, 550),
          Kind("reentrancy_risk", Critical, 700)}

(* _ASTVisitor *)
AstPatterns ==
  {Kind("eval_usage", High, 880), Kind("suspicious_pattern", High, 850),
   Kind("null_dereference", Medium, 550)}

FileModified == Kind("file_modified", Low, 1000)

(* _scan_file_regex looks at one line at a time, which the pattern for a   *)
(* missing decorator never matches: it needs the line after it.            *)
LinePatterns == {p \in SecurityPatterns : p.type # "missing_auth_check"}

CodeKinds == LinePatterns \cup AstPatterns \cup {FileModified}

----------------------------------------------------------------------------
(* _findings_share_scope *)

(* The keys of _CORRELATION_KB. *)
KnownPairs ==
  ({"http_5xx"} \X {"null_dereference", "sql_injection_risk", "eval_usage",
                    "reentrancy_risk", "hardcoded_secret", "ssrf_risk"})
    \cup ({"auth_failure"} \X {"missing_auth_check", "hardcoded_secret"})
    \cup {<<"endpoint_down", "null_dereference">>,
          <<"high_latency", "sql_injection_risk">>,
          <<"rate_limit_hit", "missing_auth_check">>}

Known(api, code) == <<api.type, code.type>> \in KnownPairs

Same(text1, text2) == text1 # NoText /\ text1 = text2

(* dt is the time between the two findings. *)
ShareScope(api, code, dt) ==
  /\ api.source = "api" /\ code.source = "code"
  /\ api.service = code.service
  /\ dt <= CorrelationWindow
  /\ IF api.endpoint # NoText /\ code.endpoint # NoText
       THEN api.endpoint = code.endpoint
       ELSE Known(api, code)

----------------------------------------------------------------------------
(* _compute_confidence *)

Bonus(condition, points) == IF condition THEN points ELSE 0

Proximity(dt) == Bonus(dt <= 300, 50) + Bonus(dt <= 60, 50)

Score(api, code, dt) ==
  500 + Bonus(Same(api.trace, code.trace), 350)
      + Bonus(Same(api.endpoint, code.endpoint), 100)
      + Proximity(dt)
      + Bonus(api.severity >= High /\ code.severity >= High, 80)
      + Bonus(Known(api, code), 120)

(* round(score * mean, 3).  Where the fourth digit is exactly 5 the error  *)
(* of the floating-point product decides; no such case is at 0.6.          *)
Confidence(api, code, dt) ==
  AtMost(990, (Score(api, code, dt) * (api.confidence + code.confidence) + 1000)
                \div 2000)

(* correlate() drops a match that is not. *)
Likely(api, code, dt) == Confidence(api, code, dt) >= MinConfidence

----------------------------------------------------------------------------
(* new_correlated_alert *)

(* Fault: the severities are added up. *)
SeverityAdded(api, code) == api.severity + code.severity

(* Fault: the severity of one finding is used. *)
SeverityOfCode(api, code) == code.severity

(* The maximum of the two. *)
AlertSeverity(api, code) ==
  IF api.severity >= code.severity THEN api.severity ELSE code.severity

(* Fault: the type of the API finding is left out. *)
FingerprintOfPlace(api, code) ==
  <<Lower[api.service], Lower[api.endpoint], Lower[code.file], code.line>>

(* _compute_fingerprint: the hash of the parts in lower case (the types    *)
(* are already).  The type of the code finding is not one of them.         *)
Fingerprint(api, code) ==
  <<Lower[api.service], Lower[api.endpoint], api.type, Lower[code.file],
    code.line>>

----------------------------------------------------------------------------
(* What new_finding makes of the arguments of the producers: an API        *)
(* finding has no file and no line, a code finding no endpoint, and        *)
(* neither a trace.                                                        *)
ApiFinding(kind, service, endpoint) ==
  [source |-> "api", type |-> kind.type, severity |-> kind.severity,
   confidence |-> kind.confidence, service |-> service, endpoint |-> endpoint,
   trace |-> NoText, file |-> NoText, line |-> 0]
CodeFinding(kind, service, file, line) ==
  [source |-> "code", type |-> kind.type, severity |-> kind.severity,
   confidence |-> kind.confidence, service |-> service, endpoint |-> NoText,
   trace |-> NoText, file |-> file, line |-> line]
=============================================================================
