-------------------------- MODULE FindingContract --------------------------
(***************************************************************************)
(* What the start-up validation promises to the code that runs after it.   *)
(*                                                                         *)
(* settings.validate accepts or refuses the configuration once.  From then *)
(* on the configured targets turn into the service, the endpoint and the   *)
(* title of findings, findings into alerts, and alerts into notifications, *)
(* and each of them is validated again, by rules of its own, in a place    *)
(* where a failure stops the process or loses what was found.              *)
(*                                                                         *)
(* A text is a member of Texts with a length; an option of the             *)
(* configuration has one value for each way the validation treats it.      *)
(***************************************************************************)
EXTENDS Scoring, FiniteSets

CONSTANTS
  Texts,          \* the service names, paths and platform names there are
  Length,         \* Length[t]: the characters of the text t
  Blank,          \* those of white space only
  Garbled,        \* those that can not be encoded: undecodable file names and
                  \* environment values hold lone surrogates
  Configurations, \* the values settings may have
  Places,         \* <<service, file, line>> in the code; line 0: none
  Gaps            \* seconds that may lie between two findings

ASSUME TextAssumption ==
  /\ NoText \in Texts /\ Length \in [Texts -> Nat] /\ Length[NoText] = 0
  /\ \A t \in Texts : Length[t] = 0 => t = NoText

ASSUME CharacterAssumption ==
  Blank \subseteq Texts /\ Garbled \subseteq Texts \ {NoText}

(* A text that is not empty and at most so long: as it is, and stripped.   *)
Holds(t, limit) == 1 <= Length[t] /\ Length[t] <= limit
Fits(t, limit) == Holds(t, limit) /\ t \notin Blank

(* The decimal digits of a line number. *)
Digits(n) == Cardinality({k \in 0..9 : 10^k <= n})

(* A target or a webhook; path is "" or "/" when it is not explicit.       *)
Urls == [https : BOOLEAN, host : {"none", "name", "localhost", "prohibited"},
         label : Texts, credentials : BOOLEAN, query : BOOLEAN, path : Texts,
         port : Nat]

NoUrl == [host |-> "unset"]

ASSUME ConfigurationAssumption ==
  Configurations \subseteq
    [production : BOOLEAN,
     platform : Texts \ Blank,               \* it is stripped
     redisHost : {"name", "blank"}, password : {"secret", "short", "sample"},
     targets : SUBSET Urls, slack : Urls \cup {NoUrl}, webhook : Urls \cup {NoUrl},
     minSeverity : 0..4,                      \* 0: the name of no severity
     token : {"none", "good", "bad"}, chat : {"none", "good", "bad"},
     paths : SUBSET {"directory", "missing", "root", "unusable"},
     extensions : SUBSET {"dotted", "other"}]
ASSUME PlaceAssumption ==
  \A p \in Places :
    p[1] \in Texts /\ Fits(p[1], 200) /\ p[2] \in Texts /\ Holds(p[2], 4096)
      /\ p[3] \in Nat

VARIABLES
  settings,
  stage,      \* of the process
  api, code,  \* the findings made last, if the producer made one
  alert,      \* what the correlator has made of two of them
  before,     \* history: the alert before that
  outcome,    \* what the last send_alert came to
  raised      \* history: what the last step has raised an exception for

vars == <<settings, stage, api, code, alert, before, outcome, raised>>

None == [source |-> "none"]

Init ==
  /\ settings \in Configurations
  /\ stage = "start"
  /\ api = None /\ code = None
  /\ alert = None /\ before = None
  /\ outcome = "none"
  /\ raised = <<"nothing">>

----------------------------------------------------------------------------
(* config.py *)

(* Fault: the path is not looked at. *)
ValidUrlWithoutPath(u) ==
  /\ u.https
  /\ u.host = "name"
  /\ ~u.credentials /\ ~u.query
  /\ 1 <= u.port /\ u.port <= 65535

(* _validate_http_url.  "name" stands for a public address, too: its first *)
(* label is the first octet.                                               *)
ValidUrl(u) ==
  /\ u.https
  /\ u.host = "name"
  /\ ~u.credentials /\ ~u.query
  /\ u.path \notin {NoText, "/"}
  /\ 1 <= u.port /\ u.port <= 65535

ValidRedis(s) == s.redisHost = "name" /\ s.password = "secret"

ValidTargets(s) ==
  /\ s.targets # {} /\ Cardinality(s.targets) <= 100
  /\ \A t \in s.targets : ValidUrl(t)

ValidNotifier(s) ==
  /\ s.minSeverity \in Low..Critical
  /\ s.token = "none" <=> s.chat = "none"
  /\ s.token # "bad" /\ s.chat # "bad"
  /\ \A u \in {s.slack, s.webhook} \ {NoUrl} : ValidUrl(u)

(* A path that is no directory, or not there, is valid. *)
ValidPaths(s) ==
  /\ s.paths # {} /\ s.paths \subseteq {"directory", "missing"}
  /\ "other" \notin s.extensions

(* Settings.validate *)
Valid(s) ==
  /\ s.production
  /\ Holds(s.platform, 100)
  /\ ValidRedis(s) /\ ValidTargets(s) /\ ValidNotifier(s) /\ ValidPaths(s)

Validate ==
  /\ stage = "start"
  /\ stage' = IF Valid(settings) THEN "running" ELSE "refused"
  /\ UNCHANGED <<settings, api, code, alert, before, outcome, raised>>

----------------------------------------------------------------------------
(* schema.py *)

(* _compute_fingerprint encodes the texts that a fingerprint is made of.   *)
Encodable(texts) == texts \cap Garbled = {}

(* new_finding and Finding.__post_init__; title and description are the    *)
(* lengths of the two.                                                     *)
ValidFinding(f, system, title, description) ==
  /\ Encodable({f.service, f.endpoint, f.file})
  /\ Fits(f.service, 200)
  /\ Fits(system, 200)
  /\ 1 <= title /\ title <= 500
  /\ 1 <= description /\ description <= 4000
  /\ Length[f.endpoint] <= 2048
  /\ Length[f.file] <= 4096
  /\ f.line >= 0
  /\ 0 <= f.confidence /\ f.confidence <= 1000

(* new_correlated_alert and CorrelatedAlert.__post_init__: here an         *)
(* endpoint or a file may be null, which those of the producers never are, *)
(* but not empty.  The root cause and the fix are constants.               *)
ValidAlert(a, c, system) ==
  /\ Encodable({a.service, a.endpoint, c.file})
  /\ Fits(a.service, 200)
  /\ Fits(system, 200)
  /\ Holds(a.endpoint, 2048)
  /\ Holds(c.file, 4096)
  /\ c.line >= 0

----------------------------------------------------------------------------
(* The producers *)

(* _target_metadata *)
Service(u) == u.label
Endpoint(u) == u.path

(* The length of what a title says before service and endpoint: "High      *)
(* latency on ", "Service unreachable: " (or "Endpoint timeout: "),        *)
(* "TLS validation failed: ", "Persistent HTTP 503 on ".                   *)
Preamble(kind) ==
  CASE kind.type = "high_latency" -> 16
    [] kind.type = "endpoint_down" -> 21
    [] OTHER -> 23

(* A probe reports its target: a constructor that raises ends watch.  Its  *)
(* descriptions say no more than service, endpoint and 60 characters.      *)
Probe ==
  /\ stage = "running" /\ alert = None
  /\ \E t \in settings.targets, kind \in ApiKinds :
       LET f == ApiFinding(kind, Service(t), Endpoint(t))
           target == Length[f.service] + Length[f.endpoint]
           title == Preamble(kind) + target
       IN  IF ValidFinding(f, settings.platform, title, 60 + target)
             THEN api' = f /\ raised' = <<"nothing">> /\ UNCHANGED stage
             ELSE /\ stage' = "stopped" /\ raised' = <<"target", t>>
                  /\ UNCHANGED api
  /\ UNCHANGED <<settings, code, alert, before, outcome>>

(* The length of a description that names a file: "Monitored file changed: *)
(* ...", "Security pattern matched in ... at line ...".                    *)
Naming(file, line) ==
  IF line = 0 THEN 24 + Length[file] ELSE 37 + Length[file] + Digits(line)

(* A scan reports a pattern in a file; its titles are short, and so are    *)
(* the descriptions of _ASTVisitor.  When a constructor raises, scan_file  *)
(* and _scan_file_ast go on without the finding; in on_modified it is a    *)
(* failure that ends the watcher.                                          *)
Scan ==
  /\ stage = "running" /\ alert = None /\ "directory" \in settings.paths
  /\ \E p \in Places, kind \in CodeKinds :
       /\ (p[3] = 0) <=> (kind = FileModified)
       /\ LET f == CodeFinding(kind, p[1], p[2], p[3])
              description ==
                IF kind \in AstPatterns THEN 80 ELSE Naming(p[2], p[3])
          IN  IF ValidFinding(f, settings.platform, 500, description)
                THEN code' = f /\ raised' = <<"nothing">> /\ UNCHANGED stage
                ELSE /\ stage' =
                          IF kind = FileModified THEN "stopped" ELSE stage
                     /\ code' = None /\ raised' = <<"file", p>>
  /\ UNCHANGED <<settings, api, alert, before, outcome>>

(* watch of the code watcher raises when none of the paths is a directory. *)
Watch ==
  /\ stage = "running" /\ "directory" \notin settings.paths
  /\ stage' = "stopped" /\ raised' = <<"paths">>
  /\ UNCHANGED <<settings, api, code, alert, before, outcome>>

----------------------------------------------------------------------------
(* correlate *)

(* The two findings are matched, their alert is built, and they leave the  *)
(* buffers: a constructor that raises ends the correlator.                 *)
Correlate ==
  /\ stage = "running" /\ alert = None /\ api # None /\ code # None
  /\ \E dt \in Gaps : ShareScope(api, code, dt) /\ Likely(api, code, dt)
  /\ IF ValidAlert(api, code, settings.platform)
       THEN /\ alert' = [source |-> "correlator",
                         fingerprint |-> Fingerprint(api, code),
                         severity |-> AlertSeverity(api, code)]
            /\ api' = None /\ code' = None
            /\ raised' = <<"nothing">> /\ UNCHANGED stage
       ELSE /\ stage' = "stopped" /\ raised' = <<"pair">>
            /\ UNCHANGED <<alert, api, code>>
  /\ UNCHANGED <<settings, before, outcome>>

(* The channels send_alert finds configured. *)
NumChannels(s) ==
  LET Configured(c) == IF c THEN 1 ELSE 0
  IN  Configured(s.slack # NoUrl) + Configured(s.webhook # NoUrl)
        + Configured(s.token # "none" /\ s.chat # "none")

(* send_alert: the threshold is looked up by its name; with no channel the *)
(* alert is undelivered.                                                   *)
Send ==
  /\ stage = "running" /\ alert # None
  /\ outcome' = CASE settings.minSeverity = 0 -> "raised"
                  [] alert.severity < settings.minSeverity -> "below"
                  [] NumChannels(settings) = 0 -> "nobody"
                  [] OTHER -> "posted"
  /\ before' = alert /\ alert' = None /\ raised' = <<"nothing">>
  /\ UNCHANGED <<settings, stage, api, code>>

----------------------------------------------------------------------------
Next == Validate \/ Probe \/ Scan \/ Watch \/ Correlate \/ Send

Spec == Init /\ [][Next]_vars

----------------------------------------------------------------------------
(* Properties *)

TypeOK ==
  /\ settings \in Configurations
  /\ stage \in {"start", "running", "refused", "stopped"}
  /\ api = None \/ \E t \in settings.targets, kind \in ApiKinds :
                    api = ApiFinding(kind, Service(t), Endpoint(t))
  /\ code = None \/ \E p \in Places, kind \in CodeKinds :
                     code = CodeFinding(kind, p[1], p[2], p[3])
  /\ \A x \in {alert, before} : x = None \/ x.severity \in Low..Critical
  /\ outcome \in {"none", "raised", "below", "nobody", "posted"}
  /\ \/ raised \in {<<"nothing">>, <<"pair">>, <<"paths">>}
     \/ \E t \in settings.targets : raised = <<"target", t>>
     \/ \E p \in Places : raised = <<"file", p>>

(* The title of a finding about this target is too long, its service is    *)
(* the empty first label of ".example.com", a blank or a very long one, or *)
(* it can not be encoded: the validation looks for none of these.          *)
Unfit(u) ==
  \/ ~Fits(Service(u), 200)
  \/ 23 + Length[Service(u)] + Length[Endpoint(u)] > 500
  \/ ~Encodable({Service(u), Endpoint(u)})

(* The name of the file is so long that the description of a finding in it *)
(* is too long, or it can not be encoded.                                  *)
UnfitPlace(p) == Naming(p[2], p[3]) > 4000 \/ ~Encodable({p[1], p[2]})

(* A configuration that was accepted never makes a constructor of the      *)
(* watchers or the correlator raise, nor send_alert, unless a target or a  *)
(* file is unfit, and watch only when no path is a directory: apart from   *)
(* that Settings.validate, Finding.__post_init__ and                       *)
(* CorrelatedAlert.__post_init__ agree on what is valid.                   *)
AcceptedIsUsable ==
  /\ outcome # "raised"
  /\ \/ raised = <<"nothing">>
     \/ \E u \in settings.targets : raised = <<"target", u>> /\ Unfit(u)
     \/ \E p \in Places : raised = <<"file", p>> /\ UnfitPlace(p)
     \/ raised = <<"paths">> /\ "directory" \notin settings.paths

(* Two alerts in a row with the same fingerprint have the same severity:   *)
(* the alert that the cooldown of the first one suppresses is not worse.   *)
(* new_correlated_alert does not hash the severity, nor the type of the    *)
(* code finding that it depends on.  The knowledge base makes up for it:   *)
(* of the code types it pairs with one API type, those that producers      *)
(* report give alerts of one severity.  missing_auth_check would not, next *)
(* to hardcoded_secret, but its pattern matches no single line.            *)
SameFingerprintSameSeverity ==
  alert # None /\ before # None /\ alert.fingerprint = before.fingerprint
    => alert.severity = before.severity

(* shared/PHASE_ARCHITECTURE.md:5: the component "correlates known API/    *)
(* code issue pairs".  Of each pair in the knowledge base there are        *)
(* findings of the producers that make an alert.                           *)
KnownPairAlerts ==
  api # None /\ code # None /\ Known(api, code) =>
    \E a \in ApiKinds, c \in CodeKinds, dt \in Gaps :
      /\ a.type = api.type /\ c.type = code.type
      /\ LET f == ApiFinding(a, api.service, api.endpoint)
             g == CodeFinding(c, api.service, code.file, code.line)
         IN  ShareScope(f, g, dt) /\ Likely(f, g, dt)
=============================================================================
