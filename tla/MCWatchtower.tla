---------------------------- MODULE MCWatchtower ----------------------------
(* A small instance of Watchtower for TLC. *)
EXTENDS Watchtower

CONSTANTS engine, t1, t2

LowerCase == [t \in {NoText, "auth", "/health", "login.py"} |-> t]

(* A slow answer and two errors of one endpoint, two findings of one line  *)
(* of its code: the slow one matches the query, an error either of them.   *)
(* With a threshold of critical nobody is told of the slow one, which is   *)
(* likely only when the findings lie less than a minute apart; the errors  *)
(* are critical beside either, and their alerts share a fingerprint.       *)
Slow == ApiFinding(SlowKind, "auth", "/health")
Broken(failures) == ApiFinding(StatusKind(500, failures), "auth", "/health")
Secret == CodeFinding(Kind("hardcoded_secret", Critical, 900), "auth", "login.py", 7)
Query == CodeFinding(Kind("sql_injection_risk", High, 800), "auth", "login.py", 7)

AnyApi == {Slow, Broken(3), Broken(4)}
AnyCode == {Secret, Query}

LoopFailures == {"crash"}
PipeFailures == {<<"store", "reply">>, <<"claim", "reject">>,
                 <<"publish", "reject">>, <<"process", "crash">>}
=============================================================================
