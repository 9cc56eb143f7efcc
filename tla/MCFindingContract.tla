------------------------- MODULE MCFindingContract -------------------------
(* Small instances of FindingContract for TLC. *)
EXTENDS FindingContract, TLC

AllTexts == {NoText, "auth", "/", "/health", "/Health", "/long", "/fits",
             "/toolong", "/garbled", "platform", "wide", " ", "web",
             "auth/login.py",
             "line fits", "line long", "name fits", "name long", "garbled.py"}
BlankTexts == {" "}
GarbledTexts == {"/garbled", "garbled.py"}
TextLength ==
  [t \in AllTexts |->
     CASE t = NoText -> 0
       [] t = "/long" -> 474        \* one more than fits behind "auth"
       [] t = "/fits" -> 473
       [] t = "/toolong" -> 2049
       [] t = "wide" -> 201
       [] t = "line fits" -> 3962   \* "... matched in ... at line 7"
       [] t = "line long" -> 3963
       [] t = "name fits" -> 3976   \* "Monitored file changed: ..."
       [] t = "name long" -> 3977
       [] t \in {"/", " "} -> 1
       [] t = "auth" -> 4
       [] OTHER -> 8]
LowerCase == [t \in AllTexts |-> IF t = "/Health" THEN "/health" ELSE t]

Health == [https |-> TRUE, host |-> "name", label |-> "auth",
           credentials |-> FALSE, query |-> FALSE, path |-> "/health",
           port |-> 443]

(* A URL that differs from a good one in one respect. *)
UrlsLike(u) ==
  {u} \cup {[u EXCEPT !.path = p] : p \in {NoText, "/", "/Health", "/fits", "/long",
                                      "/toolong", "/garbled"}}
    \cup {[u EXCEPT !.host = h] : h \in {"none", "localhost", "prohibited"}}
    \cup {[u EXCEPT !.label = l] : l \in {NoText, "wide", " "}}
    \cup {[u EXCEPT !.https = FALSE], [u EXCEPT !.credentials = TRUE],
          [u EXCEPT !.query = TRUE], [u EXCEPT !.port = 0]}

Good == [production |-> TRUE, platform |-> "platform", redisHost |-> "name",
         password |-> "secret", targets |-> {Health, [Health EXCEPT !.path = "/Health"]},
         slack |-> Health, webhook |-> NoUrl, minSeverity |-> High,
         token |-> "good", chat |-> "good", paths |-> {"directory"},
         extensions |-> {"dotted"}]

(* Settings that differ from good ones in one respect. *)
SettingsLikeGood ==
  {Good, [Good EXCEPT !.production = FALSE]}
    \cup {[Good EXCEPT !.platform = p] : p \in {NoText, "wide"}}
    \cup {[Good EXCEPT !.redisHost = "blank"]}
    \cup {[Good EXCEPT !.password = p] : p \in {"short", "sample"}}
    \cup {[Good EXCEPT !.targets = {}]}
    \cup {[Good EXCEPT !.targets = {u}] : u \in UrlsLike(Health)}
    \cup {[Good EXCEPT !.webhook = u] : u \in {v \in UrlsLike(Health) : ~ValidUrl(v)}}
    \cup {[Good EXCEPT !.slack = NoUrl, !.token = t, !.chat = c] :
            t \in {"none", "good", "bad"}, c \in {"none", "good", "bad"}}
    \cup {[Good EXCEPT !.minSeverity = n] : n \in 0..4}
    \cup {[Good EXCEPT !.paths = p] : p \in {{}, {"directory", "root"}, {"unusable"}, {"missing"}}}
    \cup {[Good EXCEPT !.extensions = e] : e \in {{}, {"other"}}}

CodePlaces ==
  {<<"auth", "auth/login.py", 0>>, <<"auth", "auth/login.py", 7>>,
   <<"auth", "garbled.py", 0>>, <<"auth", "garbled.py", 7>>,
   <<"web", "name fits", 0>>, <<"web", "name long", 0>>,
   <<"web", "line fits", 7>>, <<"web", "line fits", 10>>,
   <<"web", "line long", 7>>}
=============================================================================
