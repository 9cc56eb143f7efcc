-------------------------- MODULE CorrelatorProofs --------------------------
(***************************************************************************)
(* Theorems about Correlator, for any findings, any relation between them, *)
(* any buffer size and window, and any faults.                             *)
(*                                                                         *)
(* The argument: when a pass begins, every pair that shares a scope has    *)
(* the newest finding in it, because the pass before left none.  The scan  *)
(* uses the newest finding once, so it finds one match at most, and        *)
(* removing that match removes the newest finding, and with it every pair. *)
(***************************************************************************)
EXTENDS Correlator, FiniteSetTheorems, SequenceTheorems, WellFoundedInduction,
        TLAPS

AllEntries == Entries(Findings)

(* The deques keep their order in the numbers of the entries: of any       *)
(* entries there is an oldest.                                             *)
LEMMA OldestProperty ==
  ASSUME NEW S \in SUBSET AllEntries, S # {}
  PROVE  Oldest(S) \in S /\ \A d \in S : Oldest(S).n <= d.n
<1> DEFINE T == {e.n : e \in S}
           Less == {ss \in Nat \X Nat : ss[1] < ss[2]}
<1>1. T \subseteq Nat /\ T # {}
  BY DEF AllEntries, Entries
<1>w. IsWellFoundedOn(Less, Nat)
  BY NatLessThanWellFounded DEF OpToRel
<1> HIDE DEF Less
<1>2. PICK m \in T : \A y \in T : ~(<<y, m>> \in Less)
  BY <1>1, <1>w, WFMin
<1>3. ASSUME NEW y \in T PROVE m <= y
  <2>1. y \in Nat /\ m \in Nat /\ <<y, m>> \notin Less
    BY <1>1, <1>2
  <2>2. ~(y < m)
    BY <2>1 DEF Less
  <2> QED
    BY <2>1, <2>2
<1>4. PICK e \in S : e.n = m
  BY <1>2
<1>5. \A d \in S : e.n <= d.n
  BY <1>3, <1>4
<1> QED
  BY <1>5 DEF Oldest

(* Every entry came in before the next one will, and no two at once. *)
Numbered ==
  /\ \A e \in api \cup code : e.n < arrivals
  /\ \A e, d \in api \cup code : e.n = d.n => e = d

Pair(a, c) == <<a.finding, c.finding>> \in Related

NoPair == \A a \in api, c \in code : ~Pair(a, c)

(* Every pair in the buffers has the finding that came in last. *)
PairsAreNew ==
  \A a \in api, c \in code :
    Pair(a, c) => a.n = arrivals - 1 \/ c.n = arrivals - 1

(* The one match there is. *)
Matched ==
  /\ Len(matches) = 1
  /\ matches[1][1] \in api /\ matches[1][2] \in code
  /\ Pair(matches[1][1], matches[1][2])
  /\ matches[1][1].n = arrivals - 1 \/ matches[1][2].n = arrivals - 1

LoopInv ==
  /\ TypeOK
  /\ Numbered
  /\ todo \subseteq api
  /\ pc # "scan" => todo = {}
  /\ pc \in {"pop", "match"} => matches = <<>>
  /\ pc = "pop" => NoPair
  /\ pc # "pop" => PairsAreNew
  /\ pc = "scan" =>
       \/ matches = <<>> /\ \A a \in api \ todo, c \in code : ~Pair(a, c)
       \/ Matched
  /\ pc = "handle" => (matches = <<>> /\ NoPair) \/ Matched
----------------------------------------------------------------------------
LEMMA OldestIn ==
  ASSUME TypeOK
  PROVE  /\ \A S \in SUBSET api : S # {} => Oldest(S) \in S
         /\ \A S \in SUBSET code : S # {} => Oldest(S) \in S
<1>1. api \subseteq AllEntries /\ code \subseteq AllEntries
  BY DEF TypeOK, AllEntries, Entries, Findings
<1> QED
  BY <1>1, OldestProperty

LEMMA AppendToBounds ==
  ASSUME NEW buffer, NEW e
  PROVE  AppendTo(buffer, e) \subseteq buffer \cup {e}
  BY DEF AppendTo

LEMMA WithoutBounds ==
  ASSUME NEW buffer, NEW f
  PROVE  Without(buffer, f) \subseteq buffer
  BY DEF Without

(* Type correctness. *)
LEMMA TypeStep == TypeOK /\ [Next]_vars => TypeOK'
<1> SUFFICES ASSUME TypeOK, [Next]_vars PROVE TypeOK'
  OBVIOUS
<1> USE SettingsAssumption
<1>1. ASSUME NEW f \in Findings, Push(f) PROVE TypeOK'
  <2>1. Append(queue, f) \in Seq(Findings)
    BY AppendProperties DEF TypeOK
  <2>2. tries' \in [Findings -> 0..MaxAttempts]
    <3>1. 0 \in 0..MaxAttempts /\ tries[f] - 1 \in 0..MaxAttempts
      BY <1>1 DEF Push, TypeOK
    <3>2. \E k \in 0..MaxAttempts : tries' = [tries EXCEPT ![f] = k]
      BY <1>1, <3>1 DEF Push
    <3> QED
      BY <3>2 DEF TypeOK
  <2> QED
    BY <1>1, <2>1, <2>2 DEF Push, TypeOK, buffers, history
<1>2. CASE Tick
  <2>1. age' \in [Findings -> 0..Window]
    BY <1>2 DEF Tick, TypeOK
  <2> QED
    BY <1>2, <2>1 DEF Tick, TypeOK, buffers, history
<1>3. CASE Receive
  <2>1. Head(queue) \in Findings /\ Tail(queue) \in Seq(Findings)
    BY <1>3, HeadTailProperties DEF Receive, TypeOK
  <2>2. api' \in SUBSET Entries(ApiFindings)
    BY <1>3, AppendToBounds DEF Receive, TypeOK, Entries
  <2>3. code' \in SUBSET Entries(CodeFindings)
    BY <1>3, AppendToBounds DEF Receive, TypeOK, Entries
  <2>4. added' \in [Findings -> Nat] /\ arrivals' \in Nat
    <3>1. added[Head(queue)] + 1 \in Nat /\ arrivals + 1 \in Nat
      BY <2>1 DEF TypeOK
    <3>2. arrivals' = arrivals \/ arrivals' = arrivals + 1
      BY <1>3 DEF Receive
    <3>3. \/ added' = added
          \/ added' = [added EXCEPT ![Head(queue)] = added[Head(queue)] + 1]
      BY <1>3 DEF Receive
    <3>4. added' \in [Findings -> Nat]
      BY <3>1, <3>3 DEF TypeOK
    <3> QED
      BY <3>1, <3>2, <3>4 DEF TypeOK
  <2>5. pc' \in {"pop", "match"}
    BY <1>3 DEF Receive
  <2> QED
    BY <1>3, <2>1, <2>2, <2>3, <2>4, <2>5 DEF Receive, TypeOK, producer
<1>4. CASE LosePop
  <2>1. Tail(queue) \in Seq(Findings)
    BY <1>4, HeadTailProperties DEF LosePop, TypeOK
  <2> QED
    BY <1>4, <2>1 DEF LosePop, TypeOK, producer, buffers, history
<1>5. CASE PopNothing
  BY <1>5 DEF PopNothing, TypeOK, vars
<1>6. CASE Evict
  BY <1>6 DEF Evict, Fresh, TypeOK, producer, history
<1>7. CASE Scan
  <2> DEFINE partners == {c \in code : /\ <<Oldest(todo).finding, c.finding>> \in Related
                                      /\ ~Used(c.finding)}
  <2>1. todo # {} /\ todo \subseteq AllEntries
    BY <1>7 DEF Scan, TypeOK, AllEntries, Entries, Findings
  <2>2. Oldest(todo) \in Entries(ApiFindings)
    BY <2>1, OldestProperty DEF TypeOK
  <2>3. ASSUME partners # {}
        PROVE  Oldest(partners) \in Entries(CodeFindings)
    BY <2>3, OldestIn DEF TypeOK
  <2>4. \/ matches' = matches
        \/ /\ partners # {}
           /\ matches' = Append(matches, <<Oldest(todo), Oldest(partners)>>)
    BY <1>7, Zenon DEF Scan
  <2>5. matches' \in Seq(Entries(ApiFindings) \X Entries(CodeFindings))
    <3> HIDE DEF partners
    <3> DEFINE m == <<Oldest(todo), Oldest(partners)>>
    <3>1. CASE partners # {}
      <4>1. m \in Entries(ApiFindings) \X Entries(CodeFindings)
        BY <2>2, <2>3, <3>1
      <4> HIDE DEF m
      <4>2. Append(matches, m) \in Seq(Entries(ApiFindings) \X Entries(CodeFindings))
        BY <4>1, AppendProperties DEF TypeOK
      <4>3. matches' = matches \/ matches' = Append(matches, m)
        BY <2>4 DEF m
      <4> QED
        BY <4>2, <4>3 DEF TypeOK
    <3>2. CASE partners = {}
      BY <2>4, <3>2 DEF TypeOK
    <3> QED
      BY <3>1, <3>2
  <2> QED
    BY <1>7, <2>5 DEF Scan, TypeOK, producer, buffers, history
<1>8. CASE EndScan
  BY <1>8 DEF EndScan, TypeOK, producer, buffers, history
<1>9. CASE HandleMatch
  <2>1. /\ Head(matches) \in Entries(ApiFindings) \X Entries(CodeFindings)
        /\ Tail(matches) \in Seq(Entries(ApiFindings) \X Entries(CodeFindings))
    BY <1>9, HeadTailProperties DEF HandleMatch, TypeOK
  <2>2. api' \in SUBSET Entries(ApiFindings) /\ code' \in SUBSET Entries(CodeFindings)
    BY <1>9, WithoutBounds DEF HandleMatch, TypeOK
  <2>3. /\ Head(matches)[1].finding \in Findings
        /\ Head(matches)[2].finding \in Findings
    BY <2>1 DEF Entries, Findings
  <2> DEFINE a == Head(matches)[1].finding
             c == Head(matches)[2].finding
  <2>4. alerts' \in [Findings -> Nat]
    <3>0. a \in ApiFindings /\ c \in CodeFindings
      BY <2>1 DEF Entries
    <3>2. \/ alerts' = alerts
          \/ alerts' = [alerts EXCEPT ![a] = @ + 1, ![c] = @ + 1]
      BY <1>9, Zenon DEF HandleMatch
    <3>3. ASSUME NEW x \in ApiFindings, NEW y \in CodeFindings,
                 x \in Findings, y \in Findings
          PROVE  [alerts EXCEPT ![x] = @ + 1, ![y] = @ + 1] \in [Findings -> Nat]
      <4>1. x # y
        BY <3>3, FindingAssumption
      <4>2. alerts[x] + 1 \in Nat /\ alerts[y] + 1 \in Nat
        BY <3>3 DEF TypeOK
      <4> QED
        BY <3>3, <4>1, <4>2 DEF TypeOK
    <3>4. a \in Findings /\ c \in Findings
      BY <2>3
    <3> HIDE DEF a, c
    <3>5. [alerts EXCEPT ![a] = @ + 1, ![c] = @ + 1] \in [Findings -> Nat]
      BY <3>0, <3>3, <3>4
    <3> QED
      BY <3>2, <3>5 DEF TypeOK
  <2> QED
    BY <1>9, <2>1, <2>2, <2>4 DEF HandleMatch, TypeOK, producer
<1>10. CASE EndPass
  BY <1>10 DEF EndPass, TypeOK, producer, buffers, history
<1>11. CASE Crash
  <2>1. <<>> \in Seq(Entries(ApiFindings) \X Entries(CodeFindings))
    OBVIOUS
  <2> QED
    BY <1>11, <2>1 DEF Crash, TypeOK, producer, history
<1>12. CASE UNCHANGED vars
  BY <1>12 DEF vars, TypeOK
<1> QED
  BY <1>1, <1>2, <1>3, <1>4, <1>5, <1>6, <1>7, <1>8, <1>9, <1>10, <1>11, <1>12
     DEF Next, Loop

(* Every state of every behaviour is of the declared type. *)
THEOREM TypeCorrect == Spec => []TypeOK
<1>1. Init => TypeOK
  BY SettingsAssumption DEF Init, TypeOK
<1> QED
  BY <1>1, TypeStep, PTL DEF Spec
----------------------------------------------------------------------------
(* No entry is in both buffers, and only one entry came in last. *)
LEMMA BuffersApart ==
  ASSUME TypeOK, NEW a \in api, NEW c \in code
  PROVE  a # c
  BY FindingAssumption DEF TypeOK, Entries

LEMMA OneNewest ==
  ASSUME TypeOK, Numbered,
         NEW e \in api \cup code, NEW d \in api \cup code,
         e.n = arrivals - 1, d.n = arrivals - 1
  PROVE  e = d
  BY DEF Numbered

(* Two pairs in the buffers have the newest finding in common, on the same *)
(* side.                                                                   *)
LEMMA PairsMeet ==
  ASSUME TypeOK, Numbered, PairsAreNew,
         NEW a \in api, NEW c \in code, Pair(a, c),
         NEW b \in api, NEW d \in code, Pair(b, d)
  PROVE  (a = b /\ a.n = arrivals - 1) \/ (c = d /\ c.n = arrivals - 1)
<1>1. a.n = arrivals - 1 \/ c.n = arrivals - 1
  BY DEF PairsAreNew
<1>2. b.n = arrivals - 1 \/ d.n = arrivals - 1
  BY DEF PairsAreNew
<1>3. a # d /\ b # c
  BY BuffersApart
<1>4. CASE a.n = arrivals - 1
  BY <1>2, <1>3, <1>4, OneNewest
<1>5. CASE c.n = arrivals - 1
  BY <1>2, <1>3, <1>5, OneNewest
<1> QED
  BY <1>1, <1>4, <1>5

(* A step that leaves the loop's own variables alone. *)
LEMMA LoopFrame ==
  ASSUME LoopInv, TypeOK',
         UNCHANGED <<pc, arrivals, api, code, todo, matches>>
  PROVE  LoopInv'
  BY DEF LoopInv, Numbered, NoPair, Pair, PairsAreNew, Matched

(* buffer.add: the finding that comes in is in every pair there is. *)
LEMMA ReceiveStep == LoopInv /\ TypeOK' /\ Receive => LoopInv'
<1> SUFFICES ASSUME LoopInv, TypeOK', Receive PROVE LoopInv'
  OBVIOUS
<1> DEFINE f == Head(queue)
           e == [finding |-> f, n |-> arrivals]
<1>1. TypeOK /\ Numbered /\ NoPair /\ todo = {} /\ matches = <<>>
  BY DEF LoopInv, Receive
<1>2. CASE f \in OtherFindings
  <2>1. f \notin ApiFindings /\ f \notin CodeFindings
    BY <1>2, FindingAssumption
  <2> QED
    BY <2>1, <1>2, LoopFrame DEF Receive
<1>3. CASE f \notin OtherFindings
  <2>1. /\ pc' = "match" /\ arrivals' = arrivals + 1
        /\ todo' = todo /\ matches' = matches
    BY <1>3 DEF Receive
  <2>2. api' \subseteq api \cup {e} /\ code' \subseteq code \cup {e}
    BY AppendToBounds DEF Receive
  <2>3. e.n = arrivals /\ arrivals \in Nat
    BY <1>1 DEF TypeOK
  <2> HIDE DEF e
  <2>4. \A d \in api' \cup code' : d = e \/ (d \in api \cup code /\ d.n < arrivals)
    BY <1>1, <2>2 DEF Numbered
  <2>5. \A d \in api \cup code : d.n \in Nat
    BY <1>1 DEF TypeOK, Entries
  <2>6. Numbered'
    BY <1>1, <2>1, <2>3, <2>4, <2>5 DEF Numbered
  <2>7. PairsAreNew'
    <3> SUFFICES ASSUME NEW a \in api', NEW c \in code', Pair(a, c)'
                 PROVE  a.n = arrivals \/ c.n = arrivals
      BY <2>1, <2>3 DEF PairsAreNew
    <3>1. a \notin api \/ c \notin code
      BY <1>1 DEF NoPair, Pair
    <3> QED
      BY <2>2, <2>3, <3>1
  <2> QED
    BY <1>1, <2>1, <2>6, <2>7 DEF LoopInv
<1> QED
  BY <1>2, <1>3

(* find_matches begins: eviction takes findings away only. *)
LEMMA EvictStep == LoopInv /\ TypeOK' /\ Evict => LoopInv'
<1> SUFFICES ASSUME LoopInv, TypeOK', Evict PROVE LoopInv'
  OBVIOUS
<1>1. /\ api' \subseteq api /\ code' \subseteq code /\ todo' = api'
      /\ pc' = "scan" /\ arrivals' = arrivals /\ matches' = matches
  BY DEF Evict, Fresh
<1>2. Numbered /\ PairsAreNew /\ matches = <<>>
  BY DEF LoopInv, Evict
<1>3. Numbered'
  BY <1>1, <1>2 DEF Numbered
<1>4. PairsAreNew'
  BY <1>1, <1>2 DEF PairsAreNew, Pair
<1> QED
  BY <1>1, <1>2, <1>3, <1>4 DEF LoopInv

(* The matches found so far use no finding, or the one match does. *)
LEMMA UsedProperty ==
  /\ matches = <<>> => \A f : ~Used(f)
  /\ Len(matches) = 1 =>
       \A f : Used(f) <=> f = matches[1][1].finding \/ f = matches[1][2].finding
<1>1. matches = <<>> => \A f : ~Used(f)
  BY DEF Used
<1>2. Len(matches) = 1 => 1..Len(matches) = {1}
  OBVIOUS
<1> QED
  BY <1>1, <1>2, Zenon DEF Used

(* An iteration of the outer loop: with no match yet it finds the pair of  *)
(* its entry, if there is one; with a match it finds nothing more.         *)
LEMMA ScanStep == LoopInv /\ TypeOK' /\ Scan => LoopInv'
<1> SUFFICES ASSUME LoopInv, TypeOK', Scan PROVE LoopInv'
  OBVIOUS
<1> DEFINE a == Oldest(todo)
           partners == {c \in code : /\ <<a.finding, c.finding>> \in Related
                                     /\ ~Used(c.finding)}
           found == partners # {} /\ ~Used(a.finding)
<1>1. /\ TypeOK /\ Numbered /\ PairsAreNew /\ todo \subseteq api
      /\ todo # {} /\ pc = "scan"
      /\ \/ matches = <<>> /\ \A b \in api \ todo, c \in code : ~Pair(b, c)
         \/ Matched
  BY DEF LoopInv, Scan
<1>2. /\ pc' = "scan" /\ api' = api /\ code' = code /\ arrivals' = arrivals
      /\ todo' = todo \ {a}
  BY <1>1 DEF Scan, buffers
<1>3. a \in todo /\ a \in api
  BY <1>1, OldestIn
<1>4. Numbered' /\ PairsAreNew'
  BY <1>1, <1>2 DEF Numbered, PairsAreNew, Pair
<1>5. /\ found => matches' = Append(matches, <<a, Oldest(partners)>>)
      /\ ~found => matches' = matches
  <2>1. matches' = IF partners = {} \/ Used(a.finding) THEN matches
                   ELSE Append(matches, <<a, Oldest(partners)>>)
    BY Zenon DEF Scan
  <2> HIDE DEF partners, a
  <2> QED
    BY <2>1
<1>6. partners # {} =>
        /\ Oldest(partners) \in code
        /\ Pair(a, Oldest(partners))
        /\ ~Used(Oldest(partners).finding)
  <2>1. partners \in SUBSET code
    OBVIOUS
  <2>2. partners # {} => Oldest(partners) \in partners
    BY <1>1, <2>1, OldestIn
  <2> QED
    BY <2>2 DEF Pair
<1>7. CASE matches = <<>> /\ \A b \in api \ todo, c \in code : ~Pair(b, c)
  <2>1. \A f : ~Used(f)
    BY <1>7, UsedProperty
  <2>2. CASE partners = {}
    <3>1. \A c \in code : ~Pair(a, c)
      BY <2>1, <2>2 DEF Pair
    <3>2. matches' = <<>>
      BY <1>5, <1>7, <2>2
    <3>3. (\A b \in api \ todo, c \in code : ~Pair(b, c))'
      BY <1>2, <1>7, <3>1 DEF Pair
    <3> QED
      BY <1>1, <1>2, <1>4, <3>2, <3>3 DEF LoopInv
  <2>3. CASE partners # {}
    <3> DEFINE p == Oldest(partners)
    <3>1. p \in code /\ Pair(a, p)
      BY <1>6, <2>3
    <3>2. matches' = Append(<<>>, <<a, p>>)
      BY <1>5, <1>7, <2>1, <2>3
    <3> HIDE DEF p, a
    <3>3. matches' = << <<a, p>> >>
      BY <3>2
    <3>4. a.n = arrivals - 1 \/ p.n = arrivals - 1
      BY <1>1, <1>3, <3>1 DEF PairsAreNew
    <3>5. Len(matches') = 1 /\ matches'[1] = <<a, p>>
      BY <3>3
    <3>6. Matched'
      BY <1>2, <1>3, <3>1, <3>4, <3>5 DEF Matched, Pair
    <3> QED
      BY <1>1, <1>2, <1>4, <3>6 DEF LoopInv
  <2> QED
    BY <2>2, <2>3
<1>8. CASE Matched
  <2>1. ASSUME found PROVE FALSE
    <3> DEFINE p == Oldest(partners)
    <3>1. p \in code /\ Pair(a, p) /\ ~Used(p.finding) /\ ~Used(a.finding)
      BY <1>6, <2>1
    <3> HIDE DEF p, a
    <3>2. a # matches[1][1] /\ p # matches[1][2]
      BY <1>8, <3>1, UsedProperty DEF Matched
    <3> QED
      BY <1>1, <1>3, <1>8, <3>1, <3>2, PairsMeet DEF Matched
  <2>2. matches' = matches
    BY <1>5, <2>1
  <2>3. Matched'
    BY <1>2, <1>8, <2>2 DEF Matched, Pair
  <2> QED
    BY <1>1, <1>2, <1>4, <2>3 DEF LoopInv
<1> QED
  BY <1>1, <1>7, <1>8

LEMMA EndScanStep == LoopInv /\ TypeOK' /\ EndScan => LoopInv'
<1> SUFFICES ASSUME LoopInv, TypeOK', EndScan PROVE LoopInv'
  OBVIOUS
<1>1. /\ pc = "scan" /\ todo = {} /\ pc' = "handle"
      /\ UNCHANGED <<arrivals, api, code, todo, matches>>
  BY DEF EndScan, buffers
<1>2. /\ Numbered /\ PairsAreNew
      /\ (matches = <<>> /\ NoPair) \/ Matched
  BY <1>1 DEF LoopInv, NoPair
<1> QED
  BY <1>1, <1>2 DEF LoopInv, Numbered, PairsAreNew, NoPair, Matched, Pair

(* deque.remove takes away an entry that is as old as any other copy.      *)
LEMMA WithoutProperty ==
  ASSUME NEW buffer \in SUBSET AllEntries, NEW e \in buffer
  PROVE  \E k \in buffer :
           /\ k.finding = e.finding /\ k.n <= e.n
           /\ Without(buffer, e.finding) = buffer \ {k}
<1> DEFINE copies == {d \in buffer : d.finding = e.finding}
<1>1. copies \in SUBSET AllEntries /\ e \in copies
  OBVIOUS
<1>2. Oldest(copies) \in copies /\ Oldest(copies).n <= e.n
  BY <1>1, OldestProperty
<1>3. Without(buffer, e.finding) = buffer \ {Oldest(copies)}
  BY <1>1 DEF Without
<1> QED
  BY <1>2, <1>3

(* remove_pair takes the newest finding out of the buffers, and every pair *)
(* with it.  The removed copy is the newest entry itself: an older copy of *)
(* it would make a pair without it.                                        *)
LEMMA OnlyMatch ==
  ASSUME LoopInv, HandleMatch
  PROVE  Head(matches) = matches[1] /\ Tail(matches) = <<>>
<1>1. /\ matches \in Seq(Entries(ApiFindings) \X Entries(CodeFindings))
      /\ Len(matches) = 1
  BY DEF LoopInv, HandleMatch, TypeOK, Matched
<1>2. matches # <<>>
  BY DEF HandleMatch
<1>3. /\ Head(matches) = matches[1]
      /\ Tail(matches) \in Seq(Entries(ApiFindings) \X Entries(CodeFindings))
      /\ Len(Tail(matches)) = 0
  BY <1>1, <1>2, HeadTailProperties
<1> QED
  BY <1>3, EmptySeq

LEMMA HandleStep == LoopInv /\ TypeOK' /\ HandleMatch => LoopInv'
<1> SUFFICES ASSUME LoopInv, TypeOK', HandleMatch PROVE LoopInv'
  OBVIOUS
<1> DEFINE m == matches[1][1]
           p == matches[1][2]
<1>1. /\ TypeOK /\ Numbered /\ PairsAreNew /\ todo = {} /\ Matched
      /\ pc = "handle"
  BY DEF LoopInv, HandleMatch
<1>2. /\ m \in api /\ p \in code /\ Pair(m, p)
      /\ m.n = arrivals - 1 \/ p.n = arrivals - 1
  BY <1>1 DEF Matched
<1>3. Head(matches) = matches[1] /\ Tail(matches) = <<>>
  BY OnlyMatch
<1>4. /\ pc' = "handle" /\ arrivals' = arrivals /\ todo' = todo
      /\ matches' = <<>>
      /\ api' = Without(api, m.finding) /\ code' = Without(code, p.finding)
  BY <1>1, <1>3 DEF HandleMatch
<1>5. api \subseteq AllEntries /\ code \subseteq AllEntries
  BY <1>1 DEF TypeOK, AllEntries, Entries, Findings
<1>6. PICK j \in api : /\ j.finding = m.finding /\ j.n <= m.n
                       /\ api' = api \ {j}
  BY <1>2, <1>4, <1>5, WithoutProperty
<1>7. PICK k \in code : /\ k.finding = p.finding /\ k.n <= p.n
                        /\ code' = code \ {k}
  BY <1>2, <1>4, <1>5, WithoutProperty
<1> HIDE DEF m, p
<1>8. Pair(j, p) /\ Pair(m, k)
  BY <1>2, <1>6, <1>7 DEF Pair
<1>9. m.n = arrivals - 1 => j = m
  <2>1. ASSUME m.n = arrivals - 1, j # m PROVE FALSE
    <3>1. p.n = arrivals - 1
      BY <1>1, <1>2, <1>6, <1>8, <2>1, PairsMeet
    <3>2. m = p
      BY <1>1, <1>2, <2>1, <3>1, OneNewest
    <3> QED
      BY <1>1, <1>2, <3>2, BuffersApart
  <2> QED
    BY <2>1
<1>10. p.n = arrivals - 1 => k = p
  <2>1. ASSUME p.n = arrivals - 1, k # p PROVE FALSE
    <3>1. m.n = arrivals - 1
      BY <1>1, <1>2, <1>7, <1>8, <2>1, PairsMeet
    <3>2. m = p
      BY <1>1, <1>2, <2>1, <3>1, OneNewest
    <3> QED
      BY <1>1, <1>2, <3>2, BuffersApart
  <2> QED
    BY <2>1
<1>11. NoPair'
  <2> SUFFICES ASSUME NEW a \in api', NEW c \in code', Pair(a, c) PROVE FALSE
    BY DEF NoPair, Pair
  <2>1. a \in api /\ c \in code /\ a # j /\ c # k
    BY <1>6, <1>7
  <2>2. (a = m /\ a.n = arrivals - 1) \/ (c = p /\ c.n = arrivals - 1)
    BY <1>1, <1>2, <2>1, PairsMeet
  <2> QED
    BY <1>9, <1>10, <2>1, <2>2
<1>12. Numbered'
  BY <1>1, <1>4, <1>6, <1>7 DEF Numbered
<1> QED
  BY <1>1, <1>4, <1>11, <1>12 DEF LoopInv, NoPair, PairsAreNew, Pair

LEMMA EndPassStep == LoopInv /\ TypeOK' /\ EndPass => LoopInv'
<1> SUFFICES ASSUME LoopInv, TypeOK', EndPass PROVE LoopInv'
  OBVIOUS
<1>1. /\ pc = "handle" /\ matches = <<>> /\ pc' = "pop"
      /\ UNCHANGED <<arrivals, api, code, todo, matches>>
  BY DEF EndPass, buffers
<1>2. Numbered /\ NoPair /\ todo = {}
  BY <1>1 DEF LoopInv, Matched
<1> QED
  BY <1>1, <1>2 DEF LoopInv, Numbered, NoPair, Pair

(* One step per action of the specification. *)
LEMMA LoopStep == LoopInv /\ [Next]_vars => LoopInv'
<1> SUFFICES ASSUME LoopInv, [Next]_vars PROVE LoopInv'
  OBVIOUS
<1>0. TypeOK'
  BY TypeStep DEF LoopInv
<1>1. ASSUME NEW f \in Findings, Push(f) PROVE LoopInv'
  BY <1>0, <1>1, LoopFrame DEF Push, buffers
<1>2. CASE Tick
  BY <1>0, <1>2, LoopFrame DEF Tick, buffers
<1>3. CASE LosePop
  BY <1>0, <1>3, LoopFrame DEF LosePop, buffers
<1>4. CASE PopNothing
  BY <1>0, <1>4, LoopFrame DEF PopNothing, vars
<1>5. CASE Crash
  <2>1. /\ pc' = "pop" /\ api' = {} /\ code' = {} /\ todo' = {}
        /\ matches' = <<>> /\ arrivals' = arrivals
    BY <1>5 DEF Crash
  <2> QED
    BY <1>0, <2>1 DEF LoopInv, Numbered, NoPair, Pair
<1>6. CASE UNCHANGED vars
  BY <1>0, <1>6, LoopFrame DEF vars
<1> QED
  BY <1>0, <1>1, <1>2, <1>3, <1>4, <1>5, <1>6, ReceiveStep, EvictStep,
     ScanStep, EndScanStep, HandleStep, EndPassStep DEF Next, Loop

LEMMA LoopInvInit == Init => LoopInv
<1> SUFFICES ASSUME Init PROVE LoopInv
  OBVIOUS
<1>1. TypeOK
  BY SettingsAssumption DEF Init, TypeOK
<1> QED
  BY <1>1 DEF Init, LoopInv, Numbered, NoPair, Pair

(* The inductive invariant of correlate(): what holds in each phase of it. *)
THEOREM LoopInvariance == Spec => []LoopInv
  BY LoopInvInit, LoopStep, PTL DEF Spec

(* What the properties say is part of the invariant. *)
LEMMA LoopInvSafe ==
  LoopInv => NoPairWaiting /\ OneMatchPerPass /\ MatchIsBuffered
<1> SUFFICES ASSUME LoopInv
             PROVE  NoPairWaiting /\ OneMatchPerPass /\ MatchIsBuffered
  OBVIOUS
<1>1. NoPairWaiting
  BY DEF LoopInv, NoPair, Pair, NoPairWaiting
<1>2. matches = <<>> \/ Matched
  BY DEF LoopInv, TypeOK
<1>3. CASE matches = <<>>
  BY <1>1, <1>3 DEF OneMatchPerPass, MatchIsBuffered
<1>4. CASE Matched
  <2>1. 1..Len(matches) = {1} /\ Len(matches) <= 1
    BY <1>4 DEF Matched
  <2>2. OneMatchPerPass
    BY <1>4, <2>1 DEF Matched, OneMatchPerPass
  <2>3. MatchIsBuffered
    BY <1>4, <2>1 DEF Matched, MatchIsBuffered
  <2> QED
    BY <1>1, <2>2, <2>3
<1> QED
  BY <1>2, <1>3, <1>4

(* No finding waits beside one that shares its scope once a pass is over:  *)
(* find_matches and remove_pair leave no pair behind.                      *)
THEOREM NothingWaits == Spec => []NoPairWaiting
  BY LoopInvSafe, LoopInvariance, PTL

(* find_matches returns one match at most, and it has the newest finding   *)
(* in it.                                                                  *)
THEOREM OneMatch == Spec => []OneMatchPerPass
  BY LoopInvSafe, LoopInvariance, PTL

(* remove_pair finds what it is asked to remove. *)
THEOREM MatchesAreBuffered == Spec => []MatchIsBuffered
  BY LoopInvSafe, LoopInvariance, PTL

----------------------------------------------------------------------------
(***************************************************************************)
(* Theorems about what Correlator counts: the entries of its buffers and   *)
(* the alerts that come out of them.                                       *)
(***************************************************************************)

Bounded ==
  /\ IsFiniteSet(api) /\ IsFiniteSet(code)
  /\ BuffersBounded

(* The copies of a finding that wait in a buffer. *)
Copies(f) == {e \in api \cup code : e.finding = f}

(* Each copy that came in waits, was part of an alert, or is gone.         *)
CopiesAccounted ==
  \A f \in Findings : alerts[f] + Cardinality(Copies(f)) <= added[f]

CountInv == LoopInv /\ Bounded /\ CopiesAccounted

----------------------------------------------------------------------------
(* Sets with one element more, as CorrelationBuffer.add makes them. *)
LEMMA OneMore ==
  ASSUME NEW R, IsFiniteSet(R), NEW e
  PROVE  /\ IsFiniteSet(R \cup {e})
         /\ Cardinality(R \cup {e}) <= Cardinality(R) + 1
<1>1. Cardinality(R) \in Nat
  BY FS_CardinalityType
<1>2. /\ IsFiniteSet(R \cup {e})
      /\ \/ Cardinality(R \cup {e}) = Cardinality(R)
         \/ Cardinality(R \cup {e}) = Cardinality(R) + 1
  BY FS_AddElement
<1> QED
  BY <1>1, <1>2

LEMMA AppendToSize ==
  ASSUME NEW S \in SUBSET AllEntries, IsFiniteSet(S), Cardinality(S) <= MaxSize,
         NEW e
  PROVE  /\ IsFiniteSet(AppendTo(S, e))
         /\ Cardinality(AppendTo(S, e)) <= MaxSize
<1>1. Cardinality(S) \in Nat
  BY FS_CardinalityType
<1>2. CASE Cardinality(S) < MaxSize
  <2>1. AppendTo(S, e) = S \cup {e}
    BY <1>2 DEF AppendTo
  <2> QED
    BY <1>1, <1>2, <2>1, FS_AddElement, SettingsAssumption
<1>3. CASE ~(Cardinality(S) < MaxSize)
  <2>1. AppendTo(S, e) = (S \ {Oldest(S)}) \cup {e}
    BY <1>3 DEF AppendTo
  <2>2. S # {}
    BY <1>1, <1>3, FS_EmptySet, SettingsAssumption
  <2>3. Oldest(S) \in S
    BY <2>2, OldestProperty
  <2>4. /\ IsFiniteSet(S \ {Oldest(S)})
        /\ Cardinality(S \ {Oldest(S)}) = Cardinality(S) - 1
    BY <2>3, FS_RemoveElement
  <2>5. /\ IsFiniteSet((S \ {Oldest(S)}) \cup {e})
        /\ Cardinality((S \ {Oldest(S)}) \cup {e})
             <= Cardinality(S \ {Oldest(S)}) + 1
    BY <2>4, OneMore
  <2>6. Cardinality((S \ {Oldest(S)}) \cup {e}) \in Nat
    BY <2>5, FS_CardinalityType
  <2> QED
    BY <1>1, <2>1, <2>4, <2>5, <2>6, SettingsAssumption
<1> QED
  BY <1>2, <1>3

(* A buffer that loses entries stays small. *)
LEMMA FewerEntries ==
  ASSUME NEW S, NEW T \in SUBSET S, IsFiniteSet(S), Cardinality(S) <= MaxSize
  PROVE  IsFiniteSet(T) /\ Cardinality(T) <= MaxSize
  BY FS_Subset, FS_CardinalityType, SettingsAssumption

(* The buffers get smaller and nothing is counted. *)
LEMMA LosesEntries ==
  ASSUME CountInv, LoopInv', api' \subseteq api, code' \subseteq code,
         UNCHANGED <<added, alerts>>
  PROVE  CountInv'
<1>1. Bounded'
  BY FewerEntries DEF CountInv, Bounded, BuffersBounded
<1>2. CopiesAccounted'
  <2> SUFFICES ASSUME NEW f \in Findings
               PROVE  alerts[f] + Cardinality(Copies(f)') <= added[f]
    BY DEF CopiesAccounted
  <2> DEFINE S == Copies(f)
             T == {e \in api' \cup code' : e.finding = f}
  <2>1. T \subseteq S /\ IsFiniteSet(S)
    BY FS_Union, FS_Subset DEF Copies, CountInv, Bounded
  <2>2. /\ Cardinality(T) <= Cardinality(S)
        /\ Cardinality(T) \in Nat /\ Cardinality(S) \in Nat
    BY <2>1, FS_Subset, FS_CardinalityType
  <2>3. alerts[f] \in Nat /\ added[f] \in Nat
    BY DEF CountInv, LoopInv, TypeOK
  <2>4. alerts[f] + Cardinality(S) <= added[f]
    BY DEF CountInv, CopiesAccounted
  <2>5. Copies(f)' = T
    BY DEF Copies
  <2> HIDE DEF S, T
  <2> QED
    BY <2>2, <2>3, <2>4, <2>5
<1> QED
  BY <1>1, <1>2 DEF CountInv

LEMMA CountInit == Init => CountInv
<1> SUFFICES ASSUME Init PROVE CountInv
  OBVIOUS
<1>1. api = {} /\ code = {} /\ LoopInv
  BY LoopInvInit DEF Init
<1>2. \A f : Copies(f) = {}
  BY <1>1 DEF Copies
<1>3. IsFiniteSet({}) /\ Cardinality({}) = 0
  BY FS_EmptySet
<1>4. Bounded
  BY <1>1, <1>3, SettingsAssumption DEF Bounded, BuffersBounded
<1>5. CopiesAccounted
  <2> SUFFICES ASSUME NEW f \in Findings
               PROVE  alerts[f] + Cardinality(Copies(f)) <= added[f]
    BY DEF CopiesAccounted
  <2>1. alerts[f] = 0 /\ added[f] = 0
    BY DEF Init
  <2>2. Cardinality(Copies(f)) = 0
    BY <1>2, <1>3
  <2> QED
    BY <2>1, <2>2
<1> QED
  BY <1>1, <1>4, <1>5 DEF CountInv

(* A finding comes in: one copy more, counted, and at most one entry more. *)
LEMMA CountReceive == CountInv /\ LoopInv' /\ Receive => CountInv'
<1> SUFFICES ASSUME CountInv, LoopInv', Receive PROVE CountInv'
  OBVIOUS
<1>0. TypeOK /\ LoopInv /\ Bounded /\ CopiesAccounted
  BY DEF CountInv, LoopInv
<1>g. PICK g \in Findings : g = Head(queue)
  BY <1>0, HeadTailProperties DEF Receive, TypeOK
<1>e. PICK e : e = [finding |-> g, n |-> arrivals]
  OBVIOUS
<1>1. g = Head(queue) /\ e = [finding |-> g, n |-> arrivals]
  BY <1>g, <1>e
<1>2. /\ api' \in {api, AppendTo(api, e)} /\ code' \in {code, AppendTo(code, e)}
      /\ UNCHANGED alerts
      /\ g \in OtherFindings => api' = api /\ code' = code /\ added' = added
      /\ g \notin OtherFindings => added' = [added EXCEPT ![g] = @ + 1]
  BY <1>1, FindingAssumption DEF Receive
<1>3. Bounded'
  <2>1. api \in SUBSET AllEntries /\ code \in SUBSET AllEntries
    BY <1>0 DEF TypeOK, AllEntries, Entries, Findings
  <2>2. /\ IsFiniteSet(AppendTo(api, e)) /\ Cardinality(AppendTo(api, e)) <= MaxSize
        /\ IsFiniteSet(AppendTo(code, e)) /\ Cardinality(AppendTo(code, e)) <= MaxSize
    BY <1>0, <2>1, AppendToSize DEF Bounded, BuffersBounded
  <2> QED
    BY <1>0, <1>2, <2>2 DEF Bounded, BuffersBounded
<1>4. CASE g \in OtherFindings
  BY <1>0, <1>2, <1>4, LosesEntries
<1>5. CASE g \notin OtherFindings
  <2> SUFFICES ASSUME NEW f \in Findings
               PROVE  alerts'[f] + Cardinality(Copies(f)') <= added'[f]
    BY <1>3 DEF CountInv, CopiesAccounted
  <2> DEFINE S == Copies(f)
             T == {d \in api' \cup code' : d.finding = f}
  <2>1. Copies(f)' = T
    BY DEF Copies
  <2>2. api' \cup code' \subseteq api \cup code \cup {e}
    BY <1>2, AppendToBounds
  <2>3. /\ IsFiniteSet(S) /\ Cardinality(S) \in Nat
    BY <1>0, FS_Union, FS_Subset, FS_CardinalityType DEF Copies, Bounded
  <2>4. /\ alerts' = alerts /\ alerts[f] \in Nat /\ added[f] \in Nat
        /\ added'[f] = IF f = g THEN added[f] + 1 ELSE added[f]
    BY <1>0, <1>2, <1>5 DEF TypeOK
  <2>5. alerts[f] + Cardinality(S) <= added[f]
    BY <1>0 DEF CopiesAccounted
  <2>6. CASE f # g
    <3>1. T \subseteq S
      BY <1>1, <2>2, <2>6 DEF Copies
    <3>2. Cardinality(T) <= Cardinality(S) /\ Cardinality(T) \in Nat
      BY <2>3, <3>1, FS_Subset, FS_CardinalityType
    <3> HIDE DEF S, T
    <3> QED
      BY <2>1, <2>3, <2>4, <2>5, <2>6, <3>2
  <2>7. CASE f = g
    <3>1. T \subseteq S \cup {e}
      BY <2>2 DEF Copies
    <3>2. /\ IsFiniteSet(S \cup {e})
          /\ Cardinality(S \cup {e}) \in Nat
          /\ Cardinality(S \cup {e}) <= Cardinality(S) + 1
      <4> HIDE DEF S
      <4>1. /\ IsFiniteSet(S \cup {e})
            /\ Cardinality(S \cup {e}) <= Cardinality(S) + 1
        BY <2>3, OneMore
      <4> QED
        BY <4>1, FS_CardinalityType
    <3>3. Cardinality(T) <= Cardinality(S \cup {e}) /\ Cardinality(T) \in Nat
      BY <3>1, <3>2, FS_Subset, FS_CardinalityType
    <3> HIDE DEF S, T
    <3> QED
      BY <2>1, <2>3, <2>4, <2>5, <2>7, <3>2, <3>3
  <2> QED
    BY <2>6, <2>7
<1> QED
  BY <1>4, <1>5

(* A match is handled: one entry less for each of its findings, and one    *)
(* alert at most.                                                          *)
LEMMA RemovesPair ==
  ASSUME LoopInv, HandleMatch
  PROVE  \E j \in api, k \in code :
           /\ api' = api \ {j} /\ code' = code \ {k} /\ added' = added
           /\ \/ alerts' = alerts
              \/ alerts' = [alerts EXCEPT ![j.finding] = @ + 1,
                                         ![k.finding] = @ + 1]
<1>1. TypeOK /\ Matched
  BY DEF LoopInv, HandleMatch
<1>2. PICK m \in api, p \in code : m = matches[1][1] /\ p = matches[1][2]
  BY <1>1 DEF Matched
<1>3. Head(matches) = matches[1]
  BY DEF HandleMatch
<1>4. /\ api' = Without(api, m.finding) /\ code' = Without(code, p.finding)
      /\ added' = added
      /\ \/ alerts' = alerts
         \/ alerts' = [alerts EXCEPT ![m.finding] = @ + 1, ![p.finding] = @ + 1]
  BY <1>2, <1>3 DEF HandleMatch
<1>5. api \in SUBSET AllEntries /\ code \in SUBSET AllEntries
  BY <1>1 DEF TypeOK, AllEntries, Entries, Findings
<1>6. PICK j \in api : j.finding = m.finding /\ api' = api \ {j}
  BY <1>4, <1>5, WithoutProperty
<1>7. PICK k \in code : k.finding = p.finding /\ code' = code \ {k}
  BY <1>4, <1>5, WithoutProperty
<1> QED
  BY <1>4, <1>6, <1>7

LEMMA CountHandle == CountInv /\ LoopInv' /\ HandleMatch => CountInv'
<1> SUFFICES ASSUME CountInv, LoopInv', HandleMatch PROVE CountInv'
  OBVIOUS
<1>0. TypeOK /\ LoopInv /\ Bounded /\ CopiesAccounted
  BY DEF CountInv, LoopInv
<1>1. PICK j \in api, k \in code :
        /\ api' = api \ {j} /\ code' = code \ {k} /\ added' = added
        /\ \/ alerts' = alerts
           \/ alerts' = [alerts EXCEPT ![j.finding] = @ + 1,
                                      ![k.finding] = @ + 1]
  BY <1>0, RemovesPair
<1>2. CASE alerts' = alerts
  BY <1>1, <1>2, LosesEntries
<1>3. CASE alerts' = [alerts EXCEPT ![j.finding] = @ + 1, ![k.finding] = @ + 1]
  <2>1. Bounded'
    BY <1>0, <1>1, FewerEntries DEF Bounded, BuffersBounded
  <2> SUFFICES ASSUME NEW f \in Findings
               PROVE  alerts'[f] + Cardinality(Copies(f)') <= added'[f]
    BY <2>1 DEF CountInv, CopiesAccounted
  <2> DEFINE S == Copies(f)
             T == {d \in api' \cup code' : d.finding = f}
  <2>2. Copies(f)' = T
    BY DEF Copies
  <2>3. IsFiniteSet(S) /\ Cardinality(S) \in Nat
    BY <1>0, FS_Union, FS_Subset, FS_CardinalityType DEF Copies, Bounded
  <2>4. alerts[f] + Cardinality(S) <= added[f]
    BY <1>0 DEF CopiesAccounted
  <2>5. alerts[f] \in Nat /\ added[f] \in Nat
    BY <1>0 DEF TypeOK
  <2>6. j.finding \in ApiFindings /\ k.finding \in CodeFindings
    BY <1>0 DEF TypeOK, Entries
  <2>7. j.finding # k.finding /\ j # k
    BY <2>6, FindingAssumption
  <2>8. T \subseteq S
    BY <1>1 DEF Copies
  <2>9. CASE f # j.finding /\ f # k.finding
    <3>1. alerts'[f] = alerts[f]
      BY <1>0, <1>3, <2>6, <2>9 DEF TypeOK, Findings
    <3>2. Cardinality(T) <= Cardinality(S) /\ Cardinality(T) \in Nat
      BY <2>3, <2>8, FS_Subset, FS_CardinalityType
    <3> HIDE DEF S, T
    <3> QED
      BY <1>1, <2>2, <2>3, <2>4, <2>5, <3>1, <3>2
  <2>10. ASSUME NEW d \in {j, k}, f = d.finding
         PROVE  alerts'[f] + Cardinality(Copies(f)') <= added'[f]
    <3>1. alerts'[f] = alerts[f] + 1
      BY <1>0, <1>3, <2>6, <2>7, <2>10 DEF TypeOK, Findings
    <3>2. d \in S /\ d \notin T
      <4>1. d \in api \cup code
        OBVIOUS
      <4>2. api \cap code = {}
        BY <1>0, FindingAssumption DEF TypeOK, Entries
      <4> QED
        BY <1>1, <2>10, <4>1, <4>2 DEF Copies
    <3>3. T \subseteq S \ {d}
      BY <2>8, <3>2
    <3>4. /\ IsFiniteSet(S \ {d}) /\ Cardinality(S \ {d}) \in Nat
          /\ Cardinality(S \ {d}) = Cardinality(S) - 1
      BY <2>3, <3>2, FS_RemoveElement, FS_CardinalityType
    <3>5. Cardinality(T) <= Cardinality(S \ {d}) /\ Cardinality(T) \in Nat
      BY <3>3, <3>4, FS_Subset, FS_CardinalityType
    <3> HIDE DEF S, T
    <3> QED
      BY <1>1, <2>2, <2>3, <2>4, <2>5, <3>1, <3>4, <3>5
  <2> QED
    BY <2>9, <2>10
<1> QED
  BY <1>1, <1>2, <1>3

LEMMA CountStep == CountInv /\ [Next]_vars => CountInv'
<1> SUFFICES ASSUME CountInv, [Next]_vars PROVE CountInv'
  OBVIOUS
<1>1. LoopInv /\ LoopInv'
  BY LoopStep DEF CountInv
<1>2. CASE \/ \E f \in Findings : Push(f)
           \/ Tick \/ LosePop \/ PopNothing \/ Evict \/ Scan \/ EndScan \/ EndPass
           \/ Crash \/ UNCHANGED vars
  <2>1. api' \subseteq api /\ code' \subseteq code /\ UNCHANGED <<added, alerts>>
    BY <1>2 DEF Push, Tick, LosePop, PopNothing, Evict, Fresh, Scan, EndScan,
       EndPass, Crash, vars, buffers, history
  <2> QED
    BY <1>1, <2>1, LosesEntries
<1> QED
  BY <1>1, <1>2, CountReceive, CountHandle DEF Next, Loop

(* The inductive invariant of what correlate() counts: CorrelationBuffer.add *)
(* makes one copy, remove_pair takes one of each finding away.              *)
THEOREM CountInvariance == Spec => []CountInv
  BY CountInit, CountStep, PTL DEF Spec

LEMMA CountInvSafe == CountInv => BuffersBounded /\ OneAlertPerCopy
<1> SUFFICES ASSUME CountInv PROVE BuffersBounded /\ OneAlertPerCopy
  OBVIOUS
<1>1. BuffersBounded
  BY DEF CountInv, Bounded
<1>2. ASSUME NEW f \in Findings PROVE alerts[f] <= added[f]
  <2>1. Cardinality(Copies(f)) \in Nat
    BY FS_Union, FS_Subset, FS_CardinalityType DEF Copies, CountInv, Bounded
  <2>2. alerts[f] \in Nat /\ added[f] \in Nat
    BY DEF CountInv, LoopInv, TypeOK
  <2> QED
    BY <2>1, <2>2 DEF CountInv, CopiesAccounted
<1> QED
  BY <1>1, <1>2 DEF OneAlertPerCopy

(* The deques of CorrelationBuffer stay within buffer_max_size. *)
THEOREM BuffersStayBounded == Spec => []BuffersBounded
  BY CountInvSafe, CountInvariance, PTL

(* A finding is part of one alert for each copy that came in, at most,     *)
(* whatever is lost, evicted, repeated or restarted.                       *)
THEOREM AlertedOncePerCopy == Spec => []OneAlertPerCopy
  BY CountInvSafe, CountInvariance, PTL

----------------------------------------------------------------------------
(* A pass is bounded                                                       *)

(* At most so many steps are left until the loop pops again: an iteration  *)
(* for each api entry, the match there may be, and the steps between the   *)
(* parts of a pass.                                                        *)
PassLeft ==
  CASE pc = "match" -> MaxSize + 4
    [] pc = "scan" -> Cardinality(todo) + 3
    [] pc = "handle" -> IF matches = <<>> THEN 1 ELSE 2
    [] OTHER -> 0

PassOK ==
  /\ IsFiniteSet(todo) /\ Cardinality(todo) \in 0..MaxSize
  /\ PassLeft \in 0..(MaxSize + 4)
  /\ pc = "pop" <=> PassLeft = 0

LEMMA PassFacts == CountInv => PassOK
<1> SUFFICES ASSUME CountInv PROVE PassOK
  OBVIOUS
<1>1. IsFiniteSet(todo) /\ Cardinality(todo) <= Cardinality(api)
  BY FS_Subset DEF CountInv, LoopInv, Bounded
<1>2. Cardinality(todo) \in 0..MaxSize
  <2>1. Cardinality(todo) \in Nat /\ Cardinality(api) \in Nat
    BY <1>1, FS_CardinalityType DEF CountInv, Bounded
  <2> QED
    BY <1>1, <2>1, SettingsAssumption DEF CountInv, Bounded, BuffersBounded
<1>3. pc \in {"pop", "match", "scan", "handle"}
  BY DEF CountInv, LoopInv, TypeOK
<1>4. PassLeft \in 0..(MaxSize + 4) /\ (pc = "pop" <=> PassLeft = 0)
  BY <1>2, <1>3, SettingsAssumption DEF PassLeft
<1> QED
  BY <1>1, <1>2, <1>4 DEF PassOK

LEMMA PassFactsNext == CountInv' => PassOK'
  BY PassFacts, PTL

LEMMA PassShrinks ==
  ASSUME CountInv, CountInv', Loop, pc # "pop"
  PROVE  PassLeft' < PassLeft
<1>1. /\ Cardinality(todo) \in 0..MaxSize /\ Cardinality(todo') \in 0..MaxSize
      /\ IsFiniteSet(todo)
  BY PassFacts, PassFactsNext DEF PassOK
<1>2. CASE Evict
  BY <1>1, <1>2, SettingsAssumption DEF Evict, PassLeft
<1>3. CASE Scan
  <2>1. Oldest(todo) \in todo
    <3>1. todo \in SUBSET api /\ todo # {}
      BY <1>3 DEF Scan, CountInv, LoopInv
    <3> QED
      BY <3>1, OldestIn DEF CountInv, LoopInv
  <2>2. Cardinality(todo') = Cardinality(todo) - 1
    BY <1>1, <1>3, <2>1, FS_RemoveElement DEF Scan
  <2> QED
    BY <1>1, <1>3, <2>2 DEF Scan, PassLeft
<1>4. CASE EndScan
  BY <1>1, <1>4 DEF EndScan, PassLeft
<1>5. CASE HandleMatch
  <2>1. matches' = <<>>
    BY <1>5, OnlyMatch DEF CountInv, HandleMatch
  <2> QED
    BY <1>5, <2>1 DEF HandleMatch, PassLeft
<1>6. CASE EndPass
  BY <1>1, <1>6 DEF EndPass, PassLeft
<1> QED
  BY <1>2, <1>3, <1>4, <1>5, <1>6 DEF Loop, Receive, LosePop, PopNothing

LEMMA PassNeverGrows ==
  ASSUME CountInv, CountInv', [Next]_vars, pc # "pop"
  PROVE  PassLeft' <= PassLeft
<1>1. PassLeft \in Int /\ PassLeft > 0
  BY PassFacts, SettingsAssumption DEF PassOK
<1>2. CASE Loop
  <2>1. PassLeft' < PassLeft
    BY <1>2, PassShrinks
  <2>2. PassLeft' \in Int
    BY PassFactsNext, SettingsAssumption DEF PassOK
  <2> QED
    BY <1>1, <2>1, <2>2
<1>3. CASE Crash
  BY <1>1, <1>3 DEF Crash, PassLeft
<1>4. CASE UNCHANGED <<pc, todo, matches>>
  BY <1>1, <1>4 DEF PassLeft
<1>5. ((\E f \in Findings : Push(f)) \/ Tick \/ UNCHANGED vars)
        => UNCHANGED <<pc, todo, matches>>
  BY DEF Push, Tick, vars
<1> QED
  BY <1>2, <1>3, <1>4, <1>5 DEF Next

(* find_matches and the loop over its matches come to an end in a bounded  *)
(* number of iterations, although they change the deques they run over,    *)
(* and the producers push on: every iteration leaves fewer.                *)
THEOREM PassBounded ==
  Spec => /\ [](PassLeft \in 0..(MaxSize + 4) /\ (pc = "pop" <=> PassLeft = 0))
          /\ [][pc # "pop" => /\ Loop => PassLeft' < PassLeft
                              /\ PassLeft' <= PassLeft]_vars
<1>1. CountInv => PassLeft \in 0..(MaxSize + 4) /\ (pc = "pop" <=> PassLeft = 0)
  BY PassFacts DEF PassOK
<1>2. CountInv /\ [Next]_vars /\ CountInv' =>
        [pc # "pop" => /\ Loop => PassLeft' < PassLeft
                       /\ PassLeft' <= PassLeft]_vars
  BY PassShrinks, PassNeverGrows
<1> QED
  BY <1>1, <1>2, CountInvariance, PTL DEF Spec
=============================================================================
