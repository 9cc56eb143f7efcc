------------------------- MODULE CodeWatcherProofs -------------------------
(***************************************************************************)
(* Theorems about CodeWatcher, for any files, contents and table size and  *)
(* any set of faults: the table of hashes hides no content that nobody     *)
(* scanned.                                                                *)
(***************************************************************************)
EXTENDS CodeWatcher, SequenceTheorems, FiniteSetTheorems, TLAPS

Entries == [file : Files, version : Versions]

(* The table is a dictionary: a file has one hash at most. *)
OneHash ==
  \A m, n \in 1..Len(hashes) : hashes[m].file = hashes[n].file => m = n

(* The content with this hash is being scanned, or about to be. *)
InScan(f, v) ==
  /\ job # Idle /\ job.file = f
  /\ job.step \in {"announce", "read"} \/ (job.step = "emit" /\ job.version = v)

(* NoChangeForgotten for every hash on record, whatever is on disk: while  *)
(* a file is hashed again the old hash is still accounted for.             *)
HashIsScanned ==
  \A f \in Files : \A v \in Recorded(f) :
    v \in scanned[f] \cup missed[f] \/ InScan(f, v) \/ broken \/ main \in Halted

WatchInv == TypeOK /\ OneHash /\ HashIsScanned

----------------------------------------------------------------------------
(* _has_changed: what the table holds after a hash is put into it. *)

LEMMA OthersProperty ==
  ASSUME TypeOK, OneHash, NEW f \in Files
  PROVE  /\ Others(f) \in Seq(Entries)
         /\ Len(Others(f)) <= Len(hashes)
         /\ \A n \in 1..Len(Others(f)) :
              /\ Others(f)[n].file # f
              /\ \E m \in 1..Len(hashes) : Others(f)[n] = hashes[m]
         /\ \A m, n \in 1..Len(Others(f)) :
              Others(f)[m].file = Others(f)[n].file => m = n
<1>0. hashes \in Seq(Entries) /\ Len(hashes) \in Nat
  BY DEF TypeOK, Entries
<1>1. CASE Recorded(f) = {}
  <2>1. Others(f) = hashes
    BY <1>1 DEF Others
  <2>2. \A n \in 1..Len(hashes) : hashes[n].file # f
    BY <1>1 DEF Recorded
  <2> QED
    BY <1>0, <2>1, <2>2 DEF OneHash
<1>2. CASE Recorded(f) # {}
  <2>1. \E n \in 1..Len(hashes) : hashes[n].file = f
    BY <1>2 DEF Recorded
  <2> DEFINE p == CHOOSE n \in 1..Len(hashes) : hashes[n].file = f
  <2>2. p \in 1..Len(hashes) /\ hashes[p].file = f
    BY <2>1
  <2> DEFINE s == [n \in 1..(Len(hashes) - 1) |->
                     hashes[IF n < p THEN n ELSE n + 1]]
  <2>3. Others(f) = s
    BY <1>2 DEF Others
  <2> HIDE DEF p
  <2>4. \A n \in 1..(Len(hashes) - 1) :
          /\ (IF n < p THEN n ELSE n + 1) \in 1..Len(hashes)
          /\ (IF n < p THEN n ELSE n + 1) # p
    BY <1>0, <2>2
  <2>5. Len(hashes) - 1 \in Nat
    BY <1>0, <2>2
  <2>6. \A n \in 1..(Len(hashes) - 1) : s[n] \in Entries
    BY <1>0, <2>4, ElementOfSeq
  <2>7. s \in [1..(Len(hashes) - 1) -> Entries]
    BY <2>6
  <2>8. s \in Seq(Entries) /\ Len(s) = Len(hashes) - 1
    BY <2>5, <2>7, SeqDef
  <2>9. \A n \in 1..Len(s) :
          s[n].file # f /\ \E m \in 1..Len(hashes) : s[n] = hashes[m]
    BY <2>2, <2>4, <2>8 DEF OneHash
  <2>10. ASSUME NEW m \in 1..Len(s), NEW n \in 1..Len(s), s[m].file = s[n].file
         PROVE  m = n
    <3>1. (IF m < p THEN m ELSE m + 1) = (IF n < p THEN n ELSE n + 1)
      BY <2>4, <2>8, <2>10 DEF OneHash
    <3> QED
      BY <1>0, <2>2, <2>8, <3>1
  <2> HIDE DEF s
  <2> QED
    BY <1>0, <2>3, <2>8, <2>9, <2>10
<1> QED
  BY <1>1, <1>2

LEMMA RememberProperty ==
  ASSUME TypeOK, OneHash, NEW f \in Files, NEW v \in Versions,
         NEW s, s = Remember(f, v)
  PROVE  /\ s \in Seq(Entries) /\ Len(s) <= MaxTracked
         /\ \A n \in 1..Len(s) :
              \/ s[n] = [file |-> f, version |-> v]
              \/ /\ s[n].file # f
                 /\ \E m \in 1..Len(hashes) : s[n] = hashes[m]
         /\ \A m, n \in 1..Len(s) : s[m].file = s[n].file => m = n
<1> DEFINE e == [file |-> f, version |-> v]
<1>1. PICK o : o = Others(f)
  OBVIOUS
<1>2. /\ o \in Seq(Entries) /\ Len(o) <= MaxTracked /\ Len(o) \in Nat
      /\ \A n \in 1..Len(o) :
           o[n].file # f /\ \E m \in 1..Len(hashes) : o[n] = hashes[m]
      /\ \A m, n \in 1..Len(o) : o[m].file = o[n].file => m = n
  BY <1>1, OthersProperty, BoundAssumption DEF TypeOK
<1>3. e \in Entries /\ e.file = f
  BY DEF Entries
<1> HIDE DEF e
<1>4. PICK a : a = Append(o, e)
  OBVIOUS
<1>5. /\ a \in Seq(Entries) /\ Len(a) = Len(o) + 1 /\ a[Len(a)] = e
      /\ \A n \in 1..Len(o) : a[n] = o[n]
  BY <1>2, <1>3, <1>4, AppendProperties
<1>6. \A n \in 1..Len(a) :
        \/ n = Len(a) /\ a[n] = e
        \/ n \in 1..Len(o) /\ a[n] = o[n]
  BY <1>2, <1>5
<1>7. /\ \A n \in 1..Len(a) :
           \/ a[n] = e
           \/ a[n].file # f /\ \E m \in 1..Len(hashes) : a[n] = hashes[m]
      /\ \A m, n \in 1..Len(a) : a[m].file = a[n].file => m = n
  BY <1>2, <1>3, <1>6
<1>8. s = IF Len(a) > MaxTracked THEN Tail(a) ELSE a
  BY <1>1, <1>4 DEF Remember, e
<1>9. CASE Len(a) > MaxTracked
  <2>1. /\ s \in Seq(Entries) /\ Len(s) = Len(a) - 1
        /\ \A n \in 1..Len(s) : s[n] = a[n + 1]
    <3>1. a # <<>>
      BY <1>2, <1>5, EmptySeq
    <3> QED
      BY <1>5, <1>8, <1>9, <3>1, HeadTailProperties
  <2>2. \A n \in 1..Len(s) : n + 1 \in 1..Len(a)
    BY <1>2, <1>5, <2>1
  <2>3. Len(s) <= MaxTracked
    BY <1>2, <1>5, <2>1
  <2>4. \A m, n \in 1..Len(s) : s[m].file = s[n].file => m = n
    <3> SUFFICES ASSUME NEW m \in 1..Len(s), NEW n \in 1..Len(s),
                        s[m].file = s[n].file
                 PROVE  m = n
      OBVIOUS
    <3>1. m + 1 = n + 1
      BY <1>7, <2>1, <2>2
    <3> QED
      BY <3>1
  <2> QED
    BY <1>7, <2>1, <2>2, <2>3, <2>4 DEF e
<1>10. CASE ~(Len(a) > MaxTracked)
  BY <1>2, <1>5, <1>7, <1>8, <1>10, BoundAssumption DEF e
<1> QED
  BY <1>9, <1>10

(* The hash of f is the one that was put in, the others are as they were.  *)
LEMMA RememberRecords ==
  ASSUME TypeOK, OneHash, NEW f \in Files, NEW v \in Versions,
         hashes' = Remember(f, v)
  PROVE  /\ hashes' \in Seq(Entries) /\ Len(hashes') <= MaxTracked
         /\ OneHash'
         /\ Recorded(f)' \subseteq {v}
         /\ \A g \in Files \ {f} : Recorded(g)' \subseteq Recorded(g)
<1>1. PICK s : s = hashes'
  OBVIOUS
<1>2. /\ s \in Seq(Entries) /\ Len(s) <= MaxTracked
      /\ \A n \in 1..Len(s) :
           \/ s[n] = [file |-> f, version |-> v]
           \/ /\ s[n].file # f
              /\ \E m \in 1..Len(hashes) : s[n] = hashes[m]
      /\ \A m, n \in 1..Len(s) : s[m].file = s[n].file => m = n
  BY <1>1, RememberProperty
<1>3. \A g : Recorded(g)' =
               {s[i].version : i \in {n \in 1..Len(s) : s[n].file = g}}
  BY <1>1 DEF Recorded
<1>4. Recorded(f)' \subseteq {v}
  BY <1>2, <1>3
<1>5. ASSUME NEW g \in Files \ {f} PROVE Recorded(g)' \subseteq Recorded(g)
  <2> SUFFICES ASSUME NEW w \in Recorded(g)' PROVE w \in Recorded(g)
    OBVIOUS
  <2>1. PICK n \in 1..Len(s) : s[n].file = g /\ w = s[n].version
    BY <1>3
  <2>2. s[n] # [file |-> f, version |-> v]
    BY <2>1
  <2>3. PICK m \in 1..Len(hashes) : s[n] = hashes[m]
    BY <1>2, <2>2
  <2> QED
    BY <2>1, <2>3 DEF Recorded
<1> QED
  BY <1>1, <1>2, <1>4, <1>5 DEF OneHash

LEMMA RecordedType ==
  ASSUME TypeOK, NEW f
  PROVE  Recorded(f) \subseteq Versions
<1>1. hashes \in Seq(Entries)
  BY DEF TypeOK, Entries
<1>2. \A n \in 1..Len(hashes) : hashes[n] \in Entries
  BY <1>1, ElementOfSeq
<1>3. \A n \in 1..Len(hashes) : hashes[n].version \in Versions
  BY <1>2 DEF Entries
<1> QED
  BY <1>3 DEF Recorded

----------------------------------------------------------------------------
(* The job of the moment. *)

LEMMA JobType ==
  ASSUME TypeOK, job # Idle
  PROVE  job \in Jobs /\ job.file \in Files
  BY DEF TypeOK, Jobs

LEMMA StepType ==
  ASSUME TypeOK, NEW s \in {"hash", "announce", "read", "emit"}, At(s)
  PROVE  job # Idle /\ job \in Jobs /\ job.file \in Files
<1>1. job # Idle
  BY DEF At, Idle
<1> QED
  BY <1>1, JobType

LEMMA GoToType ==
  ASSUME TypeOK, job \in Jobs, NEW s \in {"announce", "read"}, GoTo(s)
  PROVE  /\ job' \in Jobs /\ job' # Idle
         /\ job'.step = s /\ job'.file = job.file
<1> DEFINE k == [job EXCEPT !.step = s]
           c == {content[job.file]}
<1>1. k \in Jobs /\ k.step = s /\ k.file = job.file
  BY DEF Jobs
<1>2. c \in SUBSET (Versions \cup {Absent})
  BY DEF TypeOK, Jobs
<1>3. job' = [k EXCEPT !.seen = c]
  BY DEF GoTo
<1> HIDE DEF k, c
<1>4. job' \in Jobs /\ job'.step = s /\ job'.file = job.file
  BY <1>1, <1>2, <1>3 DEF Jobs
<1> QED
  BY <1>4 DEF Idle, Jobs

(* The step begins with the file as it is. *)
LEMMA GoToSeen ==
  ASSUME TypeOK, job \in Jobs, NEW s \in {"announce", "read"}, GoTo(s)
  PROVE  /\ job' \in Jobs /\ job'.step = s /\ job'.file = job.file
         /\ job'.seen = {content[job.file]}
<1> DEFINE k == [job EXCEPT !.step = s]
           c == {content[job.file]}
<1>1. k \in Jobs
  BY DEF Jobs
<1>2. job' = [k EXCEPT !.seen = c]
  BY DEF GoTo
<1> HIDE DEF k, c
<1>3. job'.seen = c
  BY <1>1, <1>2 DEF Jobs
<1> QED
  BY <1>3, GoToType DEF c

LEMMA BeginType ==
  ASSUME TypeOK, NEW f \in Files, NEW b \in {"walk", "created", "modified"},
         Begin(f, b)
  PROVE  job' \in Jobs
  BY DEF TypeOK, Begin, Jobs

(* What a read of the file gives. *)
LEMMA SnapshotType ==
  ASSUME job \in Jobs, NEW v \in Snapshots
  PROVE  v \in Versions \cup {Unreadable}
  BY DEF Snapshots, Jobs

----------------------------------------------------------------------------
(* Each action keeps the invariant. *)

(* The table and the history stay as they are. *)
LEMMA SameTable ==
  ASSUME WatchInv, TypeOK', UNCHANGED hashes,
         \A f \in Files : /\ scanned[f] \subseteq scanned'[f]
                          /\ missed[f] \subseteq missed'[f],
         \A f \in Files, v \in Versions : v \in Recorded(f) /\ InScan(f, v) =>
           \/ v \in scanned'[f] \cup missed'[f] \/ InScan(f, v)'
           \/ broken' \/ main' \in Halted,
         broken => broken', main \in Halted => main' \in Halted
  PROVE  WatchInv'
<1>1. OneHash'
  BY DEF WatchInv, OneHash
<1>2. \A f \in Files : Recorded(f)' = Recorded(f)
  BY DEF Recorded
<1>3. \A f \in Files : Recorded(f) \subseteq Versions
  BY RecordedType DEF WatchInv
<1>4. HashIsScanned'
  <2> SUFFICES ASSUME NEW f \in Files, NEW v \in Recorded(f)
               PROVE  \/ v \in scanned'[f] \cup missed'[f] \/ InScan(f, v)'
                      \/ broken' \/ main' \in Halted
    BY <1>2 DEF HashIsScanned
  <2>1. \/ v \in scanned[f] \cup missed[f] \/ InScan(f, v)
        \/ broken \/ main \in Halted
    BY DEF WatchInv, HashIsScanned
  <2>2. v \in Versions
    BY <1>3
  <2> QED
    BY <2>1, <2>2
<1> QED
  BY <1>1, <1>4 DEF WatchInv

LEMMA ChangeStep ==
  ASSUME WatchInv, NEW f \in Files, NEW w \in Versions \cup {Absent}, Change(f, w),
         events' \in Seq([file : Files, created : BOOLEAN])
  PROVE  WatchInv'
<1>1. TypeOK /\ edits' \in 0..MaxEdits
  BY BoundAssumption DEF WatchInv, TypeOK, Change
<1>2. /\ job' \in {Idle} \cup Jobs
      /\ \A g \in Files, v \in Versions : InScan(g, v) => InScan(g, v)'
  <2>1. CASE job.step \in {"hash", "read"} /\ job.file = f
    <3>1. job # Idle
      BY <2>1 DEF Idle
    <3>2. job \in Jobs
      BY <1>1, <3>1, JobType
    <3> DEFINE c == job.seen \cup {w}
    <3>3. c \in SUBSET (Versions \cup {Absent})
      BY <3>2 DEF Jobs
    <3>4. job' = [job EXCEPT !.seen = c]
      BY <2>1 DEF Change
    <3> HIDE DEF c
    <3>5. /\ job' \in Jobs /\ job'.step = job.step /\ job'.file = job.file
          /\ job'.version = job.version
      BY <3>2, <3>3, <3>4 DEF Jobs
    <3>6. job' # Idle
      BY <3>5 DEF Idle, Jobs
    <3> QED
      BY <2>1, <3>5, <3>6 DEF InScan
  <2>2. CASE ~(job.step \in {"hash", "read"} /\ job.file = f)
    <3>1. job' = job
      BY <2>2 DEF Change
    <3> QED
      BY <1>1, <3>1 DEF InScan, TypeOK
  <2> QED
    BY <2>1, <2>2
<1>3. /\ content' \in [Files -> Versions \cup {Absent}]
      /\ newest' \in [Files -> Versions \cup {Absent}]
  BY <1>1 DEF TypeOK, Change
<1>4. TypeOK'
  BY <1>1, <1>2, <1>3 DEF TypeOK, Change, table, loop, given
<1> QED
  BY <1>2, <1>4, SameTable DEF Change, table, loop, given

LEMMA HashStep ==
  ASSUME WatchInv, Hash
  PROVE  WatchInv'
<1>0. /\ TypeOK /\ OneHash /\ HashIsScanned
      /\ job # Idle /\ job \in Jobs /\ job.step = "hash"
  BY StepType DEF WatchInv, Hash, At
<1>1. PICK f \in Files : f = job.file
  BY <1>0 DEF Jobs
<1>2. PICK v \in Snapshots :
        /\ hashes' = IF v = Unreadable THEN hashes ELSE Remember(f, v)
        /\ LET changed == v # Unreadable /\ ~Tracked(f, v)
           IN  \/ job.by = "modified" /\ changed /\ GoTo("announce")
               \/ job.by = "created" /\ GoTo("read")
               \/ job.by = "walk" /\ (changed \/ full) /\ GoTo("read")
               \/ /\ ~changed
                  /\ job.by = "modified" \/ (job.by = "walk" /\ ~full)
                  /\ job' = Idle
  BY <1>1 DEF Hash
<1>3. /\ UNCHANGED <<content, newest, edits, events, scanned, missed, mode, faults,
                     main, left, full, broken, alive>>
  BY DEF Hash, disk, loop, given
<1>4. v \in Versions \cup {Unreadable}
  BY <1>0, SnapshotType
<1>5. \A g \in Files : missed[g] \subseteq missed'[g]
  BY <1>3
<1>6. \/ GoTo("announce") \/ GoTo("read")
      \/ job' = Idle /\ (v = Unreadable \/ v \in Recorded(f))
  BY <1>2 DEF Tracked
<1>7. \/ /\ job' \in Jobs /\ job' # Idle /\ job'.file = f
         /\ job'.step \in {"announce", "read"}
      \/ job' = Idle /\ (v = Unreadable \/ v \in Recorded(f))
  BY <1>0, <1>1, <1>6, GoToType
<1>8. \A g \in Files : \A w : ~InScan(g, w)
  BY <1>0 DEF InScan
<1>9. CASE v = Unreadable
  <2>1. TypeOK'
    BY <1>0, <1>2, <1>3, <1>5, <1>7, <1>9 DEF TypeOK
  <2> QED
    BY <1>2, <1>3, <1>5, <1>8, <1>9, <2>1, SameTable
<1>10. CASE v # Unreadable
  <2>1. /\ v \in Versions /\ hashes' = Remember(f, v)
    BY <1>2, <1>4, <1>10
  <2>2. /\ hashes' \in Seq(Entries) /\ Len(hashes') <= MaxTracked
        /\ OneHash'
        /\ Recorded(f)' \subseteq {v}
        /\ \A g \in Files \ {f} : Recorded(g)' \subseteq Recorded(g)
    BY <1>0, <2>1, RememberRecords
  <2>3. TypeOK'
    BY <1>0, <1>3, <1>5, <1>7, <2>2 DEF TypeOK, Entries
  <2>4. \A g \in Files : \A w \in Recorded(g) :
          w \in scanned[g] \cup missed[g] \/ broken \/ main \in Halted
    BY <1>0, <1>8 DEF HashIsScanned
  <2>5. HashIsScanned'
    <3> SUFFICES ASSUME NEW g \in Files, NEW w \in Recorded(g)'
                 PROVE  \/ w \in scanned'[g] \cup missed'[g] \/ InScan(g, w)'
                        \/ broken' \/ main' \in Halted
      BY DEF HashIsScanned
    <3>1. CASE g # f
      <4>1. w \in Recorded(g)
        BY <2>2, <3>1
      <4> QED
        BY <1>3, <1>5, <2>4, <4>1
    <3>2. CASE g = f
      <4>1. w = v
        BY <2>2, <3>2
      <4>2. CASE /\ job' # Idle /\ job'.file = f
                 /\ job'.step \in {"announce", "read"}
        BY <3>2, <4>2 DEF InScan
      <4>3. CASE v \in Recorded(f)
        BY <1>3, <1>5, <2>4, <3>2, <4>1, <4>3
      <4> QED
        BY <1>7, <1>10, <4>2, <4>3
    <3> QED
      BY <3>1, <3>2
  <2> QED
    BY <1>8, <2>2, <2>3, <2>5 DEF WatchInv
<1> QED
  BY <1>9, <1>10

LEMMA AnnounceStep ==
  ASSUME WatchInv, Announce
  PROVE  WatchInv'
<1>0. TypeOK /\ job \in Jobs /\ job.step = "announce"
  BY StepType DEF WatchInv, Announce, At
<1>1. UNCHANGED <<disk, events, table, loop>> /\ GoTo("read")
  BY DEF Announce
<1>2. /\ job' \in Jobs /\ job' # Idle
      /\ job'.step = "read" /\ job'.file = job.file
  BY <1>0, <1>1, GoToType
<1>3. TypeOK'
  BY <1>0, <1>1, <1>2 DEF TypeOK, disk, table, loop, given
<1> QED
  BY <1>0, <1>1, <1>2, <1>3, SameTable DEF InScan, table, loop, given

LEMMA ReadStep ==
  ASSUME WatchInv, Read
  PROVE  WatchInv'
<1>0. TypeOK /\ job # Idle /\ job \in Jobs /\ job.step = "read"
  BY StepType DEF WatchInv, Read, At
<1>1. PICK f \in Files : f = job.file
  BY <1>0 DEF Jobs
<1>2. PICK v \in Snapshots : \E x \in Results(v) :
        /\ job' = IF v = Unreadable THEN Idle
                  ELSE [job EXCEPT !.step = "emit", !.seen = {}, !.version = x]
        /\ missed' = [missed EXCEPT ![f] = @ \cup (Recorded(f) \ {x})]
  BY <1>1 DEF Read
<1>3. PICK x \in Results(v) :
        /\ job' = IF v = Unreadable THEN Idle
                  ELSE [job EXCEPT !.step = "emit", !.seen = {}, !.version = x]
        /\ missed' = [missed EXCEPT ![f] = @ \cup (Recorded(f) \ {x})]
  BY <1>2
<1>4. UNCHANGED <<content, newest, edits, events, hashes, scanned, mode, faults,
                  main, left, full, broken, alive>>
  BY DEF Read, disk, loop, given
<1>5. /\ v = Unreadable => x \notin Versions
      /\ v # Unreadable => x \in Versions \cup {Absent}
  BY <1>0, <1>3, SnapshotType DEF Results, Versions, Unreadable, Absent
<1>6. Recorded(f) \subseteq Versions
  BY <1>0, RecordedType
<1>7. /\ missed' \in [Files -> SUBSET Versions]
      /\ Recorded(f) \ {x} \subseteq missed'[f]
      /\ \A g \in Files : missed[g] \subseteq missed'[g]
  BY <1>0, <1>1, <1>3, <1>6 DEF TypeOK
<1>8. \/ job' = Idle /\ v = Unreadable
      \/ /\ job' \in Jobs /\ job' # Idle /\ v # Unreadable
         /\ job'.step = "emit" /\ job'.file = f /\ job'.version = x
  <2>1. CASE v = Unreadable
    BY <1>3, <2>1
  <2>2. CASE v # Unreadable
    <3> DEFINE k == [job EXCEPT !.step = "emit"]
               l == [k EXCEPT !.seen = {}]
    <3>1. k \in Jobs /\ k.step = "emit" /\ k.file = f
      BY <1>0, <1>1 DEF Jobs
    <3>2. job' = [l EXCEPT !.version = x]
      BY <1>3, <2>2
    <3> HIDE DEF k
    <3>3. l \in Jobs /\ l.step = "emit" /\ l.file = f
      BY <3>1 DEF Jobs
    <3> HIDE DEF l
    <3>4. /\ job' \in Jobs /\ job'.step = "emit" /\ job'.file = f
          /\ job'.version = x
      BY <1>5, <2>2, <3>2, <3>3 DEF Jobs
    <3>5. job' # Idle
      BY <3>4 DEF Idle, Jobs
    <3> QED
      BY <2>2, <3>4, <3>5
  <2> QED
    BY <2>1, <2>2
<1>9. TypeOK'
  BY <1>0, <1>4, <1>7, <1>8 DEF TypeOK
<1>10. ASSUME NEW g \in Files, NEW w \in Versions, w \in Recorded(g), InScan(g, w)
      PROVE  w \in missed'[g] \/ InScan(g, w)'
  <2>1. g = f
    BY <1>1, <1>10 DEF InScan
  <2>2. CASE w # x
    BY <1>7, <1>10, <2>1, <2>2
  <2>3. CASE w = x
    BY <1>5, <1>8, <1>10, <2>1, <2>3 DEF InScan
  <2> QED
    BY <2>2, <2>3
<1> QED
  BY <1>4, <1>7, <1>9, <1>10, SameTable

LEMMA EmitStep ==
  ASSUME WatchInv, Emit
  PROVE  WatchInv'
<1>0. TypeOK /\ job \in Jobs /\ job.file \in Files /\ job.step = "emit"
  BY StepType DEF WatchInv, Emit, At
<1>1. /\ UNCHANGED <<content, newest, edits, events, hashes, missed, mode, faults,
                     main, left, full, broken, alive>>
      /\ scanned' = [scanned EXCEPT ![job.file] = @ \cup ({job.version} \ {Absent})]
      /\ job' = Idle
  BY DEF Emit, disk, loop, given
<1>2. /\ job.version \in Versions \cup {Absent}
      /\ \A v \in Versions : v # Absent
  BY <1>0 DEF Jobs, Versions, Absent
<1>3. /\ scanned' \in [Files -> SUBSET Versions]
      /\ job.version # Absent => job.version \in scanned'[job.file]
      /\ \A f \in Files : scanned[f] \subseteq scanned'[f]
  BY <1>0, <1>1, <1>2 DEF TypeOK
<1>4. TypeOK'
  BY <1>0, <1>1, <1>3 DEF TypeOK
<1>5. \A f \in Files, v \in Versions : InScan(f, v) => v \in scanned'[f]
  BY <1>0, <1>2, <1>3 DEF InScan
<1> QED
  BY <1>1, <1>3, <1>4, <1>5, SameTable

LEMMA EmitFailsStep ==
  ASSUME WatchInv, EmitFails
  PROVE  WatchInv'
<1>0. TypeOK
  BY DEF WatchInv
<1>1. /\ UNCHANGED <<content, newest, edits, events, hashes, scanned, missed,
                     mode, faults, left, full, alive>>
      /\ job' = Idle
      /\ main' = "failed" \/ (main' = main /\ broken' = TRUE)
      /\ broken' \in BOOLEAN /\ (broken => broken')
  BY <1>0 DEF EmitFails, disk, table, given, TypeOK
<1>2. TypeOK'
  BY <1>0, <1>1 DEF TypeOK, Halted
<1>3. broken' \/ main' \in Halted
  BY <1>1 DEF Halted
<1> QED
  BY <1>1, <1>2, <1>3, SameTable DEF Halted

(* The steps of the walk, of the observer and of watch(). *)
LEMMA LoopStep ==
  ASSUME WatchInv,
         \/ \E f \in Files : Visit(f)
         \/ EndWalk \/ NextWalk \/ Dispatch \/ ObserverDies \/ RaiseIfFailed
         \/ Stop \/ UNCHANGED vars
  PROVE  WatchInv'
<1>0. TypeOK
  BY DEF WatchInv
<1>1. UNCHANGED <<content, newest, edits, hashes, scanned, missed, mode,
                  faults, broken>>
  BY DEF Visit, EndWalk, NextWalk, Dispatch, ObserverDies, RaiseIfFailed, Stop,
     Halt, vars, disk, table, loop, given
<1>2. /\ main \in Halted => main' \in Halted
      /\ main' \in {"walk", "observe", "sleep"} \cup Halted
      /\ left' \subseteq Files /\ full' \in BOOLEAN /\ alive' \in BOOLEAN
  BY <1>0 DEF Visit, EndWalk, NextWalk, Dispatch, ObserverDies, RaiseIfFailed,
     Stop, Halt, vars, disk, table, loop, given, TypeOK, Halted
<1>3. \/ UNCHANGED job
      \/ job = Idle /\ job' \in Jobs /\ job'.step = "hash"
  <2>1. ASSUME NEW f \in Files, Visit(f)
        PROVE  UNCHANGED job \/ (job = Idle /\ Begin(f, "walk"))
    BY <2>1 DEF Visit
  <2>2. ASSUME Dispatch
        PROVE  /\ job = Idle /\ Head(events).file \in Files
               /\ \/ Begin(Head(events).file, "created")
                  \/ Begin(Head(events).file, "modified")
    <3>1. Head(events) \in [file : Files, created : BOOLEAN]
      BY <1>0, <2>2, HeadTailProperties DEF TypeOK, Dispatch
    <3> QED
      BY <2>2, <3>1 DEF Dispatch
  <2>3. ASSUME NEW f \in Files, NEW b \in {"walk", "created", "modified"},
               Begin(f, b)
        PROVE  job' \in Jobs /\ job'.step = "hash"
    BY <1>0, <2>3, BeginType DEF Begin
  <2>4. CASE \E f \in Files : Visit(f)
    BY <2>1, <2>3, <2>4
  <2>5. CASE Dispatch
    BY <2>2, <2>3, <2>5
  <2>6. CASE \/ EndWalk \/ NextWalk \/ ObserverDies \/ RaiseIfFailed
             \/ Stop \/ UNCHANGED vars
    BY <2>6 DEF EndWalk, NextWalk, ObserverDies, RaiseIfFailed, Stop, Halt, vars
  <2> QED
    BY <2>4, <2>5, <2>6
<1>4. events' \in Seq([file : Files, created : BOOLEAN])
  <2>1. CASE Dispatch
    BY <1>0, <2>1, HeadTailProperties DEF Dispatch, TypeOK
  <2>2. CASE ~Dispatch
    <3>1. events' = events
      BY <2>2 DEF Visit, EndWalk, NextWalk, ObserverDies, RaiseIfFailed, Stop,
         Halt, vars
    <3> QED
      BY <1>0, <3>1 DEF TypeOK
  <2> QED
    BY <2>1, <2>2
<1>5. TypeOK'
  BY <1>0, <1>1, <1>2, <1>3, <1>4 DEF TypeOK
<1>6. \A f \in Files, v \in Versions : InScan(f, v) => InScan(f, v)'
  BY <1>3 DEF InScan
<1> QED
  BY <1>1, <1>2, <1>5, <1>6, SameTable

LEMMA WatchInit == Init => WatchInv
<1> SUFFICES ASSUME Init PROVE WatchInv
  OBVIOUS
<1>1. hashes = <<>> /\ Len(hashes) = 0
  BY DEF Init
<1>2. TypeOK
  <2>1. 1 \in Versions
    BY BoundAssumption DEF Versions
  <2>2. /\ content \in [Files -> Versions \cup {Absent}]
        /\ newest \in [Files -> Versions \cup {Absent}]
        /\ edits \in 0..MaxEdits /\ Len(hashes) <= MaxTracked
    BY <1>1, <2>1, BoundAssumption DEF Init
  <2>3. /\ full \in BOOLEAN /\ main \in {"walk", "observe", "sleep"}
        /\ left \subseteq Files
    BY ModeAssumption DEF Init
  <2>4. /\ events \in Seq([file : Files, created : BOOLEAN])
        /\ hashes \in Seq([file : Files, version : Versions])
    BY EmptySeq DEF Init
  <2>5. /\ scanned \in [Files -> SUBSET Versions]
        /\ missed \in [Files -> SUBSET Versions]
    BY DEF Init
  <2>6. /\ mode \in Modes /\ faults \in FaultSets /\ job = Idle
        /\ broken = FALSE /\ alive = TRUE
    BY DEF Init
  <2> QED
    BY <2>2, <2>3, <2>4, <2>5, <2>6 DEF TypeOK
<1>3. \A f : Recorded(f) = {}
  BY <1>1 DEF Recorded
<1>4. OneHash
  BY <1>1 DEF OneHash
<1> QED
  BY <1>2, <1>3, <1>4 DEF WatchInv, HashIsScanned

LEMMA WatchStep == WatchInv /\ [Next]_vars => WatchInv'
<1> SUFFICES ASSUME WatchInv, [Next]_vars PROVE WatchInv'
  OBVIOUS
<1>1. ASSUME NEW f \in Files, Edit(f) PROVE WatchInv'
  <2>1. PICK v \in Versions : Change(f, v)
    BY <1>1 DEF Edit, NewContents
  <2>2. PICK e \in [file : Files, created : BOOLEAN] :
          events' = events \/ events' = Append(events, e)
    <3>1. [file |-> f, created |-> content[f] = Absent]
            \in [file : Files, created : BOOLEAN]
      OBVIOUS
    <3> QED
      BY <1>1, <3>1 DEF Edit
  <2>3. events' \in Seq([file : Files, created : BOOLEAN])
    <3>1. events \in Seq([file : Files, created : BOOLEAN])
      BY DEF WatchInv, TypeOK
    <3>2. PICK E : E = [file : Files, created : BOOLEAN]
      OBVIOUS
    <3>3. Append(events, e) \in Seq(E)
      BY <3>1, <3>2, AppendProperties
    <3> QED
      BY <2>2, <3>1, <3>2, <3>3
  <2> QED
    BY <2>1, <2>3, ChangeStep
<1>2. ASSUME NEW f \in Files, Delete(f) PROVE WatchInv'
  BY <1>2, ChangeStep DEF Delete, WatchInv, TypeOK
<1>3. ASSUME NEW f \in Files, Replace(f) PROVE WatchInv'
  <2>1. PICK v \in Versions : Change(f, v)
    BY <1>3 DEF Replace, NewContents
  <2> QED
    BY <1>3, <2>1, ChangeStep DEF Replace, WatchInv, TypeOK
<1> QED
  BY <1>1, <1>2, <1>3, HashStep, AnnounceStep, ReadStep, EmitStep, EmitFailsStep,
     LoopStep DEF Next, Work, Rest

----------------------------------------------------------------------------
(* Without a losing fault nothing is lost. *)

(* A file holds, and has held, only the versions up to the newest.         *)
UpToNewest ==
  \A f \in Files :
    /\ \A v \in {content[f]} \cup Recorded(f) \cup missed[f] : v <= newest[f]
    /\ job # Idle /\ job.file = f => \A v \in job.seen : v <= newest[f]

(* What is on disk is not lost, and will not be: a scan that finds it      *)
(* under its hash finds nothing else in the file.                          *)
NothingLost ==
  Lossless =>
    \A f \in Files :
      /\ content[f] \notin missed[f]
      /\ At("read") /\ job.file = f /\ content[f] \in Recorded(f)
           => job.seen = {content[f]}

LossInv == UpToNewest /\ NothingLost

(* The table and what is missed stay as they are; a scan begins with the   *)
(* file as it is.                                                          *)
LEMMA SameFiles ==
  ASSUME WatchInv, LossInv, UNCHANGED <<content, newest, hashes, missed, faults>>,
         \/ UNCHANGED job
         \/ job' = Idle \/ At("emit")'
         \/ /\ job' \in Jobs /\ job'.step \in {"hash", "announce", "read"}
            /\ job'.seen = {content[job'.file]},
         At("emit")' => UNCHANGED job \/ job'.seen = {}
  PROVE  LossInv'
<1>1. \A f : Recorded(f)' = Recorded(f)
  BY DEF Recorded
<1>2. ASSUME NEW f \in Files, job' # Idle, job'.file = f
      PROVE  \A v \in job'.seen : v <= newest[f]
  BY <1>2 DEF LossInv, UpToNewest
<1>3. UpToNewest'
  BY <1>1, <1>2 DEF LossInv, UpToNewest
<1>4. ASSUME NEW f \in Files, At("read")', job'.file = f, content[f] \in Recorded(f),
             Lossless
      PROVE  job'.seen = {content[f]}
  BY <1>4 DEF LossInv, NothingLost, At, Idle
<1>5. NothingLost'
  BY <1>1, <1>4 DEF LossInv, NothingLost, Lossless
<1> QED
  BY <1>3, <1>5 DEF LossInv

(* A change makes the content the newest version, unless it restores one   *)
(* or deletes the file.                                                    *)
LEMMA ChangeLoses ==
  ASSUME WatchInv, LossInv, NEW f \in Files, NEW w \in NewContents(f) \cup {Absent},
         Change(f, w)
  PROVE  LossInv'
<1>0. TypeOK /\ w \in Versions \cup {Absent}
  BY DEF WatchInv, NewContents
<1>1. /\ UNCHANGED <<hashes, missed>>
      /\ \A g \in Files \ {f} : content'[g] = content[g] /\ newest'[g] = newest[g]
      /\ content'[f] = w
      /\ newest'[f] = IF w > newest[f] THEN w ELSE newest[f]
  BY <1>0 DEF Change, table, TypeOK
<1>2. \A g \in Files : newest[g] \in Nat /\ newest'[g] \in Nat
                       /\ newest[g] <= newest'[g] /\ content'[g] <= newest'[g]
  <2>1. w \in Nat /\ newest \in [Files -> Versions \cup {Absent}]
    BY <1>0, BoundAssumption DEF TypeOK, Versions, Absent
  <2>2. \A g \in Files : newest[g] \in Nat
    BY <2>1, BoundAssumption DEF Versions, Absent
  <2>3. \A g \in Files : content[g] <= newest[g]
    BY DEF LossInv, UpToNewest
  <2> QED
    BY <1>1, <2>1, <2>2, <2>3
<1>3. \A g \in Files :
        /\ Recorded(g)' = Recorded(g)
        /\ Recorded(g) \subseteq Versions /\ missed[g] \subseteq Versions
  BY <1>0, <1>1, RecordedType DEF Recorded, TypeOK
<1>4. \/ UNCHANGED job /\ ~(job.step \in {"hash", "read"} /\ job.file = f)
      \/ /\ job \in Jobs /\ job' \in Jobs /\ job'.file = f /\ job.file = f
         /\ job'.step = job.step /\ job'.seen = job.seen \cup {w}
  <2>1. CASE job.step \in {"hash", "read"} /\ job.file = f
    <3>1. job # Idle
      BY <2>1 DEF Idle
    <3>2. job \in Jobs
      BY <1>0, <3>1, JobType
    <3> DEFINE c == job.seen \cup {w}
    <3>3. c \in SUBSET (Versions \cup {Absent})
      BY <1>0, <3>2 DEF Jobs
    <3>4. job' = [job EXCEPT !.seen = c]
      BY <2>1 DEF Change
    <3> HIDE DEF c
    <3>5. /\ job' \in Jobs /\ job'.step = job.step /\ job'.file = job.file
          /\ job'.seen = c
      BY <3>2, <3>3, <3>4 DEF Jobs
    <3> QED
      BY <2>1, <3>2, <3>5 DEF c
  <2>2. CASE ~(job.step \in {"hash", "read"} /\ job.file = f)
    BY <2>2 DEF Change
  <2> QED
    BY <2>1, <2>2
<1>5. UpToNewest'
  <2> SUFFICES ASSUME NEW g \in Files
               PROVE  /\ \A v \in {content'[g]} \cup Recorded(g) \cup missed[g] :
                           v <= newest'[g]
                      /\ job' # Idle /\ job'.file = g =>
                           \A v \in job'.seen : v <= newest'[g]
    BY <1>1, <1>3 DEF UpToNewest
  <2>1. \A v \in Recorded(g) \cup missed[g] : v \in Nat /\ v <= newest[g]
    BY <1>3, BoundAssumption DEF LossInv, UpToNewest, Versions
  <2>2. job # Idle /\ job.file = g =>
          \A v \in job.seen : v \in Nat /\ v <= newest[g]
    <3>1. job # Idle => job.seen \subseteq Versions \cup {Absent}
      BY <1>0, JobType DEF Jobs
    <3> QED
      BY <3>1 DEF LossInv, UpToNewest, Versions, Absent
  <2>3. ASSUME job' # Idle, job'.file = g, NEW v \in job'.seen
        PROVE  v <= newest'[g]
    <3>1. CASE UNCHANGED job
      BY <1>2, <2>2, <2>3, <3>1
    <3>2. CASE /\ job \in Jobs /\ job.file = f /\ job'.file = f
               /\ job'.seen = job.seen \cup {w} /\ job.step = job'.step
      <4>1. job # Idle
        BY <3>2 DEF Jobs, Idle
      <4>2. v \in job.seen \/ v = content'[g]
        BY <1>1, <2>3, <3>2
      <4> QED
        BY <1>2, <2>2, <2>3, <3>2, <4>1, <4>2
    <3> QED
      BY <1>4, <3>1, <3>2
  <2> QED
    BY <1>2, <2>1, <2>3
<1>6. ASSUME Lossless, w # Absent
      PROVE  w \notin Recorded(f) \cup missed[f]
  <2>1. w = newest[f] + 1
    BY <1>6 DEF NewContents, Lossless, LosingFaults
  <2>2. \A v \in Recorded(f) \cup missed[f] : v <= newest[f]
    BY DEF LossInv, UpToNewest
  <2> QED
    BY <1>2, <2>1, <2>2
<1>7. Absent \notin Recorded(f) \cup missed[f]
  BY <1>3 DEF Versions, Absent
<1>8. ASSUME Lossless
      PROVE  \A g \in Files :
               /\ content'[g] \notin missed'[g]
               /\ At("read")' /\ job'.file = g /\ content'[g] \in Recorded(g)'
                    => job'.seen = {content'[g]}
  <2>1. content'[f] \notin Recorded(f)' \cup missed'[f]
    BY <1>1, <1>3, <1>6, <1>7, <1>8
  <2>2. ASSUME NEW g \in Files \ {f}
        PROVE  /\ content'[g] \notin missed'[g]
               /\ At("read")' /\ job'.file = g /\ content'[g] \in Recorded(g)'
                    => job'.seen = {content'[g]}
    BY <1>1, <1>3, <1>4, <1>8 DEF LossInv, NothingLost, At
  <2> QED
    BY <2>1, <2>2
<1>9. UNCHANGED faults
  BY DEF Change, loop, given
<1> QED
  BY <1>5, <1>8, <1>9 DEF LossInv, NothingLost, Lossless

(* The version that is hashed is one the file has held. *)
LEMMA HashLoses ==
  ASSUME WatchInv, LossInv, Hash
  PROVE  LossInv'
<1>0. TypeOK /\ OneHash /\ job # Idle /\ job \in Jobs
  BY StepType DEF WatchInv, Hash
<1>1. PICK f \in Files : f = job.file
  BY <1>0 DEF Jobs
<1>2. UNCHANGED <<content, newest, missed, faults>>
  BY DEF Hash, disk, loop, given
<1>3. PICK v \in Snapshots :
        /\ hashes' = IF v = Unreadable THEN hashes ELSE Remember(f, v)
        /\ GoTo("announce") \/ GoTo("read") \/ job' = Idle
  BY <1>1 DEF Hash
<1>4. v \in Versions \cup {Unreadable} /\ (v # Unreadable => v \in job.seen)
  BY <1>0, SnapshotType DEF Snapshots
<1>5. \A g \in Files : \A x \in Recorded(g)' : x <= newest[g]
  <2>1. CASE v = Unreadable
    <3>1. hashes' = hashes
      BY <1>3, <2>1
    <3> QED
      BY <3>1 DEF Recorded, LossInv, UpToNewest
  <2>2. CASE v # Unreadable
    <3>1. /\ Recorded(f)' \subseteq {v}
          /\ \A g \in Files \ {f} : Recorded(g)' \subseteq Recorded(g)
      BY <1>0, <1>3, <1>4, <2>2, RememberRecords
    <3>2. v <= newest[f]
      BY <1>0, <1>1, <1>4, <2>2 DEF LossInv, UpToNewest
    <3> QED
      BY <3>1, <3>2 DEF LossInv, UpToNewest
  <2> QED
    BY <2>1, <2>2
<1>6. \/ job' = Idle
      \/ job' \in Jobs /\ job'.file = f /\ job'.seen = {content[f]}
  BY <1>0, <1>1, <1>3, GoToSeen
<1>7. UpToNewest'
  BY <1>2, <1>5, <1>6 DEF LossInv, UpToNewest
<1>8. NothingLost'
  BY <1>2, <1>6 DEF LossInv, NothingLost, Lossless, At, Idle
<1> QED
  BY <1>7, <1>8 DEF LossInv

LEMMA ReadLoses ==
  ASSUME WatchInv, LossInv, Read
  PROVE  LossInv'
<1>0. TypeOK /\ job # Idle /\ job \in Jobs /\ At("read")
  BY StepType DEF WatchInv, Read
<1>1. PICK f \in Files : f = job.file
  BY <1>0 DEF Jobs
<1>2. PICK v \in Snapshots : \E x \in Results(v) :
        /\ job' = IF v = Unreadable THEN Idle
                  ELSE [job EXCEPT !.step = "emit", !.seen = {}, !.version = x]
        /\ missed' = [missed EXCEPT ![f] = @ \cup (Recorded(f) \ {x})]
  BY <1>1 DEF Read
<1>3. PICK x \in Results(v) :
        /\ job' = IF v = Unreadable THEN Idle
                  ELSE [job EXCEPT !.step = "emit", !.seen = {}, !.version = x]
        /\ missed' = [missed EXCEPT ![f] = @ \cup (Recorded(f) \ {x})]
  BY <1>2
<1>4. UNCHANGED <<content, newest, hashes, faults>>
  BY DEF Read, disk, loop, given
<1>5. \A g : Recorded(g)' = Recorded(g)
  BY <1>4 DEF Recorded
<1>6. /\ missed'[f] = missed[f] \cup (Recorded(f) \ {x})
      /\ \A g \in Files \ {f} : missed'[g] = missed[g]
  BY <1>0, <1>3 DEF TypeOK
<1>7. ~At("read")' /\ (job' = Idle \/ job'.seen = {})
  <2>1. CASE v = Unreadable
    BY <1>3, <2>1 DEF At, Idle
  <2>2. CASE v # Unreadable
    <3> DEFINE k == [job EXCEPT !.step = "emit"]
               l == [k EXCEPT !.seen = {}]
    <3>1. k \in Jobs /\ k.step = "emit"
      BY <1>0 DEF Jobs
    <3>2. job' = [l EXCEPT !.version = x]
      BY <1>3, <2>2
    <3> HIDE DEF k
    <3>3. l \in Jobs /\ l.step = "emit" /\ l.seen = {}
      BY <3>1 DEF Jobs
    <3> HIDE DEF l
    <3>4. job'.step = "emit" /\ job'.seen = {}
      BY <3>2, <3>3 DEF Jobs
    <3> QED
      BY <3>4 DEF At
  <2> QED
    BY <2>1, <2>2
<1>8. UpToNewest'
  BY <1>4, <1>5, <1>6, <1>7 DEF LossInv, UpToNewest
<1>9. ASSUME Lossless
      PROVE  content[f] \notin Recorded(f) \ {x}
  <2> SUFFICES ASSUME content[f] \in Recorded(f) PROVE x = content[f]
    OBVIOUS
  <2>1. job.seen = {content[f]}
    BY <1>0, <1>1, <1>9 DEF LossInv, NothingLost
  <2>2. content[f] # Absent
    BY <1>0, RecordedType DEF Versions, Absent
  <2>3. Cardinality(job.seen) = 1
    BY <2>1, FS_Singleton
  <2>4. "read" \notin faults /\ "scan" \notin faults
    BY <1>9 DEF Lossless, LosingFaults
  <2>5. Snapshots = {content[f]}
    BY <2>1, <2>2, <2>3, <2>4 DEF Snapshots
  <2> QED
    BY <1>3, <2>4, <2>5 DEF Results
<1>10. NothingLost'
  BY <1>4, <1>6, <1>7, <1>9 DEF LossInv, NothingLost, Lossless
<1> QED
  BY <1>8, <1>10 DEF LossInv

LEMMA LossInit == Init => LossInv
<1> SUFFICES ASSUME Init PROVE LossInv
  OBVIOUS
<1>1. TypeOK
  BY WatchInit DEF WatchInv
<1>2. \A f : Recorded(f) = {}
  <2>1. Len(hashes) = 0
    BY DEF Init
  <2> QED
    BY <2>1 DEF Recorded
<1>3. \A f \in Files : missed[f] = {} /\ content[f] = newest[f] /\ newest[f] \in Int
  BY <1>1 DEF Init, TypeOK, Versions, Absent
<1> QED
  BY <1>2, <1>3 DEF LossInv, UpToNewest, NothingLost, At, Idle, Init

LEMMA LossStep == WatchInv /\ LossInv /\ [Next]_vars => LossInv'
<1> SUFFICES ASSUME WatchInv, LossInv, [Next]_vars PROVE LossInv'
  OBVIOUS
<1>1. CASE \E f \in Files : Edit(f) \/ Delete(f) \/ Replace(f)
  BY <1>1, ChangeLoses DEF Edit, Delete, Replace
<1>2. CASE Announce
  <2>1. /\ job \in Jobs /\ GoTo("read")
        /\ UNCHANGED <<content, newest, hashes, missed, faults>>
    BY <1>2, StepType DEF Announce, WatchInv, disk, table, loop, given
  <2>2. job' \in Jobs /\ job'.step = "read" /\ job'.seen = {content[job'.file]}
    BY <2>1, GoToSeen DEF WatchInv
  <2> QED
    BY <2>1, <2>2, SameFiles DEF At
<1>3. CASE Emit \/ EmitFails
  <2>1. job' = Idle /\ UNCHANGED <<content, newest, hashes, missed, faults>>
    BY <1>3 DEF Emit, EmitFails, disk, table, loop, given
  <2> QED
    BY <2>1, SameFiles DEF At, Idle
<1>4. ASSUME NEW f \in Files, NEW b, Begin(f, b),
             UNCHANGED <<content, newest, hashes, missed, faults>>
      PROVE  LossInv'
  <2>1. /\ job' # Idle /\ job'.step = "hash" /\ job'.file = f
        /\ job'.seen = {content[f]}
    BY <1>4 DEF Begin, Idle
  <2>2. \A g : Recorded(g)' = Recorded(g)
    BY <1>4 DEF Recorded
  <2> QED
    BY <1>4, <2>1, <2>2 DEF LossInv, UpToNewest, NothingLost, Lossless, At
<1>5. CASE \E f \in Files : Visit(f)
  <2>1. PICK f \in Files : Visit(f)
    BY <1>5
  <2>2. UNCHANGED <<content, newest, hashes, missed, faults>>
    BY <2>1 DEF Visit, disk, table, loop, given
  <2>3. CASE UNCHANGED job
    BY <2>2, <2>3, SameFiles
  <2>4. CASE Begin(f, "walk")
    BY <1>4, <2>2, <2>4
  <2> QED
    BY <2>1, <2>3, <2>4 DEF Visit
<1>6. CASE Dispatch
  <2>1. Head(events).file \in Files
    <3>1. events \in Seq([file : Files, created : BOOLEAN]) /\ events # <<>>
      BY <1>6 DEF Dispatch, WatchInv, TypeOK
    <3>2. Head(events) \in [file : Files, created : BOOLEAN]
      BY <3>1, HeadTailProperties
    <3> QED
      BY <3>2
  <2>2. UNCHANGED <<content, newest, hashes, missed, faults>>
    BY <1>6 DEF Dispatch, disk, table, loop, given
  <2>3. \E b : Begin(Head(events).file, b)
    BY <1>6 DEF Dispatch
  <2> QED
    BY <1>4, <2>1, <2>2, <2>3
<1>7. CASE \/ EndWalk \/ NextWalk \/ ObserverDies \/ RaiseIfFailed
           \/ Stop \/ UNCHANGED vars
  <2>1. UNCHANGED <<content, newest, hashes, missed, faults, job>>
    BY <1>7 DEF EndWalk, NextWalk, ObserverDies, RaiseIfFailed, Stop, Halt, vars,
       disk, table, loop, given
  <2> QED
    BY <2>1, SameFiles
<1> QED
  BY <1>1, <1>2, <1>3, <1>5, <1>6, <1>7, HashLoses, ReadLoses DEF Next, Work, Rest

----------------------------------------------------------------------------
(* The inductive invariant of the code watcher: each hash of _file_hashes  *)
(* stands for a content that was scanned, is being scanned or was lost,    *)
(* and nothing is lost without a failed read, a scanner's exception or a   *)
(* restored content.                                                       *)
THEOREM WatchInvariance == Spec => [](WatchInv /\ LossInv)
<1>1. WatchInv /\ LossInv /\ [Next]_vars => (WatchInv /\ LossInv)'
  BY WatchStep, LossStep
<1>2. Init => WatchInv /\ LossInv
  BY WatchInit, LossInit
<1> QED
  BY <1>1, <1>2, PTL DEF Spec

(* Every state of the code watcher is of the declared type: _has_changed   *)
(* keeps the table within MAX_TRACKED_FILES.                               *)
THEOREM WatchTypes == Spec => []TypeOK
<1>1. WatchInv => TypeOK
  BY DEF WatchInv
<1> QED
  BY <1>1, WatchInvariance, PTL

(* The hash that _has_changed records before scan_file runs hides no       *)
(* content that was not scanned, whatever is edited, deleted or renamed    *)
(* meanwhile: unless the read of the file failed, a scanner raised, or an  *)
(* old content came back.                                                  *)
THEOREM ChangesAreScanned == Spec => []NoChangeForgotten
<1>1. WatchInv /\ LossInv => NoChangeForgotten
  <2> SUFFICES ASSUME WatchInv, LossInv, NEW f \in Files,
                      content[f] \in Recorded(f)
               PROVE  \/ content[f] \in scanned[f]
                      \/ job # Idle /\ job.file = f
                      \/ broken \/ main \in Halted
                      \/ ~Lossless /\ content[f] \in missed[f]
    BY DEF NoChangeForgotten, Tracked
  <2>1. \/ content[f] \in scanned[f] \cup missed[f] \/ InScan(f, content[f])
        \/ broken \/ main \in Halted
    BY DEF WatchInv, HashIsScanned
  <2>2. Lossless => content[f] \notin missed[f]
    BY DEF LossInv, NothingLost
  <2> QED
    BY <2>1, <2>2 DEF InScan
<1> QED
  BY <1>1, WatchInvariance, PTL
=============================================================================
