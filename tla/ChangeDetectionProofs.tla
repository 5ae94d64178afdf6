------------------------ MODULE ChangeDetectionProofs ------------------------
(***************************************************************************)
(* The fast path is safe and the report of a scan complete, for any number  *)
(* of processes, files, versions and runs.  DigestsInv is inductive and     *)
(* implies DigestIsCurrent; MarksInv is inductive, given the types that     *)
(* DigestsInv provides, and implies MissingIsComplete.                      *)
(***************************************************************************)
EXTENDS ChangeDetection, TLAPS

\* The files do not change: a step of a job that leaves the others alone.
LEMMA JobStep ==
  ASSUME DigestsInv, UNCHANGED files,
         row' \in [Paths -> Row],
         \A p \in Paths : row'[p] # NoRow => Sound(p, row'[p].stat, row'[p].hash),
         NEW j \in Jobs, NEW J \in Job, job' = [job EXCEPT ![j] = J],
         J.pc # "idle" => J.id # 0,
         lastRun' \in 0..MaxRuns,
         \A p \in Paths : FindingInv(j, p)'
  PROVE  DigestsInv'
<1>1. DetectionTypeOK'
  BY DEF DigestsInv, DetectionTypeOK, files
<1>2. ASSUME NEW p \in Paths PROVE FileInv(p)'
  BY DEF DigestsInv, FileInv, Sound, files
<1>3. ASSUME NEW k \in Jobs, NEW p \in Paths PROVE FindingInv(k, p)'
  <2>1. CASE k = j
    BY <2>1
  <2>2. CASE k # j
    <3>1. job'[k] = job[k]
      BY <2>2 DEF DigestsInv, DetectionTypeOK
    <3>2. FindingInv(k, p)
      BY DEF DigestsInv
    <3> QED BY <3>1, <3>2 DEF FindingInv, Holds, Sound, files
  <2> QED BY <2>1, <2>2
<1> QED BY <1>1, <1>2, <1>3 DEF DigestsInv

\* What the steps of a job take from the invariant.
LEMMA JobFacts ==
  ASSUME DigestsInv, NEW j \in Jobs
  PROVE  /\ job[j] \in Job /\ NoJob \in Job
         /\ job[j].pc # "idle" => job[j].id # 0
         /\ row \in [Paths -> Row] /\ lastRun \in 0..MaxRuns
         /\ \A p \in Paths : FindingInv(j, p) /\ FileInv(p)
         /\ \A p \in Paths : row[p] # NoRow => Sound(p, row[p].stat, row[p].hash)
         /\ MaxRuns \in Nat
<1> QED BY DetectionAssumption
     DEF DigestsInv, DetectionTypeOK, FileInv, NoJob, Job, Nothing, Finding,
         MaybeVersion, MaybeDigest, Versions, Gone

LEMMA StartPreserves ==
  ASSUME DigestsInv, NEW j \in Jobs, Start(j) PROVE DigestsInv'
<1>1. PICK mode \in {"sync", "scan-only", "rebuild-db"} :
        job' = [job EXCEPT ![j] = [NoJob EXCEPT !.pc = "walking", !.mode = mode,
                                               !.id = lastRun', !.todo = Paths]]
  BY DEF Start
<1> DEFINE J == [NoJob EXCEPT !.pc = "walking", !.mode = mode,
                              !.id = lastRun', !.todo = Paths]
<1>2. lastRun' \in 0..MaxRuns /\ lastRun' # 0 /\ UNCHANGED <<files, row>>
  BY JobFacts DEF Start
<1>3. J \in Job /\ J.id # 0
  BY <1>2, JobFacts DEF Job, NoJob
<1>4. job'[j] = J
  BY <1>1 DEF DigestsInv, DetectionTypeOK
<1>5. ASSUME NEW p \in Paths PROVE FindingInv(j, p)'
  BY <1>2, <1>4 DEF FindingInv, Holds, NoJob, Nothing
<1> QED BY <1>1, <1>2, <1>3, <1>5, JobFacts, JobStep DEF files, Sound

LEMMA PassOverPreserves ==
  ASSUME DigestsInv, NEW j \in Jobs, NEW p \in Paths, PassOver(j, p) PROVE DigestsInv'
<1> DEFINE J == [job[j] EXCEPT !.todo = @ \ {p}]
<1>1. /\ J \in Job /\ J.pc = job[j].pc /\ J.id = job[j].id
      /\ job' = [job EXCEPT ![j] = J] /\ job'[j] = J
  BY JobFacts DEF PassOver, Job, DigestsInv, DetectionTypeOK
<1>2. ASSUME NEW q \in Paths PROVE FindingInv(j, q)'
  BY <1>1, JobFacts DEF PassOver, FindingInv, Holds, Job, Sound, files
<1> QED BY <1>1, <1>2, JobFacts, JobStep DEF PassOver, files, Sound

LEMMA FoundType ==
  ASSUME DigestsInv, NEW j \in Jobs, NEW p \in Paths, NEW f \in Finding
  PROVE  With(j, p, f) \in [Paths -> Finding]
<1> QED BY JobFacts DEF Job, With

LEMMA JobType ==
  ASSUME NEW K \in Job, NEW todo \in SUBSET Paths, NEW hand \in SUBSET Paths,
         NEW found \in [Paths -> Finding], NEW met \in SUBSET Paths,
         NEW pc \in {"idle", "walking", "looking", "hashing", "storing",
                     "applying", "reporting"}
  PROVE  [K EXCEPT !.pc = pc, !.todo = todo, !.hand = hand, !.met = met, !.found = found]
           \in Job
<1> QED BY DEF Job

LEMMA StatPreserves ==
  ASSUME DigestsInv, NEW j \in Jobs, NEW p \in Paths, Stat(j, p) PROVE DigestsInv'
<1> DEFINE f == [Nothing EXCEPT !.stat = tree[p]]
           J == [job[j] EXCEPT
                   !.pc = IF job[j].mode = "rebuild-db" THEN "hashing" ELSE "looking",
                   !.todo = @ \ {p}, !.hand = {p}, !.met = @ \cup {p},
                   !.found = With(j, p, f)]
<1>1. f \in Finding /\ f.stat = tree[p]
  BY JobFacts DEF DigestsInv, DetectionTypeOK, Nothing, Finding, MaybeDigest
<1>2. /\ job[j] \in Job /\ job[j].pc = "walking" /\ tree[p] # Gone
      /\ UNCHANGED <<files, row, lastRun>>
  BY JobFacts DEF Stat
<1>3. J \in Job
  <2>1. /\ job[j].todo \ {p} \in SUBSET Paths /\ {p} \in SUBSET Paths
        /\ job[j].met \cup {p} \in SUBSET Paths
    BY <1>2 DEF Job
  <2>2. With(j, p, f) \in [Paths -> Finding]
    BY <1>1, FoundType
  <2> HIDE DEF f
  <2> QED BY <1>2, <2>1, <2>2, JobType
<1>4. /\ J.found = With(j, p, f) /\ J.hand = {p}
      /\ J.pc \in {"looking", "hashing"} /\ J.id = job[j].id
  BY <1>2 DEF Job
<1>5. job' = [job EXCEPT ![j] = J]
  BY DEF Stat
<1>6. /\ job'[j] = J /\ job'[j].found[p] = f
      /\ \A q \in Paths \ {p} : job'[j].found[q] = job[j].found[q]
  <2> HIDE DEF J, f
  <2>1. job'[j] = J
    BY <1>5 DEF DigestsInv, DetectionTypeOK
  <2>2. job[j].found \in [Paths -> Finding]
    BY <1>2 DEF Job
  <2> QED BY <1>4, <2>1, <2>2 DEF With
<1>7. ASSUME NEW q \in Paths PROVE FindingInv(j, q)'
  <2> FindingInv(j, q) /\ tree' = tree /\ spoiled' = spoiled
    BY <1>2, JobFacts DEF files
  <2>1. CASE q = p
    BY <1>1, <1>2, <1>4, <1>6, <2>1 DEF FindingInv, Holds
  <2>2. CASE q # p
    BY <1>2, <1>4, <1>6, <2>2 DEF FindingInv, Holds, Sound
  <2> QED BY <2>1, <2>2
<1> HIDE DEF J
<1> QED BY <1>2, <1>3, <1>4, <1>5, <1>7, JobFacts, JobStep DEF files, Sound

\* A job that has p in hand goes on to pc with the finding f.
LEMMA GotoPreserves ==
  ASSUME DigestsInv, NEW j \in Jobs, NEW p \in Paths, NEW f \in Finding,
         NEW pc \in {"walking", "hashing", "storing"},
         job[j].pc # "idle", Holds(j, p), Goto(j, p, pc, f), UNCHANGED files, lastRun' = lastRun,
         row' \in [Paths -> Row],
         \A q \in Paths : row'[q] # NoRow => Sound(q, row'[q].stat, row'[q].hash),
         pc = "hashing" => f.stat # Gone /\ (f.stat = tree[p] \/ f.stat \in spoiled[p]),
         pc # "hashing" /\ f.stat # Gone => Sound(p, f.stat, f.hash),
         pc = "storing" => f.stat # Gone
  PROVE  DigestsInv'
<1> DEFINE hand == IF pc = "walking" THEN {} ELSE job[j].hand
           J == [job[j] EXCEPT !.pc = pc, !.found = With(j, p, f), !.hand = hand]
<1>1. job[j] \in Job /\ hand \in SUBSET Paths /\ With(j, p, f) \in [Paths -> Finding]
  BY JobFacts, FoundType DEF Job
<1>2. J \in Job /\ J.found = With(j, p, f) /\ J.hand = hand /\ J.pc = pc /\ J.id = job[j].id
  <2> HIDE DEF hand
  <2> QED BY <1>1 DEF Job
<1>3. job' = [job EXCEPT ![j] = J]
  BY DEF Goto
<1>4. /\ job'[j] = J /\ job'[j].found[p] = f
      /\ \A q \in Paths \ {p} : job'[j].found[q] = job[j].found[q]
  <2> HIDE DEF J
  <2>1. job'[j] = J
    BY <1>3 DEF DigestsInv, DetectionTypeOK
  <2>2. job[j].found \in [Paths -> Finding]
    BY <1>1 DEF Job
  <2> QED BY <1>2, <2>1, <2>2 DEF With
<1>5. ASSUME NEW q \in Paths PROVE FindingInv(j, q)'
  <2> FindingInv(j, q) /\ tree' = tree /\ spoiled' = spoiled
    BY JobFacts DEF files
  <2> job'[j].pc = pc /\ job'[j].hand = hand /\ job'[j].id = job[j].id
    BY <1>2, <1>4
  <2>1. CASE q = p
    BY <1>4, <2>1 DEF FindingInv, Holds, Sound
  <2>2. CASE q # p
    BY <1>4, <2>2 DEF FindingInv, Holds, Sound
  <2> QED BY <2>1, <2>2
<1> HIDE DEF J
<1> QED BY <1>2, <1>3, <1>5, JobFacts, JobStep

LEMMA LookPreserves ==
  ASSUME DigestsInv, NEW j \in Jobs, NEW p \in Paths, Look(j, p) PROVE DigestsInv'
<1> DEFINE g == job[j].found[p]
           f == [g EXCEPT !.key = row[p].key]
<1>1. /\ job[j] \in Job /\ g \in Finding /\ row[p] \in Row
      /\ FindingInv(j, p) /\ FileInv(p)
  BY JobFacts DEF Job
<1>2. row[p].key \in 0..MaxRuns /\ row[p].hash \in MaybeDigest
  BY <1>1, DetectionAssumption DEF Row, NoRow, RunId, MaybeDigest
<1>3. g.stat # Gone /\ (g.stat = tree[p] \/ g.stat \in spoiled[p])
  BY <1>1 DEF Look, FindingInv
<1>4. f \in Finding /\ f.stat = g.stat
  BY <1>1, <1>2 DEF Finding
<1>5. /\ job[j].pc # "idle" /\ Holds(j, p) /\ UNCHANGED files /\ row' = row
      /\ lastRun' = lastRun
  BY DEF Look
<1>6. CASE Moved(row[p], g.stat)
  <2>1. Goto(j, p, "hashing", f)
    BY <1>4, <1>6 DEF Look
  <2> HIDE DEF f, g
  <2> QED BY <1>3, <1>4, <1>5, <2>1, JobFacts, GotoPreserves DEF Sound, files
<1>7. CASE ~Moved(row[p], g.stat)
  <2> DEFINE h == [f EXCEPT !.hash = row[p].hash]
  <2>1. Goto(j, p, Afterwards(j), h)
    BY <1>4, <1>7 DEF Look
  <2>2. h \in Finding /\ h.stat = g.stat /\ h.hash = row[p].hash
    BY <1>2, <1>4 DEF Finding
  <2>3. Sound(p, h.stat, h.hash)
    BY <1>1, <1>7, <2>2 DEF Moved, FileInv
  <2>4. Afterwards(j) \in {"walking", "storing"}
    BY DEF Afterwards
  <2> HIDE DEF f, g, h
  <2> QED BY <1>3, <1>5, <2>1, <2>2, <2>3, <2>4, JobFacts, GotoPreserves DEF Sound, files
<1> QED BY <1>6, <1>7

LEMMA HashPreserves ==
  ASSUME DigestsInv, NEW j \in Jobs, NEW p \in Paths, Hash(j, p) PROVE DigestsInv'
<1> DEFINE f == job[j].found[p]
<1>1. job[j] \in Job /\ f \in Finding /\ FindingInv(j, p)
  BY JobFacts DEF Job
<1>2. f.stat # Gone /\ (f.stat = tree[p] \/ f.stat \in spoiled[p])
  BY <1>1 DEF Hash, FindingInv
<1>3. f.stat \in Versions /\ ContentOf[f.stat] \in MaybeDigest
  BY <1>1, <1>2, DetectionAssumption DEF Finding, MaybeVersion, MaybeDigest
<1>4. PICK h \in MaybeDigest :
        /\ Goto(j, p, Afterwards(j), [f EXCEPT !.hash = h])
        /\ tree[p] = f.stat => h = ContentOf[f.stat]
  BY <1>3 DEF Hash
<1> DEFINE g == [f EXCEPT !.hash = h]
<1>5. g \in Finding /\ g.stat = f.stat /\ g.hash = h
  BY <1>1 DEF Finding
<1>6. Sound(p, g.stat, g.hash)
  BY <1>2, <1>4, <1>5 DEF Sound
<1>7. /\ job[j].pc # "idle" /\ Holds(j, p) /\ UNCHANGED files /\ row' = row
      /\ lastRun' = lastRun
  BY DEF Hash
<1>8. Afterwards(j) \in {"walking", "storing"}
  BY DEF Afterwards
<1>9. Goto(j, p, Afterwards(j), g)
  BY <1>4
<1> HIDE DEF f, g
<1> QED BY <1>2, <1>5, <1>6, <1>7, <1>8, <1>9, JobFacts, GotoPreserves DEF Sound, files

LEMMA CannotReadPreserves ==
  ASSUME DigestsInv, NEW j \in Jobs, NEW p \in Paths, CannotRead(j, p) PROVE DigestsInv'
<1>1. Nothing \in Finding /\ Nothing.stat = Gone
  BY DetectionAssumption DEF Nothing, Finding, MaybeVersion, MaybeDigest, Gone
<1>2. /\ job[j].pc # "idle" /\ Holds(j, p) /\ UNCHANGED files /\ row' = row
      /\ lastRun' = lastRun /\ Goto(j, p, "walking", Nothing)
  BY DEF CannotRead, NextFile
<1> QED BY <1>1, <1>2, JobFacts, GotoPreserves DEF Sound, files

LEMMA NothingType == Nothing \in Finding /\ Nothing.stat = Gone /\ NoRow \in Row
BY DetectionAssumption DEF Nothing, Finding, MaybeVersion, MaybeDigest, Gone, Row

\* An upsert keeps the row in its type and the pair of the finding.
LEMMA UpsertedRow ==
  ASSUME NEW r \in Row, NEW f \in Finding, f.stat # Gone, NEW id \in RunId
  PROVE  /\ Upserted(r, f, id) \in Row
         /\ Upserted(r, f, id).stat = f.stat /\ Upserted(r, f, id).hash = f.hash
<1> QED BY DEF Upserted, Row, Finding, MaybeVersion

\* A change of one row leaves the others sound.
LEMMA RowChange ==
  ASSUME DigestsInv, NEW p \in Paths, NEW r \in Row, row' = [row EXCEPT ![p] = r],
         r # NoRow => Sound(p, r.stat, r.hash)
  PROVE  /\ row' \in [Paths -> Row]
         /\ \A q \in Paths : row'[q] # NoRow => Sound(q, row'[q].stat, row'[q].hash)
<1>1. row \in [Paths -> Row] /\ \A q \in Paths : FileInv(q)
  BY DEF DigestsInv, DetectionTypeOK
<1> QED BY <1>1 DEF FileInv

LEMMA StorePreserves ==
  ASSUME DigestsInv, NEW j \in Jobs, NEW p \in Paths, Store(j, p) PROVE DigestsInv'
<1> DEFINE f == job[j].found[p]
           r == Upserted(row[p], f, job[j].id)
<1>1. /\ job[j] \in Job /\ f \in Finding /\ row[p] \in Row /\ FindingInv(j, p)
      /\ job[j].pc = "storing" /\ Holds(j, p)
  BY JobFacts DEF Job, Store
<1>2. f.stat # Gone /\ Sound(p, f.stat, f.hash) /\ job[j].id \in RunId
  BY <1>1, JobFacts, DetectionAssumption DEF FindingInv, Job, RunId
<1>3. r \in Row /\ r.stat = f.stat /\ r.hash = f.hash
  BY <1>1, <1>2, UpsertedRow
<1>4. row' = [row EXCEPT ![p] = r]
  BY DEF Store
<1>5. /\ row' \in [Paths -> Row]
      /\ \A q \in Paths : row'[q] # NoRow => Sound(q, row'[q].stat, row'[q].hash)
  <2> HIDE DEF r, f
  <2> QED BY <1>2, <1>3, <1>4, RowChange
<1>6. Goto(j, p, "walking", Nothing) /\ UNCHANGED files /\ lastRun' = lastRun
  BY DEF Store, NextFile
<1> QED BY <1>1, <1>5, <1>6, NothingType, GotoPreserves

\* A job at pc with the findings `found', none of them in hand.
LEMMA JobGoesTo ==
  ASSUME DigestsInv, NEW j \in Jobs, NEW J \in Job, job' = [job EXCEPT ![j] = J],
         J.pc \in {"idle", "applying", "reporting"}, J.pc # "idle" => J.id # 0,
         UNCHANGED files, lastRun' = lastRun, row' \in [Paths -> Row],
         \A p \in Paths : row'[p] # NoRow => Sound(p, row'[p].stat, row'[p].hash),
         \A p \in Paths :
           J.found[p].stat # Gone => Sound(p, J.found[p].stat, J.found[p].hash)
  PROVE  DigestsInv'
<1>1. job'[j] = J
  BY DEF DigestsInv, DetectionTypeOK
<1>2. ASSUME NEW p \in Paths PROVE FindingInv(j, p)'
  BY <1>1 DEF FindingInv, Sound, files
<1> QED BY <1>2, JobFacts, JobStep

\* Between two files of the walk, and after it, every finding is sound.
LEMMA FindingsAreSound ==
  ASSUME DigestsInv, NEW j \in Jobs, job[j].pc \notin {"looking", "hashing"}
  PROVE  \A p \in Paths : job[j].found[p].stat # Gone =>
           Sound(p, job[j].found[p].stat, job[j].found[p].hash)
<1> QED BY JobFacts DEF FindingInv

LEMMA EndWalkPreserves ==
  ASSUME DigestsInv, NEW j \in Jobs, EndWalk(j) PROVE DigestsInv'
<1> DEFINE found == [p \in Paths |-> IF row[p] # NoRow /\ p \notin job[j].met /\ tree[p] = Gone
                                     THEN [Nothing EXCEPT !.key = row[p].key]
                                     ELSE job[j].found[p]]
           J == [job[j] EXCEPT !.pc = "applying", !.found = found]
<1>1. job[j] \in Job /\ job[j].pc = "walking" /\ job[j].id # 0
  BY JobFacts DEF EndWalk, WalkIsOver
<1>2. found \in [Paths -> Finding]
  <2>1. ASSUME NEW p \in Paths PROVE found[p] \in Finding
    <3>1. job[j].found[p] \in Finding /\ row[p] \in Row
      BY JobFacts DEF Job
    <3>2. row[p].key \in 0..MaxRuns
      BY <3>1, DetectionAssumption DEF Row, NoRow, RunId
    <3>3. [Nothing EXCEPT !.key = row[p].key] \in Finding
      BY <3>2, NothingType DEF Finding
    <3> QED BY <3>1, <3>3
  <2> QED BY <2>1
<1>3. J \in Job /\ J.pc = "applying" /\ J.id = job[j].id /\ J.found = found
  <2> HIDE DEF found
  <2> QED BY <1>1, <1>2 DEF Job
<1>4. ASSUME NEW p \in Paths
      PROVE  found[p].stat # Gone => Sound(p, found[p].stat, found[p].hash)
  BY <1>1, FindingsAreSound, NothingType
<1>5. job' = [job EXCEPT ![j] = J] /\ UNCHANGED <<files, row, lastRun>>
  BY DEF EndWalk
<1> HIDE DEF J, found
<1> QED BY <1>1, <1>3, <1>4, <1>5, JobFacts, JobGoesTo

LEMMA ApplyPreserves ==
  ASSUME DigestsInv, NEW j \in Jobs, NEW p \in Paths, Apply(j, p) PROVE DigestsInv'
<1> DEFINE f == job[j].found[p]
           J == [job[j] EXCEPT !.found = With(j, p, Nothing)]
<1>1. /\ job[j] \in Job /\ f \in Finding /\ row[p] \in Row /\ job[j].pc = "applying"
      /\ job[j].id \in RunId /\ UNCHANGED <<files, lastRun>> /\ job' = [job EXCEPT ![j] = J]
  BY JobFacts, DetectionAssumption DEF Apply, Job, RunId
<1>2. J \in Job /\ J.pc = "applying" /\ J.id = job[j].id /\ J.found = With(j, p, Nothing)
  BY <1>1, NothingType, FoundType DEF Job
<1>3. ASSUME NEW q \in Paths
      PROVE  J.found[q].stat # Gone => Sound(q, J.found[q].stat, J.found[q].hash)
  <2> HIDE DEF J
  <2> job[j].found \in [Paths -> Finding]
    BY <1>1 DEF Job
  <2> QED BY <1>1, <1>2, FindingsAreSound, NothingType DEF With
<1>4. /\ row' \in [Paths -> Row]
      /\ \A q \in Paths : row'[q] # NoRow => Sound(q, row'[q].stat, row'[q].hash)
  <2>1. CASE f.stat # Gone /\ row' = [row EXCEPT ![p] = Upserted(@, f, job[j].id)]
    <3> DEFINE r == Upserted(row[p], f, job[j].id)
    <3>1. r \in Row /\ r.stat = f.stat /\ r.hash = f.hash /\ row' = [row EXCEPT ![p] = r]
      BY <1>1, <2>1, UpsertedRow
    <3>2. Sound(p, f.stat, f.hash)
      BY <1>1, <2>1, FindingsAreSound
    <3> HIDE DEF r, f
    <3> QED BY <3>1, <3>2, RowChange
  <2>2. CASE SameRow(j, p) /\ row' = [row EXCEPT ![p].seenBy = job[j].id]
    <3> DEFINE r == [row[p] EXCEPT !.seenBy = job[j].id]
    <3>1. row[p] # NoRow
      BY <2>2, <1>1 DEF SameRow, NoRow, Row
    <3>2. r \in Row /\ r.stat = row[p].stat /\ r.hash = row[p].hash
      BY <1>1, <3>1 DEF Row
    <3>3. Sound(p, row[p].stat, row[p].hash) /\ row' = [row EXCEPT ![p] = r]
      BY <2>2, <3>1, JobFacts
    <3> HIDE DEF r
    <3> QED BY <3>2, <3>3, RowChange
  <2>3. CASE row' = [row EXCEPT ![p] = NoRow]
    BY <2>3, NothingType, RowChange
  <2>4. CASE UNCHANGED row
    BY <2>4, JobFacts
  <2> QED BY <2>1, <2>2, <2>3, <2>4 DEF Apply
<1> HIDE DEF J
<1> QED BY <1>1, <1>2, <1>3, <1>4, JobGoesTo, JobFacts

LEMMA ReportPreserves ==
  ASSUME DigestsInv, NEW j \in Jobs, Report(j) PROVE DigestsInv'
<1> DEFINE missing == {p \in Paths : NotSeenIn(row[p], job[j].id)}
           J == [job[j] EXCEPT !.pc = "reporting", !.missing = missing]
<1>1. /\ job[j] \in Job /\ job[j].pc = "walking" /\ missing \in SUBSET Paths
      /\ UNCHANGED <<files, row, lastRun>> /\ job' = [job EXCEPT ![j] = J]
  BY JobFacts DEF Report, WalkIsOver
<1>2. J \in Job /\ J.pc = "reporting" /\ J.id = job[j].id /\ J.found = job[j].found
  BY <1>1 DEF Job
<1> HIDE DEF J
<1> QED BY <1>1, <1>2, FindingsAreSound, JobFacts, JobGoesTo

\* The end of a run, in whatever way.
LEMMA EndPreserves ==
  ASSUME DigestsInv, NEW j \in Jobs, Finish(j) \/ Die(j) PROVE DigestsInv'
<1>1. job' = [job EXCEPT ![j] = NoJob] /\ UNCHANGED <<files, row, lastRun>>
  BY DEF Finish, Die
<1>2. NoJob.pc = "idle" /\ \A p \in Paths : NoJob.found[p].stat = Gone
  BY NothingType DEF NoJob
<1> QED BY <1>1, <1>2, JobFacts, JobGoesTo

\* The user puts version v, or nothing, at p: what was there is spoiled if it was being read.
LEMMA PutPreserves ==
  ASSUME DigestsInv, NEW p \in Paths, NEW v \in MaybeVersion, Put(p, v),
         v # tree[p], v \notin spoiled[p], v <= newest'[p],
         newest' \in [Paths -> Versions], \A q \in Paths : newest[q] <= newest'[q],
         UNCHANGED <<row, job, lastRun>>
  PROVE  DigestsInv'
<1>1. /\ tree' = [tree EXCEPT ![p] = v]
      /\ spoiled' = [spoiled EXCEPT ![p] = @ \cup (BeingRead(p) \cap {tree[p]})]
  BY DEF Put
<1>2. /\ tree \in [Paths -> MaybeVersion] /\ spoiled \in [Paths -> SUBSET Versions]
      /\ newest \in [Paths -> Versions] /\ BeingRead(p) \subseteq Versions
  BY DEF DigestsInv, DetectionTypeOK, BeingRead
<1>3. DetectionTypeOK'
  BY <1>1, <1>2 DEF DigestsInv, DetectionTypeOK
<1>4. ASSUME NEW q \in Paths PROVE FileInv(q)'
  <2>1. FileInv(q) /\ newest[q] <= newest'[q] /\ row'[q] = row[q]
    BY DEF DigestsInv
  <2>2. /\ newest[q] \in Int /\ newest'[q] \in Int /\ tree[q] \in Int /\ v \in Int
        /\ \A w \in spoiled[q] : w \in Int
    BY <1>2 DEF MaybeVersion, Versions, Gone
  <2>3. CASE q = p
    <3>1. tree'[q] = v /\ spoiled'[q] = spoiled[q] \cup (BeingRead(p) \cap {tree[q]})
      BY <1>1, <1>2, <2>3
    <3>2. \A w \in spoiled'[q] : w <= newest'[q]
      BY <2>1, <2>2, <3>1 DEF FileInv
    <3> QED BY <2>1, <2>3, <3>1, <3>2 DEF FileInv, Sound
  <2>4. CASE q # p
    <3>1. tree'[q] = tree[q] /\ spoiled'[q] = spoiled[q]
      BY <1>1, <1>2, <2>4
    <3> QED BY <2>1, <2>2, <3>1 DEF FileInv, Sound
  <2> QED BY <2>3, <2>4
<1>5. ASSUME NEW j \in Jobs, NEW q \in Paths PROVE FindingInv(j, q)'
  <2>1. FindingInv(j, q) /\ job' = job /\ spoiled[q] \subseteq spoiled'[q]
    BY <1>1, <1>2 DEF DigestsInv
  <2>2. CASE q = p /\ job[j].pc \in {"looking", "hashing"} /\ Holds(j, q)
    <3>1. job[j].found[q].stat \in Versions
      BY <2>1, <2>2, JobFacts DEF FindingInv, Job, Finding, MaybeVersion
    <3>2. job[j].found[q].stat = tree[q] => tree[q] \in BeingRead(p)
      BY <2>2, <3>1 DEF BeingRead
    <3> QED BY <1>1, <1>2, <2>1, <2>2, <3>2 DEF FindingInv, Holds
  <2>3. CASE q # p
    BY <1>1, <1>2, <2>1, <2>3 DEF FindingInv, Holds, Sound
  <2>4. CASE ~(job[j].pc \in {"looking", "hashing"} /\ Holds(j, q))
    BY <2>1, <2>4 DEF FindingInv, Holds, Sound
  <2> QED BY <2>2, <2>3, <2>4
<1> QED BY <1>3, <1>4, <1>5 DEF DigestsInv

LEMMA UserPreserves ==
  ASSUME DigestsInv, NEW p \in Paths, Edit(p) \/ Remove(p) \/ Restore(p)
  PROVE  DigestsInv'
<1>1. /\ tree \in [Paths -> MaybeVersion] /\ newest \in [Paths -> Versions]
      /\ spoiled \in [Paths -> SUBSET Versions] /\ FileInv(p)
      /\ MaxVersions \in Nat
  BY DetectionAssumption DEF DigestsInv, DetectionTypeOK
<1>2. \A q \in Paths : newest[q] \in Nat /\ tree[q] \in Nat
  BY <1>1 DEF Versions, MaybeVersion, Gone
<1>3. CASE Edit(p)
  <2>1. newest[p] + 1 \in Versions /\ newest' = [newest EXCEPT ![p] = newest[p] + 1]
    BY <1>1, <1>2, <1>3 DEF Edit, Versions
  <2>2. newest[p] + 1 # tree[p] /\ newest[p] + 1 \notin spoiled[p]
    BY <1>1, <1>2 DEF FileInv
  <2>3. \A q \in Paths : newest[q] <= newest'[q]
    BY <1>1, <1>2, <2>1
  <2> QED BY <1>1, <1>2, <1>3, <2>1, <2>2, <2>3, PutPreserves DEF Edit, MaybeVersion
<1>4. CASE Remove(p)
  <2>1. Gone # tree[p] /\ Gone \notin spoiled[p] /\ Gone <= newest[p]
    BY <1>1, <1>2, <1>4 DEF Remove, Gone, Versions
  <2> QED BY <1>1, <1>2, <1>4, <2>1, PutPreserves DEF Remove, MaybeVersion
<1>5. CASE Restore(p)
  <2>1. PICK v \in 1..newest[p] : v # tree[p] /\ v \notin spoiled[p] /\ Put(p, v)
    BY <1>5 DEF Restore
  <2>2. v \in MaybeVersion /\ v <= newest[p]
    BY <1>1, <1>2, <2>1 DEF MaybeVersion, Versions
  <2> QED BY <1>1, <1>2, <1>5, <2>1, <2>2, PutPreserves DEF Restore
<1> QED BY <1>3, <1>4, <1>5

LEMMA DetectionInitially == DetectionInit => DigestsInv
<1> SUFFICES ASSUME DetectionInit PROVE DigestsInv
  OBVIOUS
<1>1. DetectionTypeOK
  BY NothingType, DetectionAssumption
     DEF DetectionInit, DetectionTypeOK, NoJob, Job, MaybeVersion, Versions, Gone
<1>2. \A p \in Paths : FileInv(p)
  BY DEF DetectionInit, FileInv, Gone
<1>3. \A j \in Jobs, p \in Paths : FindingInv(j, p)
  BY NothingType DEF DetectionInit, FindingInv, NoJob
<1> QED BY <1>1, <1>2, <1>3 DEF DigestsInv

LEMMA DetectionStep == DigestsInv /\ [DetectionNext]_detectionVars => DigestsInv'
<1> SUFFICES ASSUME DigestsInv, [DetectionNext]_detectionVars PROVE DigestsInv'
  OBVIOUS
<1>1. ASSUME NEW j \in Jobs, Process(j) PROVE DigestsInv'
  BY <1>1, StartPreserves, EndWalkPreserves, ReportPreserves, EndPreserves,
     PassOverPreserves, StatPreserves, LookPreserves, HashPreserves, CannotReadPreserves,
     StorePreserves, ApplyPreserves
     DEF Process
<1>2. ASSUME NEW p \in Paths, Edit(p) \/ Remove(p) \/ Restore(p) PROVE DigestsInv'
  BY <1>2, UserPreserves
<1>3. CASE UNCHANGED detectionVars
  BY <1>3 DEF detectionVars, DigestsInv, DetectionTypeOK, FileInv, FindingInv, Holds, Sound
<1> QED BY <1>1, <1>2, <1>3 DEF DetectionNext

\* In every reachable state a digest, stored or on its way, is that of its version, or
\* of a version that will not come back.
THEOREM DigestsInvAlways == DetectionSpec => []DigestsInv
<1> QED BY DetectionInitially, DetectionStep, PTL DEF DetectionSpec

\* The digest that the fast path would reuse is that of the file, whatever overlaps,
\* with the one restoration left out that Restore excludes.
THEOREM DigestIsCurrentAlways == DetectionSpec => []DigestIsCurrent
<1>1. DigestsInv => DigestIsCurrent
  BY DEF DigestsInv, FileInv, DigestIsCurrent, Sound
<1> QED BY <1>1, DigestsInvAlways, PTL

-----------------------------------------------------------------------------
(* The marks *)

\* What a job may do to the rows: nothing, forget one, or mark one in its own name, a file
\* that it has met unless it is a sync.
MarksOwn(j, met) ==
  \A p \in Paths :
    \/ row'[p] = row[p] \/ row'[p] = NoRow
    \/ row'[p].seenBy = job[j].id /\ (p \in met \/ job[j].mode = "sync")

\* What the steps of a job take from the invariants.
LEMMA MarksFacts ==
  ASSUME DigestsInv, MarksInv, NEW j \in Jobs
  PROVE  /\ job \in [Jobs -> Job] /\ job[j] \in Job
         /\ lastRun \in Nat /\ \A k \in Jobs : job[k].id \in Nat
         /\ \A p \in Paths : row[p].seenBy \in Nat
         /\ row \in [Paths -> Row]
<1>1. /\ job \in [Jobs -> Job] /\ row \in [Paths -> Row] /\ lastRun \in 0..MaxRuns
      /\ MaxRuns \in Nat
  BY DetectionAssumption DEF DigestsInv, DetectionTypeOK
<1>2. \A r \in Row : r.seenBy \in Nat
  BY <1>1 DEF Row, NoRow, RunId
<1>3. \A J \in Job : J.id \in Nat
  BY <1>1 DEF Job
<1> QED BY <1>1, <1>2, <1>3

\* A job goes on, under its own id.
LEMMA MarksStep ==
  ASSUME DigestsInv, MarksInv, NEW j \in Jobs, NEW J, job' = [job EXCEPT ![j] = J],
         J.id = job[j].id, J.mode = job[j].mode, job[j].pc # "idle",
         J.hand \subseteq J.met, job[j].met \subseteq J.met,
         J.pc = "applying" => J.mode = "sync",
         lastRun' = lastRun, job[j].id # 0, MarksOwn(j, J.met)
  PROVE  MarksInv'
<1>1. /\ job'[j] = J /\ \A k \in Jobs \ {j} : job'[k] = job[k]
      /\ lastRun \in Nat /\ \A k \in Jobs : job[k].id \in Nat
      /\ \A p \in Paths : row[p].seenBy \in Nat
  BY MarksFacts
<1>2. \A p \in Paths :
        \/ row'[p].seenBy \in {row[p].seenBy, 0}
        \/ row'[p].seenBy = job[j].id /\ (p \in J.met \/ job[j].mode = "sync")
  BY DEF MarksOwn, NoRow
<1>3. \A p \in Paths : row'[p].seenBy <= lastRun'
  BY <1>1, <1>2 DEF MarksInv
<1>4. ASSUME NEW k \in Jobs
      PROVE  /\ job'[k].id <= lastRun'
             /\ job'[k].hand \subseteq job'[k].met
             /\ job'[k].pc = "applying" => job'[k].mode = "sync"
             /\ \A i \in Jobs \ {k} : job'[k].id # 0 => job'[k].id # job'[i].id
  <2>1. job'[k].id = job[k].id /\ \A i \in Jobs : job'[i].id = job[i].id
    BY <1>1
  <2>2. CASE k = j
    BY <1>1, <2>1, <2>2 DEF MarksInv
  <2>3. CASE k # j
    BY <1>1, <2>1, <2>3 DEF MarksInv
  <2> QED BY <2>2, <2>3
<1>5. ASSUME NEW k \in Jobs, job'[k].pc # "idle", job'[k].mode = "scan-only",
             NEW p \in Paths \ job'[k].met
      PROVE  row'[p].seenBy # job'[k].id
  <2>1. CASE k = j
    <3>1. row[p].seenBy # job[j].id
      BY <1>1, <1>5, <2>1 DEF MarksInv
    <3> QED BY <1>1, <1>2, <1>5, <2>1, <3>1
  <2>2. CASE k # j
    <3>1. /\ job'[k] = job[k] /\ row[p].seenBy # job[k].id
          /\ job[j].id # job[k].id
      BY <1>1, <1>5, <2>2 DEF MarksInv
    <3>2. job[k].id # 0
      BY <1>5, <3>1, JobFacts
    <3> QED BY <1>2, <3>1, <3>2
  <2> QED BY <2>1, <2>2
<1> QED BY <1>3, <1>4, <1>5 DEF MarksInv

\* A run opens its row of sync_run: no mark bears its number yet.
LEMMA StartMarks ==
  ASSUME DigestsInv, MarksInv, NEW j \in Jobs, Start(j) PROVE MarksInv'
<1>1. PICK mode \in {"sync", "scan-only", "rebuild-db"} :
        job' = [job EXCEPT ![j] = [NoJob EXCEPT !.pc = "walking", !.mode = mode,
                                               !.id = lastRun', !.todo = Paths]]
  BY DEF Start
<1>2. /\ lastRun' = lastRun + 1 /\ row' = row
      /\ lastRun \in Nat /\ \A k \in Jobs : job[k].id \in Nat
      /\ \A p \in Paths : row[p].seenBy \in Nat
  BY MarksFacts DEF Start
<1>3. /\ job'[j].id = lastRun' /\ job'[j].hand = {} /\ job'[j].pc = "walking"
      /\ \A k \in Jobs \ {j} : job'[k] = job[k]
  BY <1>1, MarksFacts DEF NoJob
<1>4. \A p \in Paths : row'[p].seenBy <= lastRun /\ \A k \in Jobs : job[k].id <= lastRun
  BY <1>2 DEF MarksInv
<1>5. ASSUME NEW k \in Jobs
      PROVE  /\ job'[k].id <= lastRun'
             /\ job'[k].hand \subseteq job'[k].met
             /\ job'[k].pc = "applying" => job'[k].mode = "sync"
             /\ \A i \in Jobs \ {k} : job'[k].id # 0 => job'[k].id # job'[i].id
             /\ job'[k].pc # "idle" /\ job'[k].mode = "scan-only" =>
                  \A p \in Paths \ job'[k].met : row'[p].seenBy # job'[k].id
  <2>0. \A i \in Jobs : job[i].id <= lastRun /\ job[i].id # lastRun'
    BY <1>2 DEF MarksInv
  <2>1. CASE k = j
    BY <1>2, <1>3, <1>4, <2>0, <2>1
  <2>2. CASE k # j
    BY <1>2, <1>3, <2>0, <2>2 DEF MarksInv
  <2> QED BY <2>1, <2>2
<1>6. \A p \in Paths : row'[p].seenBy <= lastRun'
  BY <1>2 DEF MarksInv
<1> QED BY <1>5, <1>6 DEF MarksInv

\* A run ends.
LEMMA EndMarks ==
  ASSUME DigestsInv, MarksInv, NEW j \in Jobs, Finish(j) \/ Die(j) PROVE MarksInv'
<1>1. /\ job' = [job EXCEPT ![j] = NoJob] /\ row' = row /\ lastRun' = lastRun
      /\ lastRun \in Nat
  BY MarksFacts DEF Finish, Die
<1>2. /\ job'[j] = NoJob /\ \A k \in Jobs \ {j} : job'[k] = job[k]
      /\ NoJob.id = 0 /\ NoJob.hand = {} /\ NoJob.pc = "idle"
  BY <1>1, MarksFacts DEF NoJob
<1>3. ASSUME NEW k \in Jobs
      PROVE  /\ job'[k].id <= lastRun'
             /\ job'[k].hand \subseteq job'[k].met
             /\ job'[k].pc = "applying" => job'[k].mode = "sync"
             /\ \A i \in Jobs \ {k} : job'[k].id # 0 => job'[k].id # job'[i].id
             /\ job'[k].pc # "idle" /\ job'[k].mode = "scan-only" =>
                  \A p \in Paths \ job'[k].met : row'[p].seenBy # job'[k].id
  <2>1. CASE k = j
    BY <1>1, <1>2, <2>1
  <2>2. CASE k # j
    BY <1>1, <1>2, <2>2 DEF MarksInv
  <2> QED BY <2>1, <2>2
<1> QED BY <1>1, <1>3 DEF MarksInv

\* A job that walks, looks or hashes marks nothing.
LEMMA ReadingMarks ==
  ASSUME DigestsInv, MarksInv, NEW j \in Jobs, NEW p \in Paths,
         PassOver(j, p) \/ Stat(j, p) \/ Look(j, p) \/ Hash(j, p) \/ CannotRead(j, p)
  PROVE  MarksInv'
<1>1. /\ job[j] \in Job /\ job[j].pc # "idle" /\ row' = row /\ lastRun' = lastRun
      /\ job[j].id # 0
  BY MarksFacts, JobFacts DEF PassOver, Stat, Look, Hash, CannotRead
<1>2. PICK J :
        /\ job' = [job EXCEPT ![j] = J] /\ J.id = job[j].id /\ J.mode = job[j].mode
        /\ job[j].met \subseteq J.met /\ J.hand \subseteq J.met
        /\ J.pc = "applying" => J.mode = "sync"
  <2>1. job[j].hand \subseteq job[j].met
    BY DEF MarksInv
  <2>2. ASSUME NEW pc \in {"walking", "hashing", "storing"}, NEW f, Goto(j, p, pc, f)
        PROVE  \E J :
                 /\ job' = [job EXCEPT ![j] = J] /\ J.id = job[j].id /\ J.mode = job[j].mode
                 /\ job[j].met \subseteq J.met /\ J.hand \subseteq J.met
                 /\ J.pc = "applying" => J.mode = "sync"
    <3> DEFINE J == [job[j] EXCEPT !.pc = pc, !.found = With(j, p, f),
                                   !.hand = IF pc = "walking" THEN {} ELSE @]
    <3>1. /\ J.id = job[j].id /\ J.mode = job[j].mode /\ J.met = job[j].met /\ J.pc = pc
          /\ J.hand \subseteq job[j].hand
      BY <1>1 DEF Job
    <3>2. job' = [job EXCEPT ![j] = J]
      BY <2>2 DEF Goto
    <3> HIDE DEF J
    <3> QED BY <2>1, <3>1, <3>2
  <2>3. CASE PassOver(j, p)
    <3> DEFINE J == [job[j] EXCEPT !.todo = @ \ {p}]
    <3>1. /\ J.id = job[j].id /\ J.mode = job[j].mode /\ J.met = job[j].met
          /\ J.hand = job[j].hand /\ J.pc = "walking" /\ job' = [job EXCEPT ![j] = J]
      BY <1>1, <2>3, MarksFacts DEF PassOver, Job
    <3> HIDE DEF J
    <3> QED BY <2>1, <3>1
  <2>4. CASE Stat(j, p)
    <3> DEFINE J == [job[j] EXCEPT
                       !.pc = IF job[j].mode = "rebuild-db" THEN "hashing" ELSE "looking",
                       !.todo = @ \ {p}, !.hand = {p}, !.met = @ \cup {p},
                       !.found = With(j, p, [Nothing EXCEPT !.stat = tree[p]])]
    <3>1. /\ J.id = job[j].id /\ J.mode = job[j].mode /\ J.met = job[j].met \cup {p}
          /\ J.hand = {p} /\ J.pc # "applying"
      BY <1>1 DEF Job
    <3>2. job' = [job EXCEPT ![j] = J]
      BY <2>4 DEF Stat
    <3> HIDE DEF J
    <3> QED BY <3>1, <3>2
  <2>5. CASE Look(j, p)
    BY <2>2, <2>5 DEF Look, Afterwards
  <2>6. CASE Hash(j, p)
    BY <2>2, <2>6 DEF Hash, Afterwards
  <2>7. CASE CannotRead(j, p)
    BY <2>2, <2>7 DEF CannotRead, NextFile
  <2> QED BY <2>3, <2>4, <2>5, <2>6, <2>7
<1>3. MarksOwn(j, J.met)
  BY <1>1 DEF MarksOwn
<1> QED BY <1>1, <1>2, <1>3, MarksStep

\* Neither does a walk that ends, with a plan or with a report.
LEMMA PlanningMarks ==
  ASSUME DigestsInv, MarksInv, NEW j \in Jobs, EndWalk(j) \/ Report(j) PROVE MarksInv'
<1>1. /\ job[j] \in Job /\ job[j].pc # "idle" /\ row' = row /\ lastRun' = lastRun
      /\ job[j].id # 0 /\ job[j].hand \subseteq job[j].met
  BY MarksFacts, JobFacts DEF EndWalk, Report, WalkIsOver, MarksInv
<1>2. PICK J :
        /\ job' = [job EXCEPT ![j] = J] /\ J.id = job[j].id /\ J.mode = job[j].mode
        /\ job[j].met \subseteq J.met /\ J.hand \subseteq J.met
        /\ J.pc = "applying" => J.mode = "sync"
  <2>1. CASE EndWalk(j)
    <3> DEFINE found == [q \in Paths |-> IF row[q] # NoRow /\ q \notin job[j].met /\ tree[q] = Gone
                                         THEN [Nothing EXCEPT !.key = row[q].key]
                                         ELSE job[j].found[q]]
               J == [job[j] EXCEPT !.pc = "applying", !.found = found]
    <3>1. /\ J.id = job[j].id /\ J.mode = job[j].mode /\ J.met = job[j].met
          /\ J.hand = job[j].hand /\ job[j].mode = "sync"
      BY <1>1, <2>1 DEF Job, EndWalk
    <3>2. job' = [job EXCEPT ![j] = J]
      BY <2>1 DEF EndWalk
    <3> HIDE DEF J
    <3> QED BY <1>1, <3>1, <3>2
  <2>2. CASE Report(j)
    <3> DEFINE J == [job[j] EXCEPT !.pc = "reporting",
                                   !.missing = {q \in Paths : NotSeenIn(row[q], job[j].id)}]
    <3>1. /\ J.id = job[j].id /\ J.mode = job[j].mode /\ J.met = job[j].met
          /\ J.hand = job[j].hand /\ J.pc = "reporting"
      BY <1>1 DEF Job
    <3>2. job' = [job EXCEPT ![j] = J]
      BY <2>2 DEF Report
    <3> HIDE DEF J
    <3> QED BY <1>1, <3>1, <3>2
  <2> QED BY <2>1, <2>2
<1>3. MarksOwn(j, J.met)
  BY <1>1 DEF MarksOwn
<1> QED BY <1>1, <1>2, <1>3, MarksStep

\* A scan or a rebuild marks the file it has in hand.
LEMMA StoreMarks ==
  ASSUME DigestsInv, MarksInv, NEW j \in Jobs, NEW p \in Paths, Store(j, p) PROVE MarksInv'
<1> DEFINE J == [job[j] EXCEPT !.pc = "walking", !.found = With(j, p, Nothing), !.hand = {}]
<1>1. /\ job[j] \in Job /\ job[j].pc = "storing" /\ lastRun' = lastRun /\ job[j].id # 0
      /\ p \in job[j].met
  BY MarksFacts, JobFacts DEF Store, Holds, MarksInv
<1>2. job' = [job EXCEPT ![j] = J]
  BY DEF Store, NextFile, Goto
<1>3. /\ J.id = job[j].id /\ J.mode = job[j].mode /\ J.met = job[j].met /\ J.hand = {}
      /\ J.pc = "walking"
  BY <1>1 DEF Job
<1>4. MarksOwn(j, job[j].met)
  <2>1. row' = [row EXCEPT ![p] = Upserted(@, job[j].found[p], job[j].id)]
    BY DEF Store
  <2>2. row'[p].seenBy = job[j].id /\ \A q \in Paths \ {p} : row'[q] = row[q]
    BY <2>1, MarksFacts DEF Upserted
  <2> QED BY <1>1, <2>2 DEF MarksOwn
<1> HIDE DEF J
<1> QED BY <1>1, <1>2, <1>3, <1>4, MarksStep

\* A sync marks what it carries out.
LEMMA ApplyMarks ==
  ASSUME DigestsInv, MarksInv, NEW j \in Jobs, NEW p \in Paths, Apply(j, p) PROVE MarksInv'
<1> DEFINE J == [job[j] EXCEPT !.found = With(j, p, Nothing)]
<1>1. /\ job[j] \in Job /\ job[j].pc = "applying" /\ lastRun' = lastRun /\ job[j].id # 0
      /\ job[j].mode = "sync" /\ job[j].hand \subseteq job[j].met
  BY MarksFacts, JobFacts DEF Apply, MarksInv
<1>2. job' = [job EXCEPT ![j] = J]
  BY DEF Apply
<1>3. /\ J.id = job[j].id /\ J.mode = job[j].mode /\ J.met = job[j].met
      /\ J.hand = job[j].hand /\ J.pc = "applying"
  BY <1>1 DEF Job
<1>4. MarksOwn(j, job[j].met)
  <2>1. \/ row' = [row EXCEPT ![p] = Upserted(@, job[j].found[p], job[j].id)]
        \/ SameRow(j, p) /\ row' = [row EXCEPT ![p].seenBy = job[j].id]
        \/ row' = [row EXCEPT ![p] = NoRow]
        \/ row' = row
    BY DEF Apply
  <2>2. CASE row' = [row EXCEPT ![p] = Upserted(@, job[j].found[p], job[j].id)]
    <3>1. row'[p].seenBy = job[j].id /\ \A q \in Paths \ {p} : row'[q] = row[q]
      BY <2>2, MarksFacts DEF Upserted
    <3> QED BY <1>1, <3>1 DEF MarksOwn
  <2>3. CASE row' = [row EXCEPT ![p].seenBy = job[j].id]
    <3>1. row'[p].seenBy = job[j].id /\ \A q \in Paths \ {p} : row'[q] = row[q]
      BY <2>3, MarksFacts DEF Row, NoRow
    <3> QED BY <1>1, <3>1 DEF MarksOwn
  <2>4. CASE row' = [row EXCEPT ![p] = NoRow]
    BY <2>4, MarksFacts DEF MarksOwn
  <2>5. CASE row' = row
    BY <2>5 DEF MarksOwn
  <2> QED BY <2>1, <2>2, <2>3, <2>4, <2>5
<1> HIDE DEF J
<1> QED BY <1>1, <1>2, <1>3, <1>4, MarksStep

LEMMA MarksInitially == DetectionInit => MarksInv
BY DEF DetectionInit, MarksInv, NoJob, NoRow

LEMMA MarksAllAlong ==
  DigestsInv /\ MarksInv /\ [DetectionNext]_detectionVars => MarksInv'
<1> SUFFICES ASSUME DigestsInv, MarksInv, [DetectionNext]_detectionVars PROVE MarksInv'
  OBVIOUS
<1>1. ASSUME NEW j \in Jobs, Process(j) PROVE MarksInv'
  <2>1. CASE Start(j)
    BY <2>1, StartMarks
  <2>2. CASE Finish(j) \/ Die(j)
    BY <2>2, EndMarks
  <2>3. CASE EndWalk(j) \/ Report(j)
    BY <2>3, PlanningMarks
  <2>4. CASE \E p \in Paths : \/ PassOver(j, p) \/ Stat(j, p) \/ Look(j, p) \/ Hash(j, p)
                             \/ CannotRead(j, p)
    BY <2>4, ReadingMarks
  <2>5. CASE \E p \in Paths : Store(j, p) \/ Apply(j, p)
    BY <2>5, StoreMarks, ApplyMarks
  <2> QED BY <1>1, <2>1, <2>2, <2>3, <2>4, <2>5 DEF Process
<1>2. ASSUME UNCHANGED <<row, job, lastRun>> PROVE MarksInv'
  BY <1>2 DEF MarksInv
<1> QED BY <1>1, <1>2 DEF DetectionNext, Edit, Remove, Restore, detectionVars

\* Stats and digests belong together, and so do marks and runs, whatever overlaps.
THEOREM DetectionInvAlways == DetectionSpec => []DetectionInv
BY DigestsInvAlways, MarksInitially, MarksAllAlong, PTL DEF DetectionSpec, DetectionInv

\* Only a report makes a job report.
LEMMA OnlyReportReports ==
  ASSUME DigestsInv, [DetectionNext]_detectionVars, NEW j \in Jobs,
         job[j].pc = "walking", job'[j].pc = "reporting"
  PROVE  Report(j)
<1>1. job \in [Jobs -> Job]
  BY DEF DigestsInv, DetectionTypeOK
<1>2. job[j] # job'[j]
  OBVIOUS
<1>3. PICK k \in Jobs : Process(k)
  BY <1>2 DEF DetectionNext, Edit, Remove, Restore, detectionVars
<1>4. k = j
  BY <1>1, <1>2, <1>3 DEF Process, Start, EndWalk, Report, Finish, Die, PassOver, Stat, Look, Hash,
                          CannotRead, Store, Apply, Goto, NextFile
<1>5. ASSUME NEW p, NEW f, NEW pc \in {"walking", "hashing", "storing"}, Goto(j, p, pc, f)
      PROVE  job'[j].pc = pc
  BY <1>1, <1>5 DEF Goto, Job
<1>6. ~ \E p \in Paths : PassOver(j, p) \/ Stat(j, p)
  <2>1. job[j] \in Job
    BY <1>1
  <2>2. ASSUME NEW p \in Paths, PassOver(j, p) PROVE FALSE
    <3>1. job'[j].pc = job[j].pc
      BY <1>1, <2>1, <2>2 DEF PassOver, Job
    <3> QED BY <3>1
  <2>3. ASSUME NEW p \in Paths, Stat(j, p) PROVE FALSE
    <3>1. job'[j].pc \in {"hashing", "looking"}
      BY <1>1, <2>1, <2>3 DEF Stat, Job
    <3> QED BY <3>1
  <2> QED BY <2>2, <2>3
<1>7. ~ \E p \in Paths : Look(j, p) \/ Hash(j, p)
  BY <1>5 DEF Look, Hash, Afterwards
<1>8. ~ \E p \in Paths : CannotRead(j, p) \/ Store(j, p) \/ Apply(j, p)
  BY <1>1, <1>5 DEF CannotRead, NextFile, Store, Apply, Job
<1>9. ~ (Start(j) \/ EndWalk(j) \/ Finish(j) \/ Die(j))
  <2>1. job[j] \in Job
    BY <1>1
  <2>2. ~ (Start(j) \/ Finish(j) \/ Die(j))
    BY <1>1 DEF Start, Finish, Die, NoJob
  <2>3. ASSUME EndWalk(j) PROVE FALSE
    <3>1. job'[j].pc = "applying"
      BY <1>1, <2>1, <2>3 DEF EndWalk, Job
    <3> QED BY <3>1
  <2> QED BY <2>2, <2>3
<1> QED BY <1>3, <1>4, <1>6, <1>7, <1>8, <1>9 DEF Process

\* A scan reports every row whose file it has not met, although runs that overlap write the
\* same column (repository.py:328-342).
THEOREM MissingIsCompleteAlways == DetectionSpec => MissingIsComplete
<1>1. ASSUME DetectionInv, [DetectionNext]_detectionVars, NEW j \in Jobs, NEW p \in Paths,
             job[j].pc = "walking", job'[j].pc = "reporting", row[p] # NoRow, p \notin job[j].met
      PROVE  p \in job'[j].missing
  <2>1. Report(j)
    BY <1>1, OnlyReportReports DEF DetectionInv
  <2>2. job[j] \in Job /\ job \in [Jobs -> Job]
    BY <1>1 DEF DetectionInv, DigestsInv, DetectionTypeOK
  <2>3. job'[j].missing = {q \in Paths : NotSeenIn(row[q], job[j].id)}
    BY <2>1, <2>2 DEF Report, Job
  <2>4. row[p].seenBy # job[j].id
    BY <1>1, <2>1 DEF DetectionInv, MarksInv, Report
  <2> QED BY <1>1, <2>3, <2>4 DEF NotSeenIn
<1>2. DetectionInv /\ [DetectionNext]_detectionVars =>
        \A j \in Jobs, p \in Paths :
          /\ job[j].pc = "walking" /\ job'[j].pc = "reporting"
          /\ row[p] # NoRow /\ p \notin job[j].met
          => p \in job'[j].missing
  BY <1>1
<1> QED BY <1>2, DetectionInvAlways, PTL DEF DetectionSpec, MissingIsComplete
=============================================================================
