--------------------------- MODULE ChangeDetection ---------------------------
(***************************************************************************)
(* How an invocation decides whether to read a file: the stat columns of    *)
(* the `file' table, the digest kept beside them and last_seen_run_id,      *)
(* under invocations of every kind that overlap over one database while     *)
(* the tree is edited.                                                      *)
(*                                                                          *)
(* A version of a file is what (size, mtime_ns) identifies: an edit or a    *)
(* touch makes a new one, a restoration from a backup brings an old one     *)
(* back with its old mtime.  What the corpus does is left to SyncEngine.    *)
(***************************************************************************)
EXTENDS Integers

CONSTANTS
  Jobs,         \* processes that execute the program, one invocation after the other
  Paths,
  Digests,
  Torn,         \* the digest of a file that changed while it was read
  ContentOf,    \* ContentOf[v]: the digest of version v, the same at every path
  MaxVersions, MaxRuns  \* bounds: versions of a file, rows of sync_run

Versions == 1..MaxVersions
Gone == 0

ASSUME DetectionAssumption ==
  /\ MaxVersions \in Nat \ {0} /\ MaxRuns \in Nat
  /\ ContentOf \in [Versions -> Digests]
  /\ Torn \notin Digests

VARIABLES
  tree,      \* tree[p]: the version at p, or Gone
  newest,    \* newest[p]: the last version made of p
  spoiled,   \* history: spoiled[p], the versions replaced while they were being read
  row,       \* row[p]: the row of p, or NoRow
  job,       \* job[j]: the invocation that j executes
  lastRun    \* rows of sync_run so far

detectionVars == <<tree, newest, spoiled, row, job, lastRun>>

MaybeVersion == Versions \cup {Gone}
MaybeDigest == Digests \cup {Torn}
RunId == 1..MaxRuns

\* (size, mtime_ns), content_hash and last_seen_run_id; key, the id of the row, is the
\* run that inserted it.
NoRow == [key |-> 0, stat |-> Gone, hash |-> Torn, seenBy |-> 0]
Row == {NoRow} \cup [key: RunId, stat: Versions, hash: MaybeDigest, seenBy: RunId]

\* What a run knows of a path: the key of the row it met, stat and digest of the file.
\* A key without a stat is a row to delete.
Nothing == [key |-> 0, stat |-> Gone, hash |-> Torn]
Finding == [key: 0..MaxRuns, stat: MaybeVersion, hash: MaybeDigest]

\* hand is the file being looked at, met the files met so far, missing the scan's report.
NoJob == [pc |-> "idle", mode |-> "sync", id |-> 0, todo |-> {}, hand |-> {},
          found |-> [p \in Paths |-> Nothing], met |-> {}, missing |-> {}]

Job == [pc: {"idle", "walking", "looking", "hashing", "storing", "applying", "reporting"},
        mode: {"sync", "scan-only", "rebuild-db"}, id: 0..MaxRuns, todo: SUBSET Paths,
        hand: SUBSET Paths, found: [Paths -> Finding], met: SUBSET Paths,
        missing: SUBSET Paths]

DetectionInit ==
  /\ tree \in [Paths -> {Gone, 1}]
  /\ newest = [p \in Paths |-> 1]
  /\ spoiled = [p \in Paths |-> {}]
  /\ row = [p \in Paths |-> NoRow]
  /\ job = [j \in Jobs |-> NoJob]
  /\ lastRun = 0

\* p is the file that j has in hand.
Holds(j, p) == job[j].hand = {p}

With(j, p, finding) == [job[j].found EXCEPT ![p] = finding]

\* j moves on with what it now knows of p.
Goto(j, p, pc, finding) ==
  job' = [job EXCEPT ![j] = [job[j] EXCEPT !.pc = pc, !.found = With(j, p, finding),
                                      !.hand = IF pc = "walking" THEN {} ELSE @]]

\* Nothing more to do about p.
NextFile(j, p) == Goto(j, p, "walking", Nothing)

files == <<tree, newest, spoiled>>

-----------------------------------------------------------------------------
(* The walk: one file at a time *)

\* start_run.
Start(j) ==
  /\ job[j].pc = "idle"
  /\ lastRun < MaxRuns
  /\ lastRun' = lastRun + 1
  /\ \E mode \in {"sync", "scan-only", "rebuild-db"} :
       job' = [job EXCEPT ![j] = [NoJob EXCEPT !.pc = "walking", !.mode = mode,
                                               !.id = lastRun', !.todo = Paths]]
  /\ UNCHANGED <<files, row>>

\* Absent, excluded, rejected by a filter, in a directory that cannot be read, or,
\* for a rebuild, the path of no document.
PassOver(j, p) ==
  /\ job[j].pc = "walking"
  /\ p \in job[j].todo
  /\ job' = [job EXCEPT ![j].todo = @ \ {p}]
  /\ UNCHANGED <<files, row, lastRun>>

\* The stat comes first.
Stat(j, p) ==
  /\ job[j].pc = "walking"
  /\ p \in job[j].todo
  /\ tree[p] # Gone
  /\ job' = [job EXCEPT ![j] =
       [job[j] EXCEPT !.pc = IF job[j].mode = "rebuild-db" THEN "hashing" ELSE "looking",
                 !.todo = @ \ {p}, !.hand = {p}, !.met = @ \cup {p},
                 !.found = With(j, p, [Nothing EXCEPT !.stat = tree[p]])]]
  /\ UNCHANGED <<files, row, lastRun>>

\* A file that counts as changed only when its mtime is newer (used as a mutant).
MovedForward(r, stat) == r.stat < stat

\* content_changed: different, not just newer; a file without a row is always read.
Moved(r, stat) == r = NoRow \/ r.stat # stat

\* Where a run takes a digest it need not compute.
Afterwards(j) == IF job[j].mode = "sync" THEN "walking" ELSE "storing"

\* get_file_by_rel_path: the digest of the row is taken if the stat has not moved.
Look(j, p) ==
  LET f == [job[j].found[p] EXCEPT !.key = row[p].key] IN
  /\ job[j].pc = "looking"
  /\ Holds(j, p)
  /\ IF Moved(row[p], f.stat)
     THEN Goto(j, p, "hashing", f)
     ELSE Goto(j, p, Afterwards(j), [f EXCEPT !.hash = row[p].hash])
  /\ UNCHANGED <<files, row, lastRun>>

\* hash_file, which meets whatever is at p by now, or several versions of it.
Hash(j, p) ==
  LET f == job[j].found[p] IN
  /\ job[j].pc = "hashing"
  /\ Holds(j, p)
  /\ \E h \in IF tree[p] = f.stat THEN {ContentOf[f.stat]} ELSE MaybeDigest :
       Goto(j, p, Afterwards(j), [f EXCEPT !.hash = h])
  /\ UNCHANGED <<files, row, lastRun>>

\* OSError: reported as unreadable, not recorded.
CannotRead(j, p) ==
  /\ job[j].pc = "hashing"
  /\ Holds(j, p)
  /\ NextFile(j, p)
  /\ UNCHANGED <<files, row, lastRun>>

-----------------------------------------------------------------------------
(* What is written *)

\* upsert_file: the digest goes with the stat taken before it was computed.
Upserted(r, f, id) ==
  [key |-> IF r = NoRow THEN id ELSE r.key, stat |-> f.stat, hash |-> f.hash, seenBy |-> id]

\* The row as it was met is still there: statements by id touch no other.
SameRow(j, p) == job[j].found[p].key # 0 /\ row[p].key = job[j].found[p].key

\* A stat taken when the row is written (used as a mutant).
StoreWithFreshStat(j, p) ==
  /\ job[j].pc = "storing"
  /\ Holds(j, p)
  /\ tree[p] # Gone
  /\ row' = [row EXCEPT ![p] =
       Upserted(@, [job[j].found[p] EXCEPT !.stat = tree[p]], job[j].id)]
  /\ NextFile(j, p)
  /\ UNCHANGED <<files, lastRun>>

\* A mark in the name of whatever run is the latest (used as a mutant).
StoreForLastRun(j, p) ==
  /\ job[j].pc = "storing"
  /\ Holds(j, p)
  /\ row' = [row EXCEPT ![p] = Upserted(@, job[j].found[p], lastRun)]
  /\ NextFile(j, p)
  /\ UNCHANGED <<files, lastRun>>

\* A scan and a rebuild write each file before they go on to the next.
Store(j, p) ==
  /\ job[j].pc = "storing"
  /\ Holds(j, p)
  /\ row' = [row EXCEPT ![p] = Upserted(@, job[j].found[p], job[j].id)]
  /\ NextFile(j, p)
  /\ UNCHANGED <<files, lastRun>>

WalkIsOver(j) == job[j].pc = "walking" /\ job[j].todo = {}

\* A sync plans the deletion of the rows it did not meet and whose files are gone.
EndWalk(j) ==
  /\ WalkIsOver(j)
  /\ job[j].mode = "sync"
  /\ job' = [job EXCEPT ![j] = [job[j] EXCEPT !.pc = "applying", !.found =
       [p \in Paths |-> IF row[p] # NoRow /\ p \notin job[j].met /\ tree[p] = Gone
                        THEN [Nothing EXCEPT !.key = row[p].key]
                        ELSE job[j].found[p]]]]
  /\ UNCHANGED <<files, row, lastRun>>

\* engine.run: an action's first statement is the upsert of what the plan knew; a NOOP
\* only marks the row as seen; a resumption, or a deletion that fails, writes neither.
Apply(j, p) ==
  LET f == job[j].found[p] IN
  /\ job[j].pc = "applying"
  /\ f # Nothing
  /\ job' = [job EXCEPT ![j].found = With(j, p, Nothing)]
  /\ \/ /\ f.stat # Gone
        /\ row' = [row EXCEPT ![p] = Upserted(@, f, job[j].id)]
     \/ /\ f.stat # Gone /\ SameRow(j, p)
        /\ row' = [row EXCEPT ![p].seenBy = job[j].id]
     \/ /\ f.stat = Gone /\ SameRow(j, p)
        /\ row' = [row EXCEPT ![p] = NoRow]
     \/ f.key # 0 /\ UNCHANGED row
  /\ UNCHANGED <<files, lastRun>>

\* A report of what only earlier runs have seen (used as a mutant).
SeenOnlyBefore(r, id) == r # NoRow /\ r.seenBy < id

\* files_not_seen_in_run.
NotSeenIn(r, id) == r # NoRow /\ r.seenBy # id

\* A scan ends with the rows it did not see.
Report(j) ==
  /\ WalkIsOver(j)
  /\ job[j].mode = "scan-only"
  /\ job' = [job EXCEPT ![j] =
       [job[j] EXCEPT !.pc = "reporting", !.missing = {p \in Paths : NotSeenIn(row[p], job[j].id)}]]
  /\ UNCHANGED <<files, row, lastRun>>

\* finish_run.
Finish(j) ==
  /\ \/ WalkIsOver(j) /\ job[j].mode = "rebuild-db"
     \/ job[j].pc = "applying" /\ \A p \in Paths : job[j].found[p] = Nothing
     \/ job[j].pc = "reporting"
  /\ job' = [job EXCEPT ![j] = NoJob]
  /\ UNCHANGED <<files, row, lastRun>>

\* A crash, an error nobody catches, or a dry run, which stops when the plan is made.
Die(j) ==
  /\ job[j].pc # "idle"
  /\ job' = [job EXCEPT ![j] = NoJob]
  /\ UNCHANGED <<files, row, lastRun>>

-----------------------------------------------------------------------------
(* The user of the tree, at any time *)

BeingRead(p) ==
  {v \in Versions : \E j \in Jobs : /\ job[j].pc \in {"looking", "hashing"}
                                    /\ Holds(j, p)
                                    /\ job[j].found[p].stat = v}

Put(p, v) ==
  /\ tree' = [tree EXCEPT ![p] = v]
  /\ spoiled' = [spoiled EXCEPT ![p] = @ \cup (BeingRead(p) \cap {tree[p]})]

\* New content, or a touch: size or mtime is another than ever before.
Edit(p) ==
  /\ newest[p] < MaxVersions
  /\ newest' = [newest EXCEPT ![p] = @ + 1]
  /\ Put(p, newest[p] + 1)
  /\ UNCHANGED <<row, job, lastRun>>

Remove(p) ==
  /\ tree[p] # Gone
  /\ Put(p, Gone)
  /\ UNCHANGED <<newest, row, job, lastRun>>

\* A backup brings back a version with its mtime; not one that was replaced while it
\* was being read, whose stat may be stored with the digest of its successor.
Restore(p) ==
  /\ \E v \in 1..newest[p] : v # tree[p] /\ v \notin spoiled[p] /\ Put(p, v)
  /\ UNCHANGED <<newest, row, job, lastRun>>

-----------------------------------------------------------------------------

Process(j) ==
  \/ Start(j) \/ EndWalk(j) \/ Report(j) \/ Finish(j) \/ Die(j)
  \/ \E p \in Paths :
       \/ PassOver(j, p) \/ Stat(j, p) \/ Look(j, p) \/ Hash(j, p) \/ CannotRead(j, p)
       \/ Store(j, p) \/ Apply(j, p)

DetectionNext == \/ \E j \in Jobs : Process(j)
                 \/ \E p \in Paths : Edit(p) \/ Remove(p) \/ Restore(p)

DetectionSpec == DetectionInit /\ [][DetectionNext]_detectionVars

-----------------------------------------------------------------------------
(* Promises *)

DetectionTypeOK ==
  /\ tree \in [Paths -> MaybeVersion]
  /\ newest \in [Paths -> Versions]
  /\ spoiled \in [Paths -> SUBSET Versions]
  /\ row \in [Paths -> Row]
  /\ job \in [Jobs -> Job] /\ \A j \in Jobs : job[j].pc # "idle" => job[j].id # 0
  /\ lastRun \in 0..MaxRuns

\* A digest is that of its version, or the version will not be met again.
Sound(p, v, h) == h = ContentOf[v] \/ v \in spoiled[p]

FileInv(p) ==
  /\ tree[p] <= newest[p] /\ tree[p] \notin spoiled[p]
  /\ \A v \in spoiled[p] : v <= newest[p]
  /\ row[p] # NoRow => Sound(p, row[p].stat, row[p].hash)

\* The stat in hand is that of the file, or of a version spoiled since.
FindingInv(j, p) ==
  LET f == job[j].found[p]  inHand == job[j].pc \in {"looking", "hashing"} /\ Holds(j, p) IN
  /\ inHand => f.stat # Gone /\ (f.stat = tree[p] \/ f.stat \in spoiled[p])
  /\ ~inHand /\ f.stat # Gone => Sound(p, f.stat, f.hash)
  /\ job[j].pc = "storing" /\ Holds(j, p) => f.stat # Gone

\* Behind DigestIsCurrent: no digest, written or on its way, is paired with a stat under
\* which the file could show other content.
DigestsInv ==
  /\ DetectionTypeOK
  /\ \A p \in Paths : FileInv(p)
  /\ \A j \in Jobs, p \in Paths : FindingInv(j, p)

\* Behind MissingIsComplete: a mark belongs to one run, and a scan
\* marks no row of a file it has not met.
MarksInv ==
  /\ \A p \in Paths : row[p].seenBy <= lastRun
  /\ \A j \in Jobs :
       /\ job[j].id <= lastRun
       /\ job[j].hand \subseteq job[j].met
       /\ job[j].pc = "applying" => job[j].mode = "sync"
       /\ \A k \in Jobs \ {j} : job[j].id # 0 => job[j].id # job[k].id
       /\ job[j].pc # "idle" /\ job[j].mode = "scan-only" =>
            \A p \in Paths \ job[j].met : row[p].seenBy # job[j].id

\* The inductive invariant: stats and digests belong together, marks and runs do, as
\* long as Restore brings back no spoiled version.
DetectionInv == DigestsInv /\ MarksInv

\* The fast path is safe: whatever overlaps, is edited or touched, a row whose size and
\* mtime are those of the file has the digest of the file, so that "hashing catches both"
\* (README) a touched file and one restored with an older mtime.  One restoration is
\* excluded, and would make a stale digest permanent: of a version that was replaced
\* between a run's stat and its hash, with its old mtime (see Restore).
DigestIsCurrent ==
  \A p \in Paths : row[p] # NoRow /\ row[p].stat = tree[p] => row[p].hash = ContentOf[tree[p]]

\* A scan reports every row whose file it has not met as missing (schema.sql: "rows
\* whose last_seen_run_id is not the current run were not found on disk this time
\* round"), although runs that started later mark rows as well.
MissingIsComplete ==
  [][\A j \in Jobs, p \in Paths :
       /\ job[j].pc = "walking" /\ job'[j].pc = "reporting"
       /\ row[p] # NoRow /\ p \notin job[j].met
       => p \in job'[j].missing]_detectionVars
=============================================================================
