# verbatim-sync in TLA+

Specifications of `verbatim-sync`, the job that mirrors a directory tree into a
Verbatim corpus: modules that follow the code of `src/verbatim_sync/`, TLC
configurations that check them on small instances, and TLAPS proofs that hold
for every instance. Paths below are relative to the repository.

## 1. The system

| Part | State it keeps | Operations | What makes it correct |
|---|---|---|---|
| Planner (`sync/planner.py`) | none | walk, filter, hash, classify; plan deletions | NOOP only for what the corpus holds; a deletion only for a file that is gone |
| Sync engine (`sync/engine.py`) | the actions under way, one per file, in a pool of `sync.threads` workers | upload, replace, resume, delete, each a chain of remote calls and database statements | whatever stops it between two of them, the database does not claim more than is true, nothing is lost, and later runs finish the work |
| File table (`db/repository.py`, `db/schema.sql`, `db/models.py`) | one row per file: sync state, document id, hashes, stat columns | upsert, set document id / state / hash, delete | one document per row, one row per document |
| Corpus (`api/documents.py`; a remote service) | one document per id: status, bytes, metadata | init, re-init, PUT, commit, status, delete, list | what the engine relies on: 409 unless replaceable, idempotent commit, duplicate detection |
| Recovery (`engine.rebuild`, `--rebuild-db`) | none of its own | list the corpus page by page, write a row for each document whose file exists | after it, NOOP means what it meant before, as far as sizes tell, and no regular file is uploaded twice |
| HTTP client (`api/client.py`) | the attempt under way | request with retries and backoff, `put_file` without | a normal return is true, the single-use PUT is never repeated, every call ends |
| Bearer tokens (`api/auth.py`) | the cached token and its expiry, behind a lock | sign, reuse | no attempt bears a dead token before the reach of the refresh margin is over |
| Run bookkeeping (`cli.py`, `engine.run`, `sync_run`) | one row per invocation | start, finish with a verdict, find abandoned runs | the verdict is true of what the run leaves behind |
| Scan (`scan/walker.py`, `scan/filters.py`) | the directories still to be read and those visited | walk directories, match patterns, filter | every directory once, no loops, no file missed for an unreadable neighbour, nothing deleted that exists |
| Change detection (`_hash`, `run_scan`, stat columns of `file`) | size, mtime, digest and last run of each row | stat, compare, hash or reuse, store | a digest that is reused is that of the file |
| Migrations (`db/migrations.py`) | `user_version`, the objects of the schema | connect, migrate | the version never claims more than is there; replay is harmless |
| Configuration, logging, statistics, errors | none that matters | parse, format, report | not behaviour of the job |

A run is: `cli.run_sync` opens the database and a `sync_run` row, the planner
reads tree and database and writes nothing, the engine's workers apply the
actions, and `finish_run` closes the row. Workers share the database connection
(one lock, one autocommitted statement at a time), the token cache (one lock)
and the HTTP client. Between runs the only memory is the file table; the corpus
itself is the backup of its mapping, through the `sync_fullpath` metadata.

What is hard in this code:

* the tree is edited while the plan is computed, while it is applied, and
  between a transfer that was interrupted and the run that resumes it;
* every handler is a sequence of remote calls and database statements that can be
  cut anywhere: by a crash, by an error that `apply` does not catch, by a call
  that fails or whose answer is lost, by a poll that times out;
* the server has rules of its own (409 on re-init and on duplicates, single-use
  URLs, ingestion that ends later or fails);
* several workers do all this at once;
* recovery reads, page by page, a corpus that can change, and can itself be
  interrupted;
* a file is looked at, hashed and recorded in separate steps, by runs of several
  kinds that may overlap;
* the tree has links that form cycles and directories that cannot be read;
* migrations run without a transaction, in every process that starts.

The list, with lines and with the properties that watch each item, is under
`hazards` in `PROJECT.json`.

## 2. The modules

```
Corpus <- Repository <- Planner <- SyncEngine <- SyncProperties <- SyncInvariant

SyncInvariant <- SyncReplica (INSTANCE Replica) <- MCSync
SyncInvariant <- Ledger;  MCSync, Ledger <- MCLedger
SyncProperties <- Recovery <- MCRecovery
SyncInvariant <- SyncProofs;  SyncReplica, SyncProofs <- SyncPromises
Ledger, SyncPromises <- LedgerProofs;  Recovery, SyncPromises <- RecoveryProofs

ApiClient       <- MCApiClient,       ApiClientProofs
ChangeDetection <- MCChangeDetection, ChangeDetectionProofs
Migrations      <- MCMigrations,      MigrationsProofs
Scan            <- MCScan,            ScanProofs
```

The first group is the job; the other four are components it stands on, whose
guarantees it assumes: calls that return are true (ApiClient), a visit knows the
content of a file (ChangeDetection), a walk meets what it should (Scan), the
tables are there (Migrations).

**Corpus** is one remote document as a record with operators for what each call
does to it. The server is not in the repository: the operators follow what
`DocumentsApi` says of the calls and what `FakeBackend` in `tests/conftest.py`
does, where the two speak. `blob` (bytes PUT) and `content` (bytes committed) are
kept apart, because the difference between them is what half of the engine is
about. The statuses PENDING and PROCESSING are one, since no code tells them
apart.

**Repository** is one row and its writes. A row keeps the columns that decide
what a later run does: `sync_state`, `document_id`, `synced_hash`. A hash *is*
the content (SHA-256 taken to be injective). Left out are columns that no
decision reads (`remote_status`, `attempts`, `last_error`, timestamps), the stat
columns behind the re-hash shortcut, and `upload_url`, which is set together with
`document_id` and read only in PENDING_UPLOAD.

**Planner** has `Classify` (`_classify`) and `IsGone` (`_plan_deletions`).

**SyncEngine** is the job. `disk`, `rows` and `docs` are the tree, the file table
and the corpus; `phase`, `unvisited` and `seen` are the run; `task[p]` is the
action on `p` and where its handler stands. A handler is one step per remote
call and per database statement:

| Handler in `engine.py` | Steps |
|---|---|
| `_upload` | StartUpload, InitUpload, StoreDocument, StorePending, Push, StoreUploaded, CommitDocument, ... |
| `_replace` | StartReplace, ReinitUpload, then as above; or ReinitRefused and InitUpload |
| `_resume` | StartResume, to Finalise, the commit, the push or the re-init (`ResumesAt`) |
| `_commit_and_finalise`, `_finalise`, `_poll` | CommitDocument, StoreCommitted, StoreSyncedHash, Finalise, PollReady / PollTimesOut / PollFails; CommitDuplicate; MarkHash, MarkState |
| `_delete` | StartDelete, DeleteDocument, ForgetRow |
| `apply`'s `except` | Fail, inside PushFails, CommitFails, PollFails, CallFails |

Statements that change only columns which are not modelled (`clear_upload_url`,
`reset_attempts`, events) have no step. `Dequeue` follows `as_completed` over a
FIFO pool: the order of the plan among non-deletions is not fixed, since the walk
has none, and deletions come last. The file is opened in `_push`, so `Push` reads
`disk` then, while `hash` is that of the walk. A URL that may or may not have
expired, and a poll that may or may not have waited long enough, are
nondeterministic. The environment is a set of mishaps (`Faults`): `unreadable`
files, `call` (the client gives up; the request may have taken effect), `retry`
(the answer is lost and the client sends the request again), `abort` (an
exception `apply` does not catch; with one worker it ends the run's other actions
too), `crash`, `ingest` (ingestion fails), `backoffice` (somebody deletes a
document).

**SyncProperties** are the promises, **SyncInvariant** the inductive invariants: `Inv`
holds in any environment, `HonestInv` and `InPlaceInv` extend it in the environments
`HonestEnvironment` and `GentleEnvironment`, which are conditions on the constants.

**Replica** is what the job promises, without runs, rows, documents or workers:
for each path a file, the bytes staged in the corpus, the contents the corpus
holds, and whether the run under way has found the file missing. Bytes are staged
only out of the file as it is; a content is published only from what is staged;
content is lost to a newer one, to a file that is missing, or to other hands.
**SyncReplica** maps the job onto it: `staged` is what has been PUT into documents
whose metadata names the path, `holds` what was committed in them, `missing` is
`vanished \ seen`. `ImplementsReplica` is the abstract specification under this mapping.

**Ledger** is `run_sync` around the engine: every step of SyncEngine joined with
what it does to the `sync_run` row and to the failures of the run. `Begin` is
`start_run`, `BeginInVain` an error before the `try` (the row stays RUNNING),
`CannotHash` fills `plan.unreadable`, `Apply` adds the path of a handler that raised what
`apply` catches, `ApplyRaises` and `PlanRaises` are what it does not, `Finish` writes
`Verdict`. `touched` remembers what the user edited since the run began.

**Recovery** adds the loss of the database and `--rebuild-db`: `ListPage`
(`iter_all`, numbered pages of the corpus as it is at that moment, in the order of the
documents' `Rank`), then per document
`SkipOutside`, `SkipMissing`, `SkipUnreadable`, or the statements `RestoreRow`,
`RestoreDocument` (or `RestoreRefused`, by the unique index), `RestoreHash`, `RestoreState`.
The constant function `links` is `Path.resolve`: a run files a document under the path it met the file
under (`FullPath`), a rebuild writes the row of the path that leads to (`Target`,
`relative_to_root`), which is another one, or none of the tree, when the path goes through a
symbolic link, as paths do with `follow_symlinks`. `RebuildDies` is any other error or
crash. With `Careful` the operator rebuilds before the next sync and once the
corpus has settled; without it, whenever no run is under way, also over an
intact database. Every sync step of SyncEngine remains possible around it.

**ApiClient** is one level below: how a single call is made. Threads take the
token under the lock (`Enter`, `Reuse`, or `Sign` and `Stamp`), send, and receive
an answer, give up waiting, or back off and try again with fresh headers. A wait has no
limit: httpx applies `timeout_ms` (`client.py:43-47`) to connecting, to writing and to each read
separately, so one attempt can take several times as long. The
server executes or rejects a request at any time, also after the client has gone,
and a gateway may spoil the answer of a request that was executed. Time is in
half seconds, because the token is stamped in whole ones.

**ChangeDetection** is what SyncEngine leaves out of a visit: `Stat` (the walker),
`Look` (the row, and the digest reused when nothing `Moved`), `Hash`, then `Store` (a scan or
a rebuild) or, when the plan is made, `Apply` (the first statement of the engine). Processes
execute invocations of any mode, one after the other and overlapping, over one
database; a dry run is a sync that dies with its plan. A version of a file stands for its `(size, mtime_ns)`: `Edit` makes a
new one (a touch is an edit to the same content), `Restore` brings an old one back,
as a backup does. Two assumptions are built in: an edit that changes neither size nor
mtime is outside the model, and a version that was replaced while somebody was
reading it (`spoiled`) is not restored with its old mtime.

**Scan** is the walk with its stack, entry by entry in any order, over an arbitrary
directory graph with links and permissions; `follow`, `exclude`, `include` as in the
code, and then `_plan_deletions` with what `Path.exists` answers (below Python 3.14:
it raises when a directory may not be searched). A path is a sequence of names; a pattern
is a name at the root or, with `**/`, at any depth, and covers what lies below. The trees
are those a file system can hold: without its links it is a forest (`ForestAssumption`; bind
mounts and hard-linked directories aside). The
tree does not change during a walk here; SyncEngine has the edits.

**Migrations** is `connect` and `migrate` statement by statement: the script of
migration 001 as a number of `IF NOT EXISTS` statements, `PRAGMA table_info`, `ALTER TABLE` and
`CREATE INDEX` of 002, and the `PRAGMA user_version` after each. `Checkpoint` and
`PowerFailure` are the write-ahead log with `synchronous = NORMAL`: a power failure takes the
database back to the last checkpoint.

## 3. What is checked

Every run is a configuration of an `MC*` module; `PROJECT.json` gives for each
property a mutant of a definition that models code (a dropped check, a swapped
order, a missing retry) under which TLC finds it violated.

| Run | Environment | Properties |
|---|---|---|
| `robust` | 2 files, 2 workers, poll off, duplicates detected, 2 edits at any instant, any 1 mishap, one content the filters reject | MappingMatchesMetadata; StateIsBacked; Inv (TypeOK is part of it); RowForgottenAfterDocument; OnlyVanishedFilesAreDeleted; ImplementsReplica |
| `honest` | 2 files, 2 workers, poll on, an edit of a settled file, any 1 mishap but a backoffice deletion; with the books of the run | NoopIsHonest; SuccessMeansHeld; VerdictIsTrue; NoopIsCounted; HonestInv; LedgerInv |
| `inplace` | 2 files, 2 workers, 2 edits between runs, unreadable files and failed ingestions | NoOrphans; UidIsStable; InPlaceInv |
| `converge` | 2 files, 2 workers, any start of the tree, 1 mishap, fair | Convergence; RunsEnd |
| `recovery_loss` | 1 file, an edit that may keep its length, a loss, up to 2 rebuilds, a mishap in a rebuild or a run, fair | HonestAfterRecovery; Recovers |
| `recovery_mapping` | 2 files, no link, or one that leads to the other file or out of the tree; pages of one, careless operator, deletions switched off | MappingLeadsToFile; ListingIsComplete; RebuildRestoresMapping |
| `client` | 2 threads with a call each, one retry, one renewal of the token, fair | ClientInv; TokenMatchesExpiry; RequestsBearLiveTokens; OutcomeIsTrue; NoEarlySurrender; CallsEnd |
| `detection` | 2 processes, 3 runs, one file with 3 versions, the third with the content of the first | DetectionInv; DigestIsCurrent; MissingIsComplete |
| `scan` | 24 trees, 16 permissions, links followed or not, 3 exclude and 2 include lists, fair | ScanInv; ListedOnce; WalkIsExact; KeepsWhatExists; WalkEnds |
| `migrations` | 3 processes, a database at any version, 2 deaths or power failures, fair | MigrationsInv; VersionIsEarned; ReadyIsComplete; EveryoneGetsReady |

What they show, in words:

* Whatever fails and whenever the tree is edited, the row of a file names only
  documents made for that file, claims only progress the corpus has made, and is
  forgotten only after its document is; and no run deletes anything for a file
  it has seen, cannot read, or filters out.
* If files are edited only when the corpus has settled on them, NOOP is never a
  lie; and after any single mishap repeated runs make the corpus mirror the tree.
* Without failed calls a file keeps its document id and no document is orphaned.
* The database can be lost at a quiet moment and rebuilt, with interruptions. A row then still
  names a document of its own file, and every file that is no link finds a living document of its own
  again. NOOP, and what repeated runs bring about, then mean a document whose content has
  the *size* of the file, since sizes are all a rebuild compares (`engine.py:595`): a file that was
  replaced by another of the same length between the last run before the loss and the rebuild is a
  NOOP from then on, with the old content in the corpus.
* The job is a one-way replica: nothing gets into the corpus but bytes of the file
  they are filed under, nothing gets out for a file that is there.
* The exit code and the row of a run are true: after a SUCCESS nothing is left to do
  but wait for ingestion, unless the user has been there since; a FAILED names a file
  that is left to do, cannot be read, or was edited meanwhile. Where files are edited only
  when the corpus has settled on them, it also has the present content of every accepted file
  after a SUCCESS (`SuccessMeansHeld`). What `--stats` counts as pending or failed is never what
  the planner leaves alone.
* Whatever runs overlap and whatever is edited, touched or restored in between, no
  digest is reused that is not the digest of the file, with one restoration left out: a version
  that was replaced between a run's stat and its hash, and comes back with its old mtime, does meet the
  digest of its successor, for good.
* A token lives at least for the margin of 60 s, less the second of rounding and the delay between
  reading the clock and sending, from the start of each attempt, retries included.
* A link, a cycle, an unreadable directory or entry costs the walk nothing else, and
  nothing is planned for deletion that exists.
* Several processes can migrate one database at once and die at it: the version
  never runs ahead of the schema, although it may be written backwards.

### Violations

Two runs show where the program falls short of what it says of itself. Each is
a short trace that the code follows step by step.

* `v_resume_after_edit`: a poll times out, the file is edited, and the resumption
  records the hash of the new content without ever sending it
  (`engine.py:230-241`, `462`), so that the edit is never uploaded.
* `v_duplicate_copy`: of two files with one content, the server refuses the second as
  a duplicate of the document of the first, and it is recorded as synced; then the first is removed,
  the next run deletes its document, and the other is a NOOP from then on (`engine.py:346-358`).
  With two edits instead of one the same follows a rename, within a single run: the new path
  is refused, and then the document of the old one is deleted.

Two more were found, by checking properties that are not part of the modules any more:

* with `poll_status = false`, an edit during ingestion has its re-init refused and
  moves the file to a second document; the first is named by no row and stays in the corpus after the
  file is deleted (`engine.py:203-212`, against `README.md:121`);
* a crash between the deletion of a document and that of its row, and the file comes
  back unchanged before the next run: it is a NOOP from then on, with nothing in the
  corpus (`engine.py:275-294`, against `README.md:266`).

Met while modelling and not kept as runs: a file edited between the plan and its
push is recorded with the hash of the plan (`engine.py:325`), which
`EditWhen = "anytime"` instead of `"betweenRuns"` shows in the first of these
runs; with `poll_status = false` a failed ingestion is never retried
(`engine.py:379-381`, against `README.md:351-352`); when the answer to a re-init
is lost, the next one is refused and the file changes its document id
(`engine.py:203`, against `README.md:36`), which is why `inplace` has no `call` among its
faults; a document deleted while `iter_all` pages shifts the listing and another
is missed (`documents.py:238-245`), which is why `recovery_mapping` has no
`backoffice`; and a rebuild that meets a document initialised but never committed
takes its unknown size for a match (`engine.py:595`, accepted by
`tests/test_sync.py:617`), which is why `HonestAfterRecovery` and `Recovers` are checked with a
careful operator. One was met while proving it: of two documents with one path, left by a lost answer
or a crash, a rebuild restores the first and dies between the id and the hash of the second
(`engine.py:590-598`); when it is repeated the file cannot be read for either, and the row is left
SYNCED with the hash of the one and the id of the other (`engine.py:574-577`). `recovery_loss`, which
allows one mishap, does not meet it; with `MaxMishaps = 4` it does, and the theorem takes every file
for readable.

A rebuild does not find every file again that a run has filed. With `follow_symlinks` the walk yields
paths that go through links, and a run files a document under such a path (`engine.py:174`); a rebuild
resolves it first (`engine.py:549`, `planner.py:267-272`). The document of a link then goes into the row
of the file the link leads to, whichever of the two documents is listed last stays there, and the
link has no row, so that the next run uploads it again; or the link leads out of the
tree, and its document is skipped. Over an intact database the row of the link still has the
document, and the unique index (`schema.sql:84`) ends the whole rebuild with an
IntegrityError (`RestoreRefused`). `MappingLeadsToFile`
says what is true nevertheless, and `RebuildRestoresMapping` speaks of paths that are no links. Links
do not change in the model, and the two paths of one file have contents of their own, which
allows more than can happen.

Sizes are compared and nothing else: an edit that keeps the length, between the last run before a
loss and the rebuild, is never uploaded. `HonestAfterRecovery` and `Recovers` say
what sizes can tell (`ServesAlike`), and `recovery_loss` has two contents of one size and a third of another.

About scan and change detection: with `follow_symlinks`, a directory that is
reached by two paths is read under whichever is popped first (`walker.py:82-96`), so the
`rel_path` of its files depends on the order of the entries, an include or an anchored
exclude pattern may lose them altogether, and the row under the other path stays out of scope for
ever, since that path exists; `walker.py:71` promises "every file under `root_dir`", and
`WalkIsExact` is stated per directory for this reason. A path that comes back to the root
through a link is never descended into, since the root is in `visited` by then; an anchored
exclude that covers `x` does not cover `back/x`, and yet nothing below `x` is read: `Reachable`
leaves such paths out, and what the user excluded stays excluded. A root whose file system is
not mounted is an empty directory (`config.py:294-297` asks only that it exists), and
everything is deleted. From Python 3.14 on, `Path.exists` answers False where it used to raise
for a directory that may not be searched, and a file that is there would be deleted
(`planner.py:206`, against `planner.py:197`). "Missing locally" in the report of a scan
also lists files that are filtered, unreadable or were seen by an overlapping run
(`repository.py:328`): `MissingIsComplete` states only the other direction. `content_hash` is
not "refreshed on every scan" (`README.md:350`, `models.py:107`) by a sync that finds a
NOOP: it only marks the row as seen (`engine.py:439-441`), so that a touched file is hashed again by
every later run.

About the books: `NoopIsCounted` is about sync runs, since `Ledger` has no rebuild; one that is killed between
`set_synced_hash` and `set_sync_state` (`engine.py:598-599`) leaves a new row in NEW
with hash and document: the planner takes it for synced, `--stats` for pending. An error before the `try` (`cli.py:459`) leaves the row RUNNING although nothing
died, and each later run warns of it (`repository.py:174`); a run that ends in an
exception writes zero counters (`cli.py:514`), and as it is finished these shadow the
excluded figure of `--stats` (`repository.py:392-406`), which
`tests/test_stats.py:103` rules out for rebuilds only.

### Bounds

Two files are enough for everything the engine shares between files: the pool,
the unique document id, duplicates, deletions after other actions. Two contents
tell the old version of a file from the new one; `JustOne` is used where only
presence matters. The document ids (`FourDocs`, `FiveDocs`) are chosen so that
the server never runs out: deadlock checking is on in the job's runs and would
show it. `MaxMishaps` and `MaxEdits` bound the environment, never the program;
two of each, as in `robust` or `inplace`, reach the cases where a second event hits the recovery
from the first. `MaxCalls`, `MaxTime` in ApiClient bound calls and clock; a token
of three seconds and a margin of two and a half (`TTL` 6, `Margin` 5, `Slack` 1, in half seconds, with `MaxTime` 6) fit one renewal into that time, and waits that outlive the token, and since its
behaviours end with the last call, deadlock is not checked there. `MaxLosses`
and `MaxRebuilds` bound the operator: a loss, a rebuild that is interrupted and one
that is not, or one over an intact database. In `recovery_loss` `c1` and `c2` have one size and `c3` another, which is an edit
a rebuild notices and one it does not (97,100 states); the links of `recovery_mapping` are none,
`p1` to `p2`, or `p2` out of the tree, and it reaches aliases that are
restored, a refusal by the index, and two documents of one path (3.1 million states). Symmetry in files and document ids is used
only in runs of safety properties, and not with a listing order.

In ChangeDetection two processes and three runs are one overlap and a run after it;
three versions with two contents are an edit, a touch and a restoration. `MaxRuns`
and `MaxVersions` stop the behaviours, so deadlock is not checked there. In Scan three
directories make a chain, a cycle and a way out of the tree and back; the patterns
exclude a directory, a name at any depth, or nothing. In Migrations three processes
are one that is ahead, one behind and one that dies; `ScriptLength` is three because the
statements of the script are alike; that it ends with everybody ready or refused is no
deadlock.

### Fairness

`Fairness` of SyncEngine: cron starts runs again and again (`StartRun`), a
process that is not killed takes its next step (`Visit`, `PlanDeletions`, `Work`,
`EndRun`), and the server finishes what it ingests (`Ingest`). It is weak
fairness per file, since the pool serves every action in turn and a worker is
never blocked by another one for longer than a handler takes. Nothing is assumed of mishaps,
edits or the backoffice. Recovery adds that a database that was lost is rebuilt.
ApiClient: a thread that can run does, and an attempt is answered or given up in the
end: nothing else is assumed of the server, but one that keeps an attempt alive for ever, a few bytes within every
`timeout_ms`, is left out. Scan: the walk goes on, in whatever order. Migrations: a live process executes its next
statement, and cron starts a dead one again. Ledger, ChangeDetection and the proofs
state no fairness: their properties are about safety.

### Two assumptions worth knowing

* `auth.py:47-48` re-signs a token 60 s before it expires "so a long run never presents a
  token that lapses mid-request". `RequestsBearLiveTokens` is what that margin gives:
  a token that lives until `Reach` after the attempt began, the margin less a second of rounding and the delay
  of the thread. The length of an attempt is not bounded by it: `timeout_ms` (5000 by default,
  60000 in the example configuration) has no upper limit, and httpx applies it per connection attempt, write and
  read (`client.py:43-47`), so an attempt that is waited for longer than the margin can bear a token that has lapsed
  before the answer, or before the server reads it.
* In SyncEngine a request that nobody waits for any more takes effect when it is
  given up or never. ApiClient allows it later; the two are not composed yet.

## 4. What is proved

For every value of the constants that the named assumptions allow, TLAPS proves:

| Specification | Theorems | State |
|---|---|---|
| `Spec` (SyncEngine) | `SyncProofs!TypeCorrect`, `InvAlways`, `StateIsBackedAlways`, `MappingMatchesMetadataAlways`, `RowForgottenAfterDocumentAlways`, `OnlyVanishedFilesAreDeletedAlways` | the properties of the same names, in any environment |
| | `SyncPromises!SteadyAlways` | in any environment: what ingestion has is what was sent last, and a handler knows its row |
| | `SyncPromises!HonestInvAlways`, `NoopIsHonestAlways` | assuming `HonestEnvironment`: NOOP is never a lie |
| | `SyncPromises!InPlaceInvAlways`, `NoOrphansAlways`, `UidIsStableAlways` | assuming `GentleEnvironment`: no orphan, and one document id per file |
| | `SyncPromises!ImplementsReplicaAlways` | `Spec => R!ReplicaSpec` |
| `RecoverySpec` | `RecoveryProofs!MappingSurvivesRecovery` | MappingLeadsToFile, in any environment, under any operator and with any links |
| | `RecoveryProofs!ListingIsCompleteAlways` | assuming no backoffice deletions |
| | `RecoveryProofs!RebuildRestoresMappingAlways` | assuming no backoffice deletions, no edits during a job, and readable files; with any links |
| | `RecoveryProofs!CarefulInvAlways` | assuming `Careful` and `NoAliases`: rows and documents fit together at every statement of a rebuild |
| | `RecoveryProofs!HonestAfterRecoveryAlways` | assuming `HonestRecovery`: NOOP is not a lie after a rebuild either, as far as sizes tell |
| `LedgerSpec` | `LedgerProofs!LedgerInvAlways`, `VerdictIsTrueAlways`, `NoopIsCountedAlways` | the verdict of a run is true |
| | `LedgerProofs!HonestLedgerAlways`, `SuccessMeansHeldAlways` | assuming `HonestEnvironment`: after a SUCCESS the corpus has the tree |
| `ClientSpec` | `ApiClientProofs!ClientInvAlways`, `TokenMatchesExpiryAlways`, `RequestsBearLiveTokensAlways`, `OutcomeIsTrueAlways`, `NoEarlySurrenderAlways` | all safety properties of ApiClient |
| `DetectionSpec` | `ChangeDetectionProofs!DetectionInvAlways`, `DigestIsCurrentAlways`, `MissingIsCompleteAlways` | no stale digest is reused; a scan reports all it has not met |
| `ScanSpec` | `ScanProofs!ScanInvAlways`, `ListedOnceAlways`, `KeepsWhatExistsAlways`, `WalkIsExactAlways` | all safety properties of Scan |
| `MigrationsSpec` | `MigrationsProofs!MigrationsInvAlways`, `VersionIsEarnedAlways`, `ReadyIsCompleteAlways` | the version is earned |

The assumptions are those declared with the constants: `NoContent`, `NoPath` and
`NoDoc` are none of the values they stand beside (`NoContentAssumption`,
`NoPathAssumption`, `NoDocAssumption`), and the switches and bounds have their
types; in ApiClient tokens live for whole seconds and at least for the margin, which the least
`token_ttl_minutes`, 1, gives (`ClientAssumption`): nothing is assumed of the length of a wait; in Scan the directories are finitely many and form a forest
(`ScanAssumption`, `ForestAssumption`); in Recovery the documents are finitely many and ranked
without ties, no size is `NoSize`, and what a path resolves to has no link left in it (`ListingAssumption`, `SizeAssumption`, `LinksAssumption`). `HonestEnvironment` and `GentleEnvironment` are hypotheses
of the theorems that need them, and the constants of the runs `honest` and `inplace` satisfy
them: the first forbids edits of a file the corpus is busy with, backoffice deletions, duplicate
detection and `poll_status = false`, and allows every failure of a call, a worker or a process;
the second allows edits between runs, unreadable files and failed ingestions. `HonestRecovery` adds to
the first that the operator is careful, that every file can be read, and that no path leads to
another (`NoAliases`, which `follow_symlinks = false` ensures); contents may share their sizes. Without them
the properties are false of the code (section 3, Violations). The model's own abstractions remain: injective hashes, one run at a time,
statements that are atomic and durable.

The argument. The promises are not inductive: what a step writes into a row it takes from
the worker's task, and what a later step concludes from a row depends on the
document. `Inv` therefore says how the three fit: ids in rows and tasks name
documents of the same path (`OwnsDocument`), a queued action fits the row it was
planned from (`PlanFits`), a handler about to record progress has made it
(`HandlerIsBacked`), a row claims nothing more (`RowIsBacked`), and deletions are
queued only for files missed in this run (`DeletionIsDue`). Ownership makes the
proof modular: a step of `p`'s handler touches only documents of `p`, so the
invariant of any other file follows from lemma `Frame` and each action
re-establishes `PathInv(p)` alone. `Emptying` is the crux of `HandlerIsBacked`:
init and re-init empty a document, and the code reaches them only with a row that
is neither UPLOADED nor COMMITTED. The action properties follow from `Inv`, since
only `ForgetRow` turns a row into none.

`NoopIsHonest` needs to know more than who owns what: that what a row, a task and a document say
of a content is said of the file as it is. `Steady` gives the part that no environment
can spoil: ingestion has what was sent last (`ContentIsSent`), each step of a handler runs over a
row in a known state (`RowAtStep`), and a row without progress has no synced hash
(`NothingSent`). Then, if nobody edits an unsettled file, tasks are about the
file on disk (`TaskIsExact`), an UPLOADED or COMMITTED row has sent or committed that file
(`RowIsExact`), and the two statements that end a handler find the document READY
(`StepIsExact`). The crux is `WouldSkip`: the document of a file a run would leave alone is not the one a
handler is about to empty. A lost answer, an abort or a crash removes a task and leaves
the row at a step `RowIsExact` covers.

`NoOrphans` and `UidIsStable` rest on where a file is between handlers (`Resting`: no row, or a
document that is ingested, settled or failed) and on the server having no reason to refuse
(`Smooth`): a new document is made only for a row without one, and a re-init finds its document
replaceable. `Remembered` then follows each living document from the task that made it
to the row that names it.

Refinement: each step of the engine is one step of Replica on the path it works
for, or a stutter. `Push` stages, the two commits publish, init and re-init unstage,
`DeleteDocument` withdraws, and needs `Inv` for it: the deletion is due, so the
path is missing. `Publish` may replace one earlier content, since a document holds one; that
other paths are untouched is ownership again.

The verdict is not inductive either: it speaks of what is left when the tasks are
gone. `LedgerInv` adds what each task knows (`TaskIsCurrent`: it is about the file as it
is, unless touched), that rows keep up with handlers (`RowKeepsUp`), that the walk
gave a task to all that needs one (`WalkIsCurrent`), and that a path loses its task
either with nothing left to do or on the failure list (`DoneOrBooked`).

ApiClient's invariant is a calculation with deadlines: a thread that has a token in
hand is at most `Slack` behind the clock until it sends, and the token
lives longer than that and `Reach` from the moment the clock was read, either because the cached
one passed the margin or because it is fresh and its stamp lags by less than a second.
`DetectionInv` pairs stat and digest: in hand, in a finding or in a row, a digest is that of its version,
or the version was spoiled and will not be met again (`DigestsInv`); and `MarksInv` gives each run its own number in
`last_seen_run_id`, which no other run can write, so that a row without it was not met. `MigrationsInv` says what each process knows
from the statements it has executed, which no statement of another takes away.

`ScanInv` is a loop invariant of the walk: what has been read was found and may be read, every name of
a directory read is still to be looked at or has been turned into what it is worth
(`NothingLost`, `NothingInvented`), and `visited` is what was read (`KnowsWhatItRead`). What
a path leads to is a recursive function on its length; the lemmas `LookupAppend` and
`PermissionsHide` say what one more name does to it, and rest on `SetInduction`, induction with a set of
lengths for the predicate. Without links `ListedOnce` is the forest's doing (`OnePathEach`: a directory lies as
deep as its paths are long, and has one parent); with links it is that of `visited`. `WalkIsExact`
is induction over the length of the path by which a directory can be reached
(`OneMoreEntered`): the directory above was read, perhaps under another path, and the
entry was looked at there.

A rebuild puts documents into rows that a run may have left anywhere, so that a row can claim more
than its new document has: `Inv` does not survive it, and under a careless operator neither do the
promises about progress. Nor does ownership, where a link's document goes to the file behind it. What survives is
`LeadsHome`: an id in a row or a task names a document filed under that path or under a link that leads
to it, which `HandlerNames` and `RestoredRows` show of each step. `MappingInv` adds that an id the server has handed out names a path, and that the ids a
rebuild has listed are such. For the listing, `Position` numbers the documents without gaps
(`DocumentAtPosition`, by cardinality), a page holds the documents of its positions
(`PageIsComplete`), and positions stand still, since no sync creates documents while a rebuild is
under way; `ListingInv` is then the invariant of the loop over the pages. `RestoringInv` is that of the loop
over the documents: each file has a living document in its row, or one still to come in the list.

`HonestAfterRecovery` is an invariant across three jobs: the run before a loss, the rebuilds, and
the run after. If the operator is careful and no path leads to another, `Owned` and `Steady` do hold throughout (`CarefulInv`): rows
are ABSENT, NEW or SYNCED until the rebuild has ended (`Calm`), and a hash is written only into
a row with a document. Between a loss and the end of the rebuild a row may lie, when an earlier
rebuild was killed between the id and the hash; but once the listing is complete, each path whose row
lies and would be left alone is that of a document yet to be restored (`RestoredExactly`). This
is so because the listing has every document (`ListingInv` again) and rows name existing ones
(`Truthful`); and what is restored is true because the size listed is that of a READY document,
so that it serves a content of the size of the file (`SizeTells`). A path whose row was restored for a
content of the same size is set apart as `Misled`: no run touches it until its file is edited again, and every
other path is exact as before.

Model-checked only: the liveness properties (Convergence, Recovers, RunsEnd, CallsEnd, WalkEnds,
EveryoneGetsReady), which are beyond the prover. Every safety property of the passing runs is stated
by a theorem.

## 5. Not modelled

* Two full syncs that overlap. `USER_GUIDE.md:445-449` asks not to; their effect on the stat
  columns is in ChangeDetection, their effect on documents is not modelled.
* The counters of a run, the event trail, `attempts`, `last_error`, the expiry of an
  upload URL as a time: nothing decides by them.
* The composition of ApiClient's late effects with SyncEngine (`client.py:93`), of
  Scan with edits during the walk, of ChangeDetection with the engine's rows: each is
  modelled on its own side.
* The loss of statements of the job in a power failure: Migrations has it, SyncEngine
  takes every statement for durable.
* Configuration and key files: parsing, once, before anything happens; their values are
  the constants. Wildcards of patterns and the table of content types: data.
* `--check`, `--stats`: they read and print. Logging and redaction, errors: no behaviour
  of the job beyond the steps that raise and catch.

## 6. Plan

Done: the job, its promises, invariants and proofs; Replica and the refinement; the
books of a run; recovery; the HTTP client and the token cache; scan, change
detection and migrations; the proofs of the safety properties of all of them. Open, in this order:

1. Two overlapping syncs over one file table, with the statements that race.
2. Late effects: ApiClient's server under SyncEngine's calls.
3. The books of a rebuild (`run_rebuild_db` has a `sync_run` row of its own).

## 7. Running

In this directory: `tlc -config MCSync_robust.cfg MCSync`, and in the same way
for the other configurations (`<module>_<run>.cfg` with its module); `tlapm` on
`SyncProofs`, `SyncPromises`, `LedgerProofs`, `RecoveryProofs`, `ApiClientProofs`,
`ChangeDetectionProofs`, `MigrationsProofs`, `ScanProofs`.
