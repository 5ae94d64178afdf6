----------------------------- MODULE SyncEngine -----------------------------
(***************************************************************************)
(* One sync job: the tree on disk, the local database, the corpus, and the  *)
(* worker pool of sync/engine.py that moves the corpus towards the tree.    *)
(*                                                                          *)
(* A run is StartRun, one Visit per path (walk, filter, hash, classify),    *)
(* PlanDeletions, then the handlers of the planned actions, interleaved up  *)
(* to Threads at a time, and EndRun.  A handler is cut into one step per    *)
(* remote call and per database statement, because a crash, an edit of the  *)
(* file and another worker can come between any two of them.                *)
(***************************************************************************)
EXTENDS Planner, Integers, FiniteSets

CONSTANTS
  Accepted,                 \* the contents that pass the filters (size, type, pattern)
  Threads,                  \* sync.threads
  PollStatus,               \* sync.poll_status
  DeleteRemoteWhenMissing,  \* sync.delete_remote_when_missing
  DetectDuplicates,         \* the server rejects content it already holds
  EditWhen,                 \* when the user may change the tree, see MayEdit
  Revert,                   \* edits may bring back the content last synced
  Faults,                   \* the kinds of mishap that can happen
  MaxMishaps, MaxEdits      \* bounds of the environment

FaultKind ==
  {"unreadable", "call", "retry", "abort", "crash", "ingest", "backoffice"}

ASSUME AcceptedAssumption == Accepted \subseteq Contents
ASSUME ThreadsAssumption == Threads \in Nat \ {0}
ASSUME SwitchAssumption ==
  {PollStatus, DeleteRemoteWhenMissing, DetectDuplicates, Revert} \subseteq BOOLEAN
ASSUME EnvironmentAssumption ==
  /\ EditWhen \in {"settled", "betweenRuns", "anytime"}
  /\ Faults \subseteq FaultKind
  /\ MaxMishaps \in Nat
  /\ MaxEdits \in Nat

VARIABLES
  disk,      \* disk[p]: the content of the file at p, NoContent if there is none
  rows,      \* rows[p]: the row of p in the local database
  docs,      \* docs[d]: the document with id d in the corpus
  phase,     \* of the run: "idle" between runs, "planning", "applying"
  unvisited, \* paths the walk of this run has still to reach
  seen,      \* paths the walk met and the filters accepted
  task,      \* task[p]: the action on p and how far its handler has come
  vanished,  \* history: paths without a file at some instant of this run
  mishaps, edits

vars == <<disk, rows, docs, phase, unvisited, seen, task, vanished, mishaps, edits>>

-----------------------------------------------------------------------------
(* Tasks *)

\* Where a handler stands; the remote calls are the steps of RemoteCalls.
RemoteCalls == {"init", "reinit", "push", "commit", "poll", "delete"}

Writes == {"storeDocument", "storePending", "storeUploaded", "storeCommitted",
           "storeSyncedHash", "markHash", "markState", "forget"}

Task == [pc: {"none", "queued", "finalise"} \cup RemoteCalls \cup Writes,
         kind: ActionKind, hash: MaybeContent, doc: MaybeDoc]

NoTask == [pc |-> "none", kind |-> "NOOP", hash |-> NoContent, doc |-> NoDoc]

Queued(kind, hash) == [pc |-> "queued", kind |-> kind, hash |-> hash, doc |-> NoDoc]

Planned(p, hash) ==
  LET kind == Classify(rows[p], hash)
  IN  IF kind = "NOOP" THEN NoTask ELSE Queued(kind, hash)

\* A worker thread is busy with p.
Running(p) == task[p].pc \notin {"none", "queued"}

\* p's handler moves on; with the document it now holds in the second form.
Goto(p, pc) == task' = [task EXCEPT ![p].pc = pc]
GotoWith(p, pc, d) == task' = [task EXCEPT ![p].pc = pc, ![p].doc = d]

EndTask(p) == task' = [task EXCEPT ![p] = NoTask]

\* apply() catches ApiError and OSError: the file is marked and the run goes on.
Fail(p) == /\ rows' = [rows EXCEPT ![p] = WithFailure(@)]
           /\ EndTask(p)

InitialTree == [Paths -> MaybeContent]

Init ==
  /\ disk \in InitialTree
  /\ rows = [p \in Paths |-> NoRow]
  /\ docs = [d \in DocIds |-> UnusedDocument]
  /\ phase = "idle"
  /\ unvisited = {}
  /\ seen = {}
  /\ task = [p \in Paths |-> NoTask]
  /\ vanished = {}
  /\ mishaps = 0
  /\ edits = 0

\* The environment's budget for things going wrong.
Mishap(kind) == /\ kind \in Faults
                /\ mishaps < MaxMishaps
                /\ mishaps' = mishaps + 1

\* Groups of variables that steps leave alone together.
environment == <<disk, vanished, mishaps, edits>>
planVars == <<phase, unvisited, seen>>

-----------------------------------------------------------------------------
(* Planning *)

\* run_sync, under no other run: start_run, then the walk begins.
StartRun ==
  /\ phase = "idle"
  /\ phase' = "planning"
  /\ unvisited' = Paths
  /\ seen' = {}
  /\ vanished' = {p \in Paths : disk[p] = NoContent}
  /\ UNCHANGED <<disk, rows, docs, task, mishaps, edits>>

\* The walk reaches p: no file, a file the filters reject, or one to classify.
Visit(p) ==
  /\ phase = "planning"
  /\ p \in unvisited
  /\ unvisited' = unvisited \ {p}
  /\ IF disk[p] \in Accepted
     THEN /\ seen' = seen \cup {p}
          /\ task' = [task EXCEPT ![p] = Planned(p, disk[p])]
     ELSE UNCHANGED <<seen, task>>
  /\ UNCHANGED <<disk, rows, docs, phase, vanished, mishaps, edits>>

\* The file is there and cannot be hashed: seen, reported, and not acted on.
VisitUnreadable(p) ==
  /\ Mishap("unreadable")
  /\ phase = "planning"
  /\ p \in unvisited
  /\ disk[p] \in Accepted
  /\ unvisited' = unvisited \ {p}
  /\ seen' = seen \cup {p}
  /\ UNCHANGED <<disk, rows, docs, phase, task, vanished, edits>>

\* _plan_deletions, after the walk, and run_sync's filter on its result.
PlanDeletions ==
  /\ phase = "planning"
  /\ unvisited = {}
  /\ phase' = "applying"
  /\ task' = [p \in Paths |->
       IF DeleteRemoteWhenMissing /\ IsGone(rows[p], p \in seen, disk[p] # NoContent)
       THEN Queued("DELETE", NoContent)
       ELSE task[p]]
  /\ UNCHANGED <<disk, rows, docs, unvisited, seen, vanished, mishaps, edits>>

\* Every future is done: finish_run.
EndRun ==
  /\ phase = "applying"
  /\ \A p \in Paths : task[p].pc = "none"
  /\ phase' = "idle"
  /\ unvisited' = {}
  /\ seen' = {}
  /\ vanished' = {}
  /\ UNCHANGED <<disk, rows, docs, task, mishaps, edits>>

-----------------------------------------------------------------------------
(* Handlers start: a worker takes the next action off the queue, in the     *)
(* order of the plan, which puts every deletion after every other action.   *)

Dequeue(p, kind) ==
  /\ phase = "applying"
  /\ task[p].pc = "queued"
  /\ task[p].kind = kind
  /\ Cardinality({q \in Paths : Running(q)}) < Threads
  /\ kind = "DELETE" =>
       \A q \in Paths : task[q].pc = "queued" => task[q].kind = "DELETE"

RecordScan(p) == rows' = [rows EXCEPT ![p] = Upserted(@)]

\* _upload, up to the call of init_upload.
StartUpload(p) ==
  /\ Dequeue(p, "UPLOAD")
  /\ RecordScan(p)
  /\ Goto(p, "init")
  /\ UNCHANGED <<docs, planVars, environment>>

\* A replacement that starts over under a new document (used as a mutant).
StartReplaceAnew(p) ==
  /\ Dequeue(p, "REPLACE")
  /\ RecordScan(p)
  /\ Goto(p, "init")
  /\ UNCHANGED <<docs, planVars, environment>>

\* _replace, up to the call of reinit_upload.
StartReplace(p) ==
  /\ Dequeue(p, "REPLACE")
  /\ RecordScan(p)
  /\ GotoWith(p, "reinit", rows[p].doc)
  /\ UNCHANGED <<docs, planVars, environment>>

\* A resumption that takes the bytes of a pending upload for sent (used as a mutant).
ResumesAtSkippingPush(state) ==
  CASE state = "COMMITTED" -> {"finalise"}
    [] OTHER               -> {"commit"}

\* _resume: where it picks up depends on the state the row was left in.  A
\* presigned URL may or may not have expired; if it has, _resume is _replace.
ResumesAt(state) ==
  CASE state = "COMMITTED" -> {"finalise"}
    [] state = "UPLOADED"  -> {"commit"}
    [] OTHER               -> {"push", "reinit"}

StartResume(p) ==
  /\ Dequeue(p, "RESUME")
  /\ \E pc \in ResumesAt(rows[p].state) : GotoWith(p, pc, rows[p].doc)
  /\ UNCHANGED <<rows, docs, planVars, environment>>

\* Deletions that drop the row first, or that spare the corpus the documents of
\* rows not yet synced (used as mutants).
StartDeleteRowFirst(p) ==
  /\ Dequeue(p, "DELETE")
  /\ GotoWith(p, "forget", rows[p].doc)
  /\ UNCHANGED <<rows, docs, planVars, environment>>

StartDeleteOfSynced(p) ==
  /\ Dequeue(p, "DELETE")
  /\ GotoWith(p, IF rows[p].state # "SYNCED" THEN "forget" ELSE "delete", rows[p].doc)
  /\ UNCHANGED <<rows, docs, planVars, environment>>

\* _delete: a row that never got a document is simply forgotten.
StartDelete(p) ==
  /\ Dequeue(p, "DELETE")
  /\ GotoWith(p, IF rows[p].doc = NoDoc THEN "forget" ELSE "delete", rows[p].doc)
  /\ UNCHANGED <<rows, docs, planVars, environment>>

-----------------------------------------------------------------------------
(* Handlers: remote calls *)

\* init_upload: the server answers with a new document.
InitUpload(p) ==
  /\ task[p].pc = "init"
  /\ \E d \in DocIds :
       /\ docs[d].status = "UNUSED"
       /\ docs' = [docs EXCEPT ![d] = Initialised(p)]
       /\ GotoWith(p, "storeDocument", d)
  /\ UNCHANGED <<rows, planVars, environment>>

\* A replacement that clears the way for a new document (used as a mutant).
ReinitUploadByDeletion(p) ==
  /\ task[p].pc = "reinit"
  /\ docs' = [docs EXCEPT ![task[p].doc] = Deleted(@)]
  /\ GotoWith(p, "init", NoDoc)
  /\ UNCHANGED <<rows, planVars, environment>>

\* reinit_upload: the same document, emptied, on a fresh URL.
ReinitUpload(p) ==
  /\ task[p].pc = "reinit"
  /\ Replaceable(docs[task[p].doc])
  /\ docs' = [docs EXCEPT ![task[p].doc] = Reinitialised(@)]
  /\ Goto(p, "storeDocument")
  /\ UNCHANGED <<rows, planVars, environment>>

\* A refused reinit counted as any other failure (used as a mutant).
ReinitRefusedFails(p) ==
  /\ task[p].pc = "reinit"
  /\ ~Replaceable(docs[task[p].doc])
  /\ Fail(p)
  /\ UNCHANGED <<docs, planVars, environment>>

\* reinit_upload answers 404 or 409: start over as a new document.
ReinitRefused(p) ==
  /\ task[p].pc = "reinit"
  /\ ~Replaceable(docs[task[p].doc])
  /\ rows' = [rows EXCEPT ![p] = WithSyncedHash(@, NoContent)]
  /\ GotoWith(p, "init", NoDoc)
  /\ UNCHANGED <<docs, planVars, environment>>

\* _push opens the file now: it streams what is on disk at this moment.
Push(p) ==
  /\ task[p].pc = "push"
  /\ disk[p] # NoContent
  /\ docs' = [docs EXCEPT ![task[p].doc] = WithBytes(@, disk[p])]
  /\ Goto(p, "storeUploaded")
  /\ UNCHANGED <<rows, planVars, environment>>

\* A push that is tried again on the URL just spent (used as a mutant).
PushFailsAndRepeats(p) ==
  /\ task[p].pc = "push"
  /\ disk[p] = NoContent \/ docs[task[p].doc].blob # NoContent
  /\ Goto(p, "storePending")
  /\ UNCHANGED <<rows, docs, planVars, environment>>

\* The file is gone, or the single-use URL was already spent by an earlier run.
PushFails(p) ==
  /\ task[p].pc = "push"
  /\ disk[p] = NoContent \/ docs[task[p].doc].blob # NoContent
  /\ Fail(p)
  /\ UNCHANGED <<docs, planVars, environment>>

RejectedAsDuplicate(d) == DetectDuplicates /\ IsDuplicate(docs, d)

CommitDocument(p) ==
  LET d == task[p].doc IN
  /\ task[p].pc = "commit"
  /\ Committable(docs[d])
  /\ AlreadyCommitted(docs[d]) \/ ~RejectedAsDuplicate(d)
  /\ docs' = [docs EXCEPT ![d] = Committed(@)]
  /\ Goto(p, "storeCommitted")
  /\ UNCHANGED <<rows, planVars, environment>>

\* 409: the content is in the corpus already; the file is recorded as synced.
CommitDuplicate(p) ==
  LET d == task[p].doc IN
  /\ task[p].pc = "commit"
  /\ Committable(docs[d]) /\ ~AlreadyCommitted(docs[d])
  /\ RejectedAsDuplicate(d)
  /\ Goto(p, "markHash")
  /\ UNCHANGED <<rows, docs, planVars, environment>>

\* 404 for a document deleted meanwhile, 400 for one without bytes.
CommitFails(p) ==
  /\ task[p].pc = "commit"
  /\ ~Committable(docs[task[p].doc])
  /\ Fail(p)
  /\ UNCHANGED <<docs, planVars, environment>>

\* _finalise: with poll_status off, committed is taken for synced.
Finalise(p) ==
  /\ task[p].pc = "finalise"
  /\ Goto(p, IF PollStatus THEN "poll" ELSE "markHash")
  /\ UNCHANGED <<rows, docs, planVars, environment>>

PollReady(p) ==
  /\ task[p].pc = "poll"
  /\ docs[task[p].doc].status = "READY"
  /\ Goto(p, "markHash")
  /\ UNCHANGED <<rows, docs, planVars, environment>>

\* Still ingesting at poll_timeout_seconds: the row stays COMMITTED for the next run.
PollTimesOut(p) ==
  /\ task[p].pc = "poll"
  /\ docs[task[p].doc].status \in {"AWAITING_UPLOAD", "PROCESSING"}
  /\ EndTask(p)
  /\ UNCHANGED <<rows, docs, planVars, environment>>

\* Ingestion failed, or the document is gone.
PollFails(p) ==
  /\ task[p].pc = "poll"
  /\ docs[task[p].doc].status \in {"FAILED", "DELETED"}
  /\ Fail(p)
  /\ UNCHANGED <<docs, planVars, environment>>

\* A 404 is as good as a deletion.
DeleteDocument(p) ==
  /\ task[p].pc = "delete"
  /\ docs' = [docs EXCEPT ![task[p].doc] = Deleted(@)]
  /\ Goto(p, "forget")
  /\ UNCHANGED <<rows, planVars, environment>>

-----------------------------------------------------------------------------
(* Handlers: database writes *)

Write(p, pc, row, next) ==
  /\ task[p].pc = pc
  /\ rows' = [rows EXCEPT ![p] = row]
  /\ Goto(p, next)
  /\ UNCHANGED <<docs, planVars, environment>>

\* _store_init is two statements.
StoreDocument(p) ==
  Write(p, "storeDocument", WithDocumentId(rows[p], task[p].doc), "storePending")

\* UPLOADED recorded before the bytes are sent (used as a mutant).
StorePendingAsUploaded(p) ==
  Write(p, "storePending", WithSyncState(rows[p], "UPLOADED"), "push")

StorePending(p) ==
  Write(p, "storePending", WithSyncState(rows[p], "PENDING_UPLOAD"), "push")

StoreUploaded(p) ==
  Write(p, "storeUploaded", WithSyncState(rows[p], "UPLOADED"), "commit")

\* The tail of _commit_and_finalise is two statements too.
StoreCommitted(p) ==
  Write(p, "storeCommitted", WithSyncState(rows[p], "COMMITTED"), "storeSyncedHash")

StoreSyncedHash(p) ==
  Write(p, "storeSyncedHash", WithSyncedHash(rows[p], task[p].hash), "finalise")

\* _mark_synced: the hash the plan computed, then the state.
MarkHash(p) ==
  Write(p, "markHash", WithSyncedHash(rows[p], task[p].hash), "markState")

MarkState(p) ==
  /\ task[p].pc = "markState"
  /\ rows' = [rows EXCEPT ![p] = WithSyncState(@, "SYNCED")]
  /\ EndTask(p)
  /\ UNCHANGED <<docs, planVars, environment>>

ForgetRow(p) ==
  /\ task[p].pc = "forget"
  /\ rows' = [rows EXCEPT ![p] = NoRow]
  /\ EndTask(p)
  /\ UNCHANGED <<docs, planVars, environment>>

-----------------------------------------------------------------------------
(* Mishaps of a run *)

\* What the server has done for a request whose answer is lost.
TakesEffect(p) ==
  LET d == task[p].doc IN
  \/ /\ task[p].pc = "init"
     /\ \E e \in DocIds :
          docs[e].status = "UNUSED" /\ docs' = [docs EXCEPT ![e] = Initialised(p)]
  \/ /\ task[p].pc = "reinit" /\ Replaceable(docs[d])
     /\ docs' = [docs EXCEPT ![d] = Reinitialised(@)]
  \/ /\ task[p].pc = "push" /\ disk[p] # NoContent
     /\ docs' = [docs EXCEPT ![d] = WithBytes(@, disk[p])]
  \/ /\ task[p].pc = "commit" /\ Committable(docs[d]) /\ ~RejectedAsDuplicate(d)
     /\ docs' = [docs EXCEPT ![d] = Committed(@)]
  \/ /\ task[p].pc = "delete"
     /\ docs' = [docs EXCEPT ![d] = Deleted(@)]

\* The client gives up on a call, which may or may not have reached the server.
CallFails(p) ==
  /\ Mishap("call")
  /\ task[p].pc \in RemoteCalls
  /\ TakesEffect(p) \/ UNCHANGED docs
  /\ Fail(p)
  /\ UNCHANGED <<planVars, disk, vanished, edits>>

\* The answer is lost and the HTTP client sends the request again (never a PUT).
CallRetried(p) ==
  /\ Mishap("retry")
  /\ task[p].pc \in RemoteCalls \ {"push"}
  /\ TakesEffect(p)
  /\ UNCHANGED <<rows, task, planVars, disk, vanished, edits>>

\* An exception apply() does not catch (a database or authentication error).
\* The pool still runs the other actions; a single worker is the run itself.
Abort(p) ==
  /\ Mishap("abort")
  /\ Running(p)
  /\ task' = IF Threads = 1 THEN [q \in Paths |-> NoTask] ELSE [task EXCEPT ![p] = NoTask]
  /\ UNCHANGED <<rows, docs, planVars, disk, vanished, edits>>

\* The process dies; the database and the corpus stay as they are.
Crash ==
  /\ Mishap("crash")
  /\ phase # "idle"
  /\ phase' = "idle"
  /\ unvisited' = {}
  /\ seen' = {}
  /\ vanished' = {}
  /\ task' = [p \in Paths |-> NoTask]
  /\ UNCHANGED <<rows, docs, disk, edits>>

-----------------------------------------------------------------------------
(* The environment *)

\* "anytime": even under a running sync.  "betweenRuns": only while none runs.
\* "settled": moreover not while the corpus may still be ingesting the last version.
MayEdit(p) ==
  \/ EditWhen = "anytime"
  \/ /\ phase = "idle"
     /\ EditWhen = "settled" => rows[p].state \notin {"UPLOADED", "COMMITTED"}

\* The user writes, replaces or removes the file at p.
Edit(p) ==
  /\ MayEdit(p)
  /\ edits < MaxEdits
  /\ edits' = edits + 1
  /\ \E c \in MaybeContent \ {disk[p]} :
       /\ c = NoContent \/ Revert \/ c # rows[p].synced
       /\ disk' = [disk EXCEPT ![p] = c]
       /\ vanished' = IF c = NoContent /\ phase # "idle" THEN vanished \cup {p} ELSE vanished
  /\ UNCHANGED <<rows, docs, planVars, task, mishaps>>

Ingest(d) ==
  /\ docs[d].status = "PROCESSING"
  /\ docs' = [docs EXCEPT ![d] = Settled(@, "READY")]
  /\ UNCHANGED <<rows, planVars, task, environment>>

IngestFails(d) ==
  /\ Mishap("ingest")
  /\ docs[d].status = "PROCESSING"
  /\ docs' = [docs EXCEPT ![d] = Settled(@, "FAILED")]
  /\ UNCHANGED <<rows, planVars, task, disk, vanished, edits>>

\* Someone removes a document in the backoffice.
BackofficeDelete(d) ==
  /\ Mishap("backoffice")
  /\ Exists(docs[d])
  /\ docs' = [docs EXCEPT ![d] = Deleted(@)]
  /\ UNCHANGED <<rows, planVars, task, disk, vanished, edits>>

-----------------------------------------------------------------------------

Start(p) == StartUpload(p) \/ StartReplace(p) \/ StartResume(p) \/ StartDelete(p)

Call(p) ==
  \/ InitUpload(p) \/ ReinitUpload(p) \/ ReinitRefused(p)
  \/ Push(p) \/ PushFails(p)
  \/ CommitDocument(p) \/ CommitDuplicate(p) \/ CommitFails(p)
  \/ Finalise(p) \/ PollReady(p) \/ PollTimesOut(p) \/ PollFails(p)
  \/ DeleteDocument(p)

Store(p) ==
  \/ StoreDocument(p) \/ StorePending(p) \/ StoreUploaded(p)
  \/ StoreCommitted(p) \/ StoreSyncedHash(p)
  \/ MarkHash(p) \/ MarkState(p) \/ ForgetRow(p)

Work(p) == Start(p) \/ Call(p) \/ Store(p)

Misfortune(p) == CallFails(p) \/ CallRetried(p) \/ Abort(p)

Next ==
  \/ StartRun \/ PlanDeletions \/ EndRun \/ Crash
  \/ \E p \in Paths :
       Visit(p) \/ VisitUnreadable(p) \/ Work(p) \/ Misfortune(p) \/ Edit(p)
  \/ \E d \in DocIds : Ingest(d) \/ IngestFails(d) \/ BackofficeDelete(d)

Spec == Init /\ [][Next]_vars

\* Cron starts runs again and again, a run that is not killed makes progress,
\* and the server finishes what it ingests.
Fairness ==
  /\ WF_vars(StartRun) /\ WF_vars(PlanDeletions) /\ WF_vars(EndRun)
  /\ \A p \in Paths : WF_vars(Visit(p)) /\ WF_vars(Work(p))
  /\ \A d \in DocIds : WF_vars(Ingest(d))

FairSpec == Spec /\ Fairness
=============================================================================
