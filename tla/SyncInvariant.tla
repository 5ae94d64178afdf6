--------------------------- MODULE SyncInvariant ----------------------------
(***************************************************************************)
(* The inductive invariant behind the promises of SyncProperties that hold  *)
(* under every fault and every edit.  The promises alone are not inductive: *)
(* they speak of rows and documents, and what a step writes into a row it   *)
(* takes from the task of the worker that executes it.                      *)
(***************************************************************************)
EXTENDS SyncProperties

\* The steps at which a handler holds a document id,
WithDocument ==
  {"reinit", "storeDocument", "storePending", "push", "storeUploaded", "commit",
   "storeCommitted", "storeSyncedHash", "finalise", "poll", "markHash", "markState", "delete"}

\* and those at which it is the id in the row.
Bound == WithDocument \ {"storeDocument"}

\* The steps that empty a document, or put an empty one in the row.
Emptying == {"init", "reinit", "storeDocument", "storePending"}

AfterCommit == {"PROCESSING", "READY", "FAILED", "DELETED"}

\* An id the server has not handed out names no path,
FreshIdsAreUnbound == \A d \in DocIds : docs[d].status = "UNUSED" => docs[d].path = NoPath

\* and every id in a row or in a task names the path of that row or task.
OwnsDocument(p) ==
  /\ rows[p].doc # NoDoc => docs[rows[p].doc].path = p
  /\ task[p].doc # NoDoc => docs[task[p].doc].path = p
  /\ task[p].pc \in WithDocument => task[p].doc # NoDoc
  /\ task[p].pc \in Bound => task[p].doc = rows[p].doc

\* A queued action still fits the row it was planned from.
PlanFits(p) ==
  task[p].pc = "queued" =>
    /\ task[p].kind = "UPLOAD"  => rows[p].doc = NoDoc
    /\ task[p].kind = "REPLACE" => rows[p].doc # NoDoc /\ rows[p].state \notin InFlightStates
    /\ task[p].kind = "RESUME"  => rows[p].state \in InFlightStates

\* A handler knows what the corpus has of its document when it is about to say so.
HandlerIsBacked(p) ==
  /\ task[p].pc \in Emptying => rows[p].state \notin {"UPLOADED", "COMMITTED"}
  /\ task[p].pc \in {"storeUploaded", "commit"} =>
       \/ docs[task[p].doc].status = "DELETED"
       \/ docs[task[p].doc].blob # NoContent
  /\ task[p].pc = "storeCommitted" => docs[task[p].doc].status \in AfterCommit
  /\ task[p].pc = "forget" =>
       rows[p].doc = NoDoc \/ docs[rows[p].doc].status = "DELETED"

PathInv(p) ==
  /\ OwnsDocument(p)
  /\ PlanFits(p)
  /\ HandlerIsBacked(p)
  /\ RowIsBacked(p)

\* Of this the part that stands even while other documents are put in the rows.
Mapped ==
  /\ FreshIdsAreUnbound
  /\ \A p \in Paths :
       /\ OwnsDocument(p) /\ PlanFits(p)
       /\ rows[p].state \in InFlightStates => rows[p].doc # NoDoc

\* Tasks exist only in a run, and deletions only of files this run has missed.
IsDeletion(p) ==
  \/ task[p].pc \in {"delete", "forget"}
  \/ task[p].pc = "queued" /\ task[p].kind = "DELETE"

DeletionIsDue(p) ==
  /\ phase = "idle" => task[p].pc = "none"
  /\ phase = "planning" => task[p].pc \in {"none", "queued"} /\ ~IsDeletion(p)
  /\ IsDeletion(p) => p \in vanished \ seen
  /\ phase # "idle" /\ disk[p] = NoContent => p \in vanished

Inv ==
  /\ TypeOK
  /\ FreshIdsAreUnbound
  /\ \A p \in Paths : PathInv(p) /\ DeletionIsDue(p)
-----------------------------------------------------------------------------
(* Where a file's row and document stand at each step, in any environment *)

Ingested == {"PROCESSING", "READY", "FAILED"}

\* What ingestion has of a document is what was sent to it last: a handler sends
\* only to a document that ingestion has not got yet.
ContentIsSent ==
  \A d \in DocIds :
    docs[d].status \in Ingested => docs[d].content = docs[d].blob /\ docs[d].blob # NoContent

\* The state a row is in while a handler is at work on it,
RowAtStep(p) ==
  /\ task[p].pc \in {"push", "storeUploaded"} => rows[p].state = "PENDING_UPLOAD"
  /\ task[p].pc \in {"commit", "storeCommitted"} => rows[p].state = "UPLOADED"
  /\ task[p].pc \in {"storeSyncedHash", "finalise", "poll"} => rows[p].state = "COMMITTED"
  /\ task[p].pc \in {"markHash", "markState"} => rows[p].state \in {"UPLOADED", "COMMITTED"}

\* and what is known of a document nothing has been sent to.
NothingSent(p) ==
  /\ rows[p].state = "ABSENT" \/ rows[p].doc = NoDoc => rows[p].synced = NoContent
  /\ rows[p].state = "PENDING_UPLOAD" =>
       docs[rows[p].doc].status \in {"AWAITING_UPLOAD", "DELETED"}
  /\ task[p].pc \in {"storeDocument", "storePending"} =>
       docs[task[p].doc].status \in {"AWAITING_UPLOAD", "DELETED"}

Steady == ContentIsSent /\ \A p \in Paths : RowAtStep(p) /\ NothingSent(p)

-----------------------------------------------------------------------------
(* Behind NoopIsHonest *)

\* Nobody edits a file the corpus is still busy with, brings back what was synced last,
\* or deletes documents; and a commit is refused for no other reason than its document.
HonestEnvironment ==
  /\ EditWhen = "settled" /\ ~Revert
  /\ PollStatus /\ ~DetectDuplicates
  /\ "backoffice" \notin Faults

WouldSkip(p) == disk[p] \in Accepted /\ Classify(rows[p], disk[p]) = "NOOP"

\* A task is about the file as it is on disk.
TaskIsExact(p) ==
  /\ task[p].pc # "none" /\ task[p].kind = "DELETE" =>
       disk[p] = NoContent /\ task[p].pc \in {"queued", "delete", "forget"}
  /\ task[p].pc # "none" /\ task[p].kind # "DELETE" =>
       /\ disk[p] \in Accepted
       /\ task[p].hash = disk[p]
       /\ task[p].pc \notin {"delete", "forget"}

\* What was sent, committed and ingested is what is on disk, and no handler touches the
\* document of a file that a run would leave alone.
RowIsExact(p) ==
  /\ WouldSkip(p) =>
       /\ Serves(docs[rows[p].doc], disk[p])
       /\ task[p].pc \notin Emptying \cup {"queued"}
  /\ rows[p].state = "UPLOADED" =>
       docs[rows[p].doc].status = "DELETED" \/ docs[rows[p].doc].blob = disk[p]
  /\ rows[p].state = "COMMITTED" =>
       docs[rows[p].doc].status \in Ingested /\ docs[rows[p].doc].content = disk[p]

\* So is what the handler has just sent or seen.
StepIsExact(p) ==
  /\ task[p].pc = "storeUploaded" =>
       docs[task[p].doc].status = "DELETED" \/ docs[task[p].doc].blob = disk[p]
  /\ task[p].pc = "storeCommitted" =>
       docs[task[p].doc].status \in Ingested /\ docs[task[p].doc].content = disk[p]
  /\ task[p].pc \in {"markHash", "markState"} =>
       /\ rows[p].state = "COMMITTED"
       /\ docs[task[p].doc].status = "READY"
  /\ task[p].pc = "markState" => rows[p].synced = disk[p]

HonestInv ==
  /\ Inv /\ Steady
  /\ \A p \in Paths : TaskIsExact(p) /\ RowIsExact(p) /\ StepIsExact(p)

-----------------------------------------------------------------------------
(* Behind NoOrphans and UidIsStable *)

\* No call fails, nothing dies, and nobody edits during a run or deletes documents.
GentleEnvironment ==
  /\ EditWhen # "anytime"
  /\ PollStatus /\ ~DetectDuplicates
  /\ Faults \subseteq {"unreadable", "ingest"}

\* A file no handler is at work on has no row, waits for ingestion, or has been settled.
Resting(p) ==
  task[p].pc \in {"none", "queued"} =>
    /\ task[p].doc = NoDoc
    /\ \/ rows[p] = NoRow
       \/ rows[p].doc # NoDoc /\ <<rows[p].state, docs[rows[p].doc].status>> \in
            ({"COMMITTED"} \X Ingested) \cup {<<"SYNCED", "READY">>, <<"FAILED", "FAILED">>}

\* A new document is made only for a row without one, and a document is emptied only
\* when the server will have it, so that no step of a handler is refused.
Smooth(p) ==
  /\ task[p].pc = "init" => rows[p].doc = NoDoc /\ task[p].doc = NoDoc
  /\ task[p].pc = "reinit" => Replaceable(docs[task[p].doc])
  /\ task[p].pc = "storeDocument" => rows[p].doc \in {NoDoc, task[p].doc}
  /\ task[p].pc \in {"storeDocument", "storePending", "push"} =>
       docs[task[p].doc].status = "AWAITING_UPLOAD" /\ docs[task[p].doc].blob = NoContent
  /\ task[p].pc \in {"storeUploaded", "commit"} =>
       docs[task[p].doc].status = "AWAITING_UPLOAD" /\ docs[task[p].doc].blob # NoContent
  /\ task[p].pc \in {"storeCommitted", "storeSyncedHash", "finalise", "poll"} =>
       docs[task[p].doc].status \in Ingested
  /\ task[p].pc \in {"markHash", "markState"} => docs[task[p].doc].status = "READY"
  /\ task[p].pc = "forget" => task[p].doc = rows[p].doc
  /\ task[p].pc # "none" /\ ~IsDeletion(p) => disk[p] # NoContent

\* A living document is named by the row or the task of its own path.
Remembered(d) ==
  Exists(docs[d]) =>
    /\ docs[d].path \in Paths
    /\ d \in {rows[docs[d].path].doc, task[docs[d].path].doc}

InPlaceInv ==
  /\ Inv /\ Steady
  /\ \A p \in Paths : Resting(p) /\ Smooth(p)
  /\ \A d \in DocIds : Remembered(d)
=============================================================================
