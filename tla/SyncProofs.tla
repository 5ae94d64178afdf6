----------------------------- MODULE SyncProofs -----------------------------
(***************************************************************************)
(* The promises of SyncProperties that hold under every fault and every     *)
(* edit, proved for every value of the constants.                           *)
(*                                                                          *)
(* First type correctness.  Then ownership: a step of the handler of p      *)
(* touches the row and the task of p and documents whose metadata names p,  *)
(* so PathInv of any other path follows from ownership alone (lemma Frame), *)
(* and each action only has to re-establish PathInv(p).  Then what a run    *)
(* may delete, and the theorems about the promises themselves.              *)
(***************************************************************************)
EXTENDS SyncInvariant, TLAPS

-----------------------------------------------------------------------------
(* Type correctness *)

\* What the planner decides is an action kind, and the tasks it makes are tasks.
LEMMA PlannedType ==
  ASSUME TypeOK, NEW p \in Paths
  PROVE  /\ NoTask \in Task
         /\ Planned(p, disk[p]) \in Task
         /\ Queued("DELETE", NoContent) \in Task
<1>1. NoTask \in Task /\ Queued("DELETE", NoContent) \in Task
  BY DEF NoTask, Queued, Task, ActionKind, MaybeContent, MaybeDoc, RemoteCalls, Writes
<1>2. Classify(rows[p], disk[p]) \in ActionKind
  BY DEF Classify, ActionKind
<1>3. disk[p] \in MaybeContent
  BY DEF TypeOK
<1>4. \A kind \in ActionKind : Queued(kind, disk[p]) \in Task
  BY <1>3 DEF Queued, Task, MaybeDoc, RemoteCalls, Writes
<1> QED
  BY <1>1, <1>2, <1>4 DEF Planned

\* Each repository write yields a row again.
LEMMA RowType ==
  ASSUME NEW row \in Row
  PROVE  /\ Upserted(row) \in Row
         /\ WithFailure(row) \in Row
         /\ \A d \in MaybeDoc : WithDocumentId(row, d) \in Row
         /\ \A s \in SyncState : WithSyncState(row, s) \in Row
         /\ \A h \in MaybeContent : WithSyncedHash(row, h) \in Row
         /\ NoRow \in Row
  BY DEF Row, Upserted, WithFailure, WithDocumentId, WithSyncState, WithSyncedHash,
         NoRow, SyncState, MaybeDoc, MaybeContent

\* Each request to the corpus yields a document again.
LEMMA DocumentType ==
  ASSUME NEW doc \in Document
  PROVE  /\ Reinitialised(doc) \in Document
         /\ Committed(doc) \in Document
         /\ Deleted(doc) \in Document
         /\ Settled(doc, "READY") \in Document
         /\ Settled(doc, "FAILED") \in Document
         /\ \A c \in MaybeContent : WithBytes(doc, c) \in Document
         /\ \A p \in Paths : Initialised(p) \in Document
         /\ UnusedDocument \in Document
  BY DEF Document, DocumentStatus, Reinitialised, Committed, Deleted, Settled, WithBytes,
         Initialised, UnusedDocument, MaybeContent

\* The initial states are typed.
LEMMA InitType == ASSUME Init PROVE TypeOK
  BY RowType, DocumentType, EnvironmentAssumption
  DEF Init, TypeOK, InitialTree, NoTask, Task, ActionKind, RemoteCalls, Writes,
      MaybeContent, MaybeDoc, NoRow, Row, SyncState, UnusedDocument, Document, DocumentStatus

\* The steps a program counter can be given.
LEMMA GotoType ==
  ASSUME TypeOK, NEW p \in Paths, NEW pc \in {"finalise"} \cup RemoteCalls \cup Writes
  PROVE  /\ Goto(p, pc) => task' \in [Paths -> Task]
         /\ \A d \in MaybeDoc : GotoWith(p, pc, d) => task' \in [Paths -> Task]
         /\ EndTask(p) => task' \in [Paths -> Task]
<1>1. task \in [Paths -> Task] /\ pc \in {"none", "queued", "finalise"} \cup RemoteCalls \cup Writes
  BY DEF TypeOK
<1>2. \A t \in Task : [t EXCEPT !.pc = pc] \in Task
  BY <1>1 DEF Task
<1>3. \A t \in Task : \A d \in MaybeDoc : [[t EXCEPT !.pc = pc] EXCEPT !.doc = d] \in Task
  BY <1>1 DEF Task
<1>4. Goto(p, pc) => task' = [task EXCEPT ![p] = [task[p] EXCEPT !.pc = pc]]
  BY <1>1 DEF Goto
<1>5. \A d \in MaybeDoc : GotoWith(p, pc, d) =>
        task' = [task EXCEPT ![p] = [[task[p] EXCEPT !.pc = pc] EXCEPT !.doc = d]]
  BY <1>1 DEF GotoWith, Task
<1>6. EndTask(p) => task' \in [Paths -> Task]
  BY <1>1, PlannedType DEF EndTask
<1>7. Goto(p, pc) => task' \in [Paths -> Task]
  BY <1>1, <1>2, <1>4
<1>8. ASSUME NEW d \in MaybeDoc, GotoWith(p, pc, d) PROVE task' \in [Paths -> Task]
  <2> DEFINE t == [[task[p] EXCEPT !.pc = pc] EXCEPT !.doc = d]
  <2>1. t \in Task
    BY <1>1, <1>3
  <2>2. task' = [task EXCEPT ![p] = t]
    BY <1>5, <1>8
  <2> HIDE DEF t
  <2> QED
    BY <1>1, <2>1, <2>2
<1> QED
  BY <1>6, <1>7, <1>8

\* Planning (walk, classification, deletions, end of the run) keeps the types.
LEMMA PlanType ==
  ASSUME TypeOK
  PROVE  /\ StartRun => TypeOK'
         /\ PlanDeletions => TypeOK'
         /\ EndRun => TypeOK'
         /\ Crash => TypeOK'
         /\ \A p \in Paths : Visit(p) => TypeOK'
         /\ \A p \in Paths : VisitUnreadable(p) => TypeOK'
<1>1. StartRun => TypeOK'
  BY DEF TypeOK, StartRun
<1>2. PlanDeletions => TypeOK'
  BY PlannedType DEF TypeOK, PlanDeletions
<1>3. EndRun => TypeOK'
  BY DEF TypeOK, EndRun
<1>4. Crash => TypeOK'
  BY PlannedType, EnvironmentAssumption DEF TypeOK, Crash, Mishap
<1>5. ASSUME NEW p \in Paths, Visit(p) PROVE TypeOK'
  <2>1. task' \in [Paths -> Task]
    BY <1>5, PlannedType DEF TypeOK, Visit
  <2> QED
    BY <1>5, <2>1 DEF TypeOK, Visit
<1>6. ASSUME NEW p \in Paths, VisitUnreadable(p) PROVE TypeOK'
  BY <1>6, EnvironmentAssumption DEF TypeOK, VisitUnreadable, Mishap
<1> QED
  BY <1>1, <1>2, <1>3, <1>4, <1>5, <1>6

\* Taking an action off the queue keeps the types.
LEMMA StartType ==
  ASSUME TypeOK, NEW p \in Paths, Start(p)
  PROVE  TypeOK'
<1>1. rows[p] \in Row /\ rows[p].doc \in MaybeDoc
  BY DEF TypeOK, Row
<1>2. rows' \in [Paths -> Row]
  BY <1>1, RowType DEF TypeOK, Start, StartUpload, StartReplace, StartResume, StartDelete, RecordScan
<1>3. task' \in [Paths -> Task]
  <2>1. CASE StartUpload(p)
    BY <2>1, GotoType DEF StartUpload, RemoteCalls
  <2>2. CASE StartReplace(p)
    BY <2>2, <1>1, GotoType DEF StartReplace, RemoteCalls
  <2>3. CASE StartResume(p)
    <3>1. ResumesAt(rows[p].state) \subseteq {"finalise"} \cup RemoteCalls
      BY DEF ResumesAt, RemoteCalls
    <3> QED
      BY <2>3, <3>1, <1>1, GotoType DEF StartResume
  <2>4. CASE StartDelete(p)
    BY <2>4, <1>1, GotoType DEF StartDelete, RemoteCalls, Writes
  <2> QED
    BY <2>1, <2>2, <2>3, <2>4 DEF Start
<1> QED
  BY <1>2, <1>3 DEF TypeOK, Start, StartUpload, StartReplace, StartResume, StartDelete,
     planVars, environment

\* Marking a file as failed keeps the types.
LEMMA FailType ==
  ASSUME TypeOK, NEW p \in Paths, Fail(p)
  PROVE  rows' \in [Paths -> Row] /\ task' \in [Paths -> Task]
  BY PlannedType, RowType DEF TypeOK, Fail, EndTask

\* Every remote call, with its refusals, keeps the types.
LEMMA CallType ==
  ASSUME TypeOK, NEW p \in Paths, Call(p)
  PROVE  TypeOK'
<1> USE DEF planVars, environment
<1>1. task[p] \in Task /\ disk[p] \in MaybeContent
  BY DEF TypeOK
<1>2. \A d \in DocIds : docs[d] \in Document
  BY DEF TypeOK
<1>3. CASE InitUpload(p)
  BY <1>3, DocumentType, GotoType DEF TypeOK, InitUpload, Writes, MaybeDoc
<1>4. CASE ReinitUpload(p)
  BY <1>4, <1>2, DocumentType, GotoType DEF TypeOK, ReinitUpload, Writes
<1>5. CASE ReinitRefused(p)
  BY <1>5, RowType, GotoType DEF TypeOK, ReinitRefused, RemoteCalls, MaybeContent, MaybeDoc
<1>6. CASE Push(p)
  BY <1>6, <1>1, <1>2, DocumentType, GotoType DEF TypeOK, Push, Writes
<1>7. CASE PushFails(p) \/ CommitFails(p) \/ PollFails(p)
  BY <1>7, FailType DEF TypeOK, PushFails, CommitFails, PollFails
<1>8. CASE CommitDocument(p)
  BY <1>8, <1>2, DocumentType, GotoType DEF TypeOK, CommitDocument, Writes
<1>9. CASE CommitDuplicate(p)
  BY <1>9, GotoType DEF TypeOK, CommitDuplicate, Writes
<1>10. CASE Finalise(p)
  BY <1>10, GotoType DEF TypeOK, Finalise, RemoteCalls, Writes
<1>11. CASE PollReady(p)
  BY <1>11, GotoType DEF TypeOK, PollReady, Writes
<1>12. CASE PollTimesOut(p)
  BY <1>12, PlannedType DEF TypeOK, PollTimesOut, EndTask
<1>13. CASE DeleteDocument(p)
  BY <1>13, <1>2, DocumentType, GotoType DEF TypeOK, DeleteDocument, Writes
<1> QED
  BY <1>3, <1>4, <1>5, <1>6, <1>7, <1>8, <1>9, <1>10, <1>11, <1>12, <1>13 DEF Call

\* Every database statement keeps the types.
LEMMA StoreType ==
  ASSUME TypeOK, NEW p \in Paths, Store(p)
  PROVE  TypeOK'
<1> USE DEF planVars, environment
<1>1. rows[p] \in Row /\ task[p].hash \in MaybeContent /\ task[p].doc \in MaybeDoc
  BY DEF TypeOK, Task
<1>2. ASSUME NEW pc, NEW row \in Row, NEW next \in {"finalise"} \cup RemoteCalls \cup Writes,
             Write(p, pc, row, next)
      PROVE  TypeOK'
  BY <1>2, GotoType DEF Write, TypeOK
<1>3. CASE MarkState(p) \/ ForgetRow(p)
  BY <1>3, <1>1, PlannedType, RowType DEF MarkState, ForgetRow, EndTask, TypeOK, SyncState
<1>4. CASE StoreDocument(p)
  BY <1>4, <1>1, <1>2, RowType DEF StoreDocument, Writes
<1>5. CASE StorePending(p)
  BY <1>5, <1>1, <1>2, RowType DEF StorePending, SyncState, RemoteCalls
<1>6. CASE StoreUploaded(p)
  BY <1>6, <1>1, <1>2, RowType DEF StoreUploaded, SyncState, RemoteCalls
<1>7. CASE StoreCommitted(p)
  BY <1>7, <1>1, <1>2, RowType DEF StoreCommitted, SyncState, Writes
<1>8. CASE StoreSyncedHash(p)
  BY <1>8, <1>1, <1>2, RowType DEF StoreSyncedHash
<1>9. CASE MarkHash(p)
  BY <1>9, <1>1, <1>2, RowType DEF MarkHash, Writes
<1> QED
  BY <1>3, <1>4, <1>5, <1>6, <1>7, <1>8, <1>9 DEF Store

\* So does what the server did for a request whose answer was lost.
LEMMA EffectType ==
  ASSUME TypeOK, NEW p \in Paths, TakesEffect(p)
  PROVE  docs' \in [DocIds -> Document]
<1>1. docs \in [DocIds -> Document] /\ disk[p] \in MaybeContent
  BY DEF TypeOK
<1> QED
  BY <1>1, DocumentType DEF TakesEffect

\* Lost calls, lost answers and aborted workers keep the types.
LEMMA MisfortuneType ==
  ASSUME TypeOK, NEW p \in Paths, Misfortune(p)
  PROVE  TypeOK'
<1> USE EnvironmentAssumption DEF planVars, Mishap
<1>1. CASE CallFails(p)
  BY <1>1, EffectType, FailType DEF TypeOK, CallFails
<1>2. CASE CallRetried(p)
  BY <1>2, EffectType DEF TypeOK, CallRetried
<1>3. CASE Abort(p)
  BY <1>3, PlannedType DEF TypeOK, Abort
<1> QED
  BY <1>1, <1>2, <1>3 DEF Misfortune

\* Crashes, edits, ingestion and the backoffice keep the types.
LEMMA EnvironmentType ==
  ASSUME TypeOK
  PROVE  /\ \A p \in Paths : Edit(p) => TypeOK'
         /\ \A d \in DocIds : Ingest(d) \/ IngestFails(d) \/ BackofficeDelete(d) => TypeOK'
<1> USE EnvironmentAssumption DEF planVars, environment, Mishap
<1>1. ASSUME NEW p \in Paths, Edit(p) PROVE TypeOK'
  BY <1>1 DEF TypeOK, Edit
<1>2. ASSUME NEW d \in DocIds, Ingest(d) \/ IngestFails(d) \/ BackofficeDelete(d)
      PROVE  TypeOK'
  BY <1>2, DocumentType DEF TypeOK, Ingest, IngestFails, BackofficeDelete
<1> QED
  BY <1>1, <1>2

\* Every step of the job keeps the types.
LEMMA NextType == ASSUME TypeOK, [Next]_vars PROVE TypeOK'
<1>1. CASE UNCHANGED vars
  BY <1>1 DEF vars, TypeOK
<1>2. CASE Next
  BY <1>2, PlanType, StartType, CallType, StoreType, MisfortuneType, EnvironmentType
  DEF Next, Work
<1> QED
  BY <1>1, <1>2

\* Every state of every behaviour of the job is well typed.
THEOREM TypeCorrect == Spec => []TypeOK
  BY InitType, NextType, PTL DEF Spec

-----------------------------------------------------------------------------
(* Ownership *)

Owned == FreshIdsAreUnbound /\ \A p \in Paths : PathInv(p)

\* A step that concerns no path but p.
TouchesOnly(p) ==
  /\ \A q \in Paths \ {p} : rows'[q] = rows[q] /\ task'[q] = task[q]
  /\ \A d \in DocIds :
       \/ docs'[d] = docs[d]
       \/ /\ docs[d].path \in {p, NoPath}
          /\ docs'[d].path = p
          /\ docs'[d].status # "UNUSED"

\* After a step that touches p alone the invariant need only be checked at p.
LEMMA Frame ==
  ASSUME TypeOK, Owned, NEW p \in Paths, TouchesOnly(p), PathInv(p)'
  PROVE  Owned'
<1>1. FreshIdsAreUnbound'
  BY DEF Owned, FreshIdsAreUnbound, TouchesOnly
<1>2. ASSUME NEW q \in Paths, q # p PROVE PathInv(q)'
  <2>1. rows'[q] = rows[q] /\ task'[q] = task[q]
    BY <1>2 DEF TouchesOnly
  <2>2. rows[q].doc \in MaybeDoc /\ task[q].doc \in MaybeDoc
    BY DEF TypeOK, Row, Task
  <2>3. PathInv(q)
    BY DEF Owned
  <2>4. rows[q].doc # NoDoc => docs'[rows[q].doc] = docs[rows[q].doc]
    BY <1>2, <2>2, <2>3, NoPathAssumption DEF MaybeDoc, TouchesOnly, PathInv, OwnsDocument
  <2>5. task[q].doc # NoDoc => docs'[task[q].doc] = docs[task[q].doc]
    BY <1>2, <2>2, <2>3, NoPathAssumption DEF MaybeDoc, TouchesOnly, PathInv, OwnsDocument
  <2>6. OwnsDocument(q)'
    BY <2>1, <2>3, <2>4, <2>5 DEF PathInv, OwnsDocument
  <2>7. PlanFits(q)'
    BY <2>1, <2>3 DEF PathInv, PlanFits
  <2>8. HandlerIsBacked(q)'
    BY <2>1, <2>3, <2>4, <2>5 DEF PathInv, HandlerIsBacked, OwnsDocument, WithDocument
  <2>9. RowIsBacked(q)'
    BY <2>1, <2>3, <2>4 DEF PathInv, RowIsBacked, InFlightStates
  <2> QED
    BY <2>6, <2>7, <2>8, <2>9 DEF PathInv
<1> QED
  BY <1>1, <1>2 DEF Owned

\* A row and a task that speak of no document need nothing of the corpus.
LEMMA NothingToOwn ==
  ASSUME NEW p \in Paths,
         rows[p].state \notin InFlightStates, rows[p].doc = NoDoc, task[p] = NoTask
  PROVE  PathInv(p)
<1>1. task[p].pc = "none" /\ task[p].doc = NoDoc
  BY DEF NoTask
<1>2. OwnsDocument(p)
  BY <1>1 DEF OwnsDocument, WithDocument, Bound
<1>3. PlanFits(p) /\ HandlerIsBacked(p)
  BY <1>1 DEF PlanFits, HandlerIsBacked, Emptying
<1>4. RowIsBacked(p)
  BY DEF RowIsBacked, InFlightStates
<1> QED
  BY <1>2, <1>3, <1>4 DEF PathInv

\* The initial states own what they name: nothing.
LEMMA InitOwned == ASSUME Init PROVE Owned
<1>1. ASSUME NEW p \in Paths PROVE PathInv(p)
  BY NothingToOwn DEF Init, NoRow, InFlightStates
<1>2. FreshIdsAreUnbound
  BY DEF Init, FreshIdsAreUnbound, UnusedDocument
<1> QED
  BY <1>1, <1>2 DEF Owned

\* Neither dropping a task nor queueing a fitting one disturbs what rows claim.
LEMMA Requeue ==
  ASSUME NEW p \in Paths, PathInv(p), UNCHANGED <<rows[p], docs>>,
         \/ task'[p] = task[p]
         \/ task'[p] = NoTask
         \/ \E hash : task'[p] = Queued("DELETE", hash) \/ task'[p] = Planned(p, hash)
  PROVE  PathInv(p)'
<1>1. CASE task'[p] = task[p]
  BY <1>1 DEF PathInv, OwnsDocument, PlanFits, HandlerIsBacked, RowIsBacked
<1>2. CASE task'[p] # task[p]
  <2> DEFINE Fits(t) ==
        /\ t.doc = NoDoc
        /\ t.pc \in {"none", "queued"}
        /\ t.pc = "queued" =>
             /\ t.kind = "UPLOAD"  => rows[p].doc = NoDoc
             /\ t.kind = "REPLACE" => rows[p].doc # NoDoc /\ rows[p].state \notin InFlightStates
             /\ t.kind = "RESUME"  => rows[p].state \in InFlightStates
  <2>1. Fits(NoTask)
    BY DEF NoTask
  <2>2. \A hash : Fits(Queued("DELETE", hash))
    BY DEF Queued
  <2>3. ASSUME NEW hash PROVE Fits(Planned(p, hash))
    <3>1. CASE Classify(rows[p], hash) = "NOOP"
      BY <3>1, <2>1 DEF Planned
    <3>2. CASE Classify(rows[p], hash) # "NOOP"
      <4>1. Planned(p, hash) = Queued(Classify(rows[p], hash), hash)
        BY <3>2 DEF Planned
      <4>2. /\ Classify(rows[p], hash) = "UPLOAD" => rows[p].doc = NoDoc
            /\ Classify(rows[p], hash) = "REPLACE" =>
                 rows[p].doc # NoDoc /\ rows[p].state \notin InFlightStates
            /\ Classify(rows[p], hash) = "RESUME" => rows[p].state \in InFlightStates
        BY DEF Classify
      <4> QED
        BY <4>1, <4>2 DEF Queued
    <3> QED
      BY <3>1, <3>2
  <2>4. Fits(task'[p])
    <3> HIDE DEF Fits
    <3> QED
      BY <1>2, <2>1, <2>2, <2>3
  <2>5. task'[p].doc = NoDoc /\ task'[p].pc \in {"none", "queued"}
    BY <2>4
  <2>6. PlanFits(p)'
    BY <2>4 DEF PlanFits
  <2>7. OwnsDocument(p)' /\ HandlerIsBacked(p)'
    BY <2>5 DEF PathInv, OwnsDocument, HandlerIsBacked, WithDocument, Bound, Emptying
  <2>8. RowIsBacked(p)'
    BY DEF PathInv, RowIsBacked
  <2> QED
    BY <2>6, <2>7, <2>8 DEF PathInv
<1> QED
  BY <1>1, <1>2

\* The walk plans against rows that do not change until the plan is applied.
LEMMA PlanOwned ==
  ASSUME TypeOK, Owned
  PROVE  /\ StartRun \/ PlanDeletions \/ EndRun \/ Crash => Owned'
         /\ \A p \in Paths : Visit(p) \/ VisitUnreadable(p) \/ Abort(p) => Owned'
<1>1. ASSUME UNCHANGED <<rows, docs>>,
             \A q \in Paths :
               \/ task'[q] = task[q]
               \/ task'[q] = NoTask
               \/ \E hash : task'[q] = Queued("DELETE", hash) \/ task'[q] = Planned(q, hash)
      PROVE  Owned'
  <2>1. \A q \in Paths : PathInv(q)'
    BY <1>1, Requeue DEF Owned
  <2> QED
    BY <1>1, <2>1 DEF Owned, FreshIdsAreUnbound
<1>2. CASE StartRun \/ EndRun
  BY <1>1, <1>2 DEF StartRun, EndRun
<1>3. CASE Crash
  BY <1>1, <1>3 DEF Crash
<1>4. CASE PlanDeletions
  BY <1>1, <1>4 DEF PlanDeletions
<1>5. ASSUME NEW p \in Paths, Visit(p) PROVE Owned'
  BY <1>1, <1>5 DEF Visit, TypeOK
<1>6. ASSUME NEW p \in Paths, VisitUnreadable(p) \/ Abort(p) PROVE Owned'
  BY <1>1, <1>6 DEF VisitUnreadable, Abort, planVars, TypeOK
<1> QED
  BY <1>2, <1>3, <1>4, <1>5, <1>6

-----------------------------------------------------------------------------
(* The handlers *)

LEMMA OwnedIsMapped == ASSUME Owned PROVE Mapped
  BY DEF Owned, Mapped, PathInv, RowIsBacked

\* What a handler may rely on: its document is a real one, and its own.
LEMMA InHandMapped ==
  ASSUME TypeOK, Mapped, NEW p \in Paths, task[p].pc \in WithDocument
  PROVE  /\ task[p].doc \in DocIds
         /\ docs[task[p].doc] \in Document
         /\ docs[task[p].doc].path = p
         /\ docs[task[p].doc].status # "UNUSED"
         /\ rows[p].doc \in MaybeDoc
<1>1. task[p].doc \in MaybeDoc /\ rows[p].doc \in MaybeDoc
  BY DEF TypeOK, Task, Row
<1>2. task[p].doc # NoDoc /\ docs[task[p].doc].path = p
  BY DEF Mapped, OwnsDocument
<1> QED
  BY <1>1, <1>2, NoPathAssumption DEF MaybeDoc, TypeOK, Mapped, FreshIdsAreUnbound

LEMMA InHand ==
  ASSUME TypeOK, Owned, NEW p \in Paths, task[p].pc \in WithDocument
  PROVE  /\ task[p].doc \in DocIds
         /\ docs[task[p].doc] \in Document
         /\ docs[task[p].doc].path = p
         /\ docs[task[p].doc].status # "UNUSED"
         /\ rows[p].doc \in MaybeDoc
  BY OwnedIsMapped, InHandMapped

\* A handler step writes its row, its task, and no document but its own.
LEMMA Touches ==
  ASSUME TypeOK, Owned, NEW p \in Paths, NEW row, NEW t,
         rows' = [rows EXCEPT ![p] = row] \/ rows' = rows,
         task' = [task EXCEPT ![p] = t] \/ task' = task,
         \/ docs' = docs
         \/ \E d \in DocIds : \E doc :
              /\ docs' = [docs EXCEPT ![d] = doc]
              /\ docs[d].path \in {p, NoPath} /\ doc.path = p /\ doc.status # "UNUSED"
  PROVE  TouchesOnly(p)
  BY DEF TypeOK, TouchesOnly

\* A worker that takes an action finds the row the plan was made from.
LEMMA StartOwned ==
  ASSUME TypeOK, Owned, NEW p \in Paths, Start(p)
  PROVE  Owned'
<1> USE DEF Dequeue, planVars, environment
<1>1. rows[p] \in Row /\ task[p] \in Task /\ PathInv(p)
  BY DEF TypeOK, Owned
<1>2. task[p].pc = "queued" /\ docs' = docs
  BY DEF Start, StartUpload, StartReplace, StartResume, StartDelete
<1>3. CASE StartUpload(p)
  <2>1. /\ rows' = [rows EXCEPT ![p] = Upserted(rows[p])]
        /\ task' = [task EXCEPT ![p] = [task[p] EXCEPT !.pc = "init"]]
        /\ rows[p].doc = NoDoc
    BY <1>1, <1>3 DEF StartUpload, RecordScan, Goto, PathInv, PlanFits
  <2>2. TouchesOnly(p)
    BY <1>2, <2>1, Touches
  <2>3. /\ rows'[p].doc = NoDoc
        /\ rows'[p].state = IF rows[p].state = "ABSENT" THEN "NEW" ELSE rows[p].state
        /\ task'[p].pc = "init"
        /\ task'[p].doc = task[p].doc
    BY <1>1, <2>1 DEF TypeOK, Row, Task, Upserted
  <2>4. PathInv(p)'
    BY <1>1, <1>2, <2>1, <2>3 DEF PathInv, OwnsDocument, PlanFits, HandlerIsBacked, RowIsBacked,
       InFlightStates, WithDocument, Bound, Emptying
  <2> QED
    BY <2>2, <2>4, Frame
<1>4. CASE StartReplace(p)
  <2>1. /\ rows' = [rows EXCEPT ![p] = Upserted(rows[p])]
        /\ task' = [task EXCEPT ![p] = [task[p] EXCEPT !.pc = "reinit", !.doc = rows[p].doc]]
        /\ rows[p].doc # NoDoc /\ rows[p].state \notin InFlightStates
    BY <1>1, <1>4 DEF StartReplace, RecordScan, GotoWith, PathInv, PlanFits
  <2>2. TouchesOnly(p)
    BY <1>2, <2>1, Touches
  <2>3. /\ rows'[p].doc = rows[p].doc
        /\ rows'[p].state \notin InFlightStates
        /\ task'[p].pc = "reinit"
        /\ task'[p].doc = rows[p].doc
    BY <1>1, <2>1 DEF TypeOK, Row, Task, Upserted, InFlightStates
  <2>4. PathInv(p)'
    BY <1>1, <1>2, <2>1, <2>3 DEF PathInv, OwnsDocument, PlanFits, HandlerIsBacked, RowIsBacked,
       InFlightStates, Emptying
  <2> QED
    BY <2>2, <2>4, Frame
<1>5. CASE StartResume(p)
  <2>1. PICK pc \in ResumesAt(rows[p].state) :
          task' = [task EXCEPT ![p] = [task[p] EXCEPT !.pc = pc, !.doc = rows[p].doc]]
    BY <1>5 DEF StartResume, GotoWith
  <2>2. rows' = rows /\ rows[p].state \in InFlightStates /\ rows[p].doc # NoDoc
    BY <1>1, <1>5 DEF StartResume, PathInv, PlanFits, RowIsBacked
  <2>3. TouchesOnly(p)
    BY <1>2, <2>1, <2>2, Touches
  <2>4. task'[p].pc = pc /\ task'[p].doc = rows[p].doc
    BY <1>1, <2>1 DEF TypeOK, Task
  <2>5. /\ pc \in {"finalise", "commit", "push", "reinit"}
        /\ pc = "commit" => rows[p].state = "UPLOADED"
        /\ pc = "reinit" => rows[p].state = "PENDING_UPLOAD"
    BY <2>2 DEF ResumesAt, InFlightStates
  <2>6. PathInv(p)'
    BY <1>1, <1>2, <2>2, <2>4, <2>5 DEF PathInv, OwnsDocument, PlanFits, HandlerIsBacked,
       RowIsBacked, Backs, Emptying
  <2> QED
    BY <2>3, <2>6, Frame
<1>6. CASE StartDelete(p)
  <2>1. /\ rows' = rows
        /\ task' = [task EXCEPT ![p] = [task[p] EXCEPT
                     !.pc = IF rows[p].doc = NoDoc THEN "forget" ELSE "delete",
                     !.doc = rows[p].doc]]
    BY <1>6 DEF StartDelete, GotoWith
  <2>2. TouchesOnly(p)
    BY <1>2, <2>1, Touches
  <2>3. /\ task'[p].pc = IF rows[p].doc = NoDoc THEN "forget" ELSE "delete"
        /\ task'[p].doc = rows[p].doc
    BY <1>1, <2>1 DEF TypeOK, Task
  <2>4. PathInv(p)'
    BY <1>1, <1>2, <2>1, <2>3 DEF PathInv, OwnsDocument, PlanFits, HandlerIsBacked, RowIsBacked,
       WithDocument, Bound, Emptying
  <2> QED
    BY <2>2, <2>4, Frame
<1> QED
  BY <1>3, <1>4, <1>5, <1>6 DEF Start

\* A failed handler leaves a FAILED row, which claims nothing.
LEMMA Fails ==
  ASSUME TypeOK, Owned, NEW p \in Paths, Fail(p),
         \A d \in DocIds :
           \/ docs'[d] = docs[d]
           \/ /\ docs[d].path \in {p, NoPath}
              /\ docs'[d].path = p
              /\ docs'[d].status # "UNUSED"
  PROVE  Owned'
<1>1. rows[p] \in Row /\ rows[p].doc \in MaybeDoc /\ PathInv(p)
  BY DEF TypeOK, Row, Owned
<1>2. TouchesOnly(p)
  BY DEF Fail, EndTask, TouchesOnly, TypeOK
<1>3. /\ rows'[p].doc = rows[p].doc
      /\ rows'[p].state \in {"ABSENT", "FAILED"}
      /\ task'[p].pc = "none" /\ task'[p].doc = NoDoc
  BY <1>1 DEF Fail, EndTask, WithFailure, WithSyncState, NoTask, TypeOK, Row
<1>4. rows'[p].doc # NoDoc => docs'[rows'[p].doc].path = p
  BY <1>1, <1>3 DEF PathInv, OwnsDocument, MaybeDoc
<1>5. PathInv(p)'
  BY <1>3, <1>4 DEF PathInv, OwnsDocument, PlanFits, HandlerIsBacked, RowIsBacked,
     InFlightStates, WithDocument, Bound, Emptying
<1> QED
  BY <1>2, <1>5, Frame

\* Every remote call and every refusal leaves the handler knowing what the corpus has.
LEMMA CallOwned ==
  ASSUME TypeOK, Owned, NEW p \in Paths, Call(p)
  PROVE  Owned'
<1> USE DEF planVars, environment
<1>1. rows[p] \in Row /\ task[p] \in Task /\ PathInv(p)
  BY DEF TypeOK, Owned
<1>2. CASE InitUpload(p)
  <2>1. PICK d \in DocIds :
          /\ docs[d].status = "UNUSED"
          /\ docs' = [docs EXCEPT ![d] = Initialised(p)]
          /\ task' = [task EXCEPT ![p] = [task[p] EXCEPT !.pc = "storeDocument", !.doc = d]]
    BY <1>2 DEF InitUpload, GotoWith
  <2>2. rows' = rows /\ task[p].pc = "init"
    BY <1>2 DEF InitUpload
  <2>3. docs[d].path = NoPath
    BY <2>1 DEF Owned, FreshIdsAreUnbound
  <2>4. TouchesOnly(p)
    <3>1. Initialised(p).path = p /\ Initialised(p).status # "UNUSED"
      BY DEF Initialised
    <3> QED
      BY <2>1, <2>2, <2>3, <3>1, Touches
  <2>5. /\ task'[p].pc = "storeDocument" /\ task'[p].doc = d
        /\ docs'[d].path = p /\ d # NoDoc
    BY <1>1, <2>1, NoDocAssumption DEF TypeOK, Task, Initialised
  <2>6. \A e \in DocIds : docs[e].path = p => docs'[e] = docs[e]
    BY <2>1, <2>3, NoPathAssumption DEF TypeOK
  <2>7. rows[p].doc \in MaybeDoc
    BY <1>1 DEF Row
  <2>8. rows[p].doc # NoDoc => docs'[rows[p].doc] = docs[rows[p].doc]
    BY <1>1, <2>6, <2>7 DEF PathInv, OwnsDocument, MaybeDoc
  <2>9. PathInv(p)'
    BY <1>1, <2>2, <2>5, <2>8 DEF PathInv, OwnsDocument, PlanFits, HandlerIsBacked, RowIsBacked,
       Bound, Emptying, InFlightStates
  <2> QED
    BY <2>4, <2>9, Frame
<1>3. CASE ReinitUpload(p)
  <2> DEFINE d == task[p].doc
  <2>1. /\ rows' = rows /\ task[p].pc = "reinit"
        /\ docs' = [docs EXCEPT ![d] = Reinitialised(docs[d])]
        /\ task' = [task EXCEPT ![p] = [task[p] EXCEPT !.pc = "storeDocument"]]
    BY <1>3 DEF ReinitUpload, Goto
  <2>2. d \in DocIds /\ docs[d] \in Document /\ docs[d].path = p
    BY <2>1, InHand DEF WithDocument
  <2>3. docs'[d].path = p /\ docs'[d].status = "AWAITING_UPLOAD"
    BY <2>1, <2>2 DEF TypeOK, Reinitialised, Document
  <2>4. TouchesOnly(p)
    BY <2>1, <2>2, <2>3, Touches DEF TypeOK
  <2>5. task'[p].pc = "storeDocument" /\ task'[p].doc = d
    BY <1>1, <2>1 DEF TypeOK, Task
  <2>6. rows[p].doc = d /\ rows[p].state \notin {"UPLOADED", "COMMITTED"} /\ d # NoDoc
    BY <1>1, <2>1 DEF PathInv, OwnsDocument, HandlerIsBacked, WithDocument, Bound, Emptying
  <2>7. PathInv(p)'
    BY <1>1, <2>1, <2>3, <2>5, <2>6 DEF PathInv, OwnsDocument, PlanFits, HandlerIsBacked,
       RowIsBacked, Bound, Emptying
  <2> QED
    BY <2>4, <2>7, Frame
<1>4. CASE ReinitRefused(p)
  <2>1. /\ docs' = docs /\ task[p].pc = "reinit"
        /\ rows' = [rows EXCEPT ![p] = WithSyncedHash(rows[p], NoContent)]
        /\ task' = [task EXCEPT ![p] = [task[p] EXCEPT !.pc = "init", !.doc = NoDoc]]
    BY <1>4 DEF ReinitRefused, GotoWith
  <2>2. TouchesOnly(p)
    BY <2>1, Touches
  <2>3. /\ rows'[p].doc = rows[p].doc /\ rows'[p].state = rows[p].state
        /\ task'[p].pc = "init" /\ task'[p].doc = NoDoc
    BY <1>1, <2>1 DEF TypeOK, Row, Task, WithSyncedHash
  <2>4. PathInv(p)'
    BY <1>1, <2>1, <2>3 DEF PathInv, OwnsDocument, PlanFits, HandlerIsBacked, RowIsBacked,
       WithDocument, Bound, Emptying
  <2> QED
    BY <2>2, <2>4, Frame
<1>5. CASE Push(p)
  <2> DEFINE d == task[p].doc
  <2>1. /\ rows' = rows /\ task[p].pc = "push" /\ disk[p] # NoContent
        /\ docs' = [docs EXCEPT ![d] = WithBytes(docs[d], disk[p])]
        /\ task' = [task EXCEPT ![p] = [task[p] EXCEPT !.pc = "storeUploaded"]]
    BY <1>5 DEF Push, Goto
  <2>2. d \in DocIds /\ docs[d] \in Document /\ docs[d].path = p /\ docs[d].status # "UNUSED"
    BY <2>1, InHand DEF WithDocument
  <2>3. /\ docs'[d].path = p /\ docs'[d].status = docs[d].status
        /\ docs'[d].status = "DELETED" \/ docs'[d].blob # NoContent
    BY <2>1, <2>2 DEF TypeOK, WithBytes, Exists, Document
  <2>4. TouchesOnly(p)
    BY <2>1, <2>2, <2>3, Touches DEF TypeOK
  <2>5. task'[p].pc = "storeUploaded" /\ task'[p].doc = d
    BY <1>1, <2>1 DEF TypeOK, Task
  <2>6. rows[p].doc = d /\ d # NoDoc
    BY <1>1, <2>1 DEF PathInv, OwnsDocument, WithDocument, Bound
  <2>7. PathInv(p)'
    BY <1>1, <2>1, <2>3, <2>5, <2>6 DEF PathInv, OwnsDocument, PlanFits, HandlerIsBacked,
       RowIsBacked, Backs, Emptying
  <2> QED
    BY <2>4, <2>7, Frame
<1>6. CASE PushFails(p) \/ CommitFails(p) \/ PollFails(p)
  BY <1>6, Fails DEF PushFails, CommitFails, PollFails
<1>7. CASE CommitDocument(p)
  <2> DEFINE d == task[p].doc
  <2>1. /\ rows' = rows /\ task[p].pc = "commit" /\ Committable(docs[d])
        /\ docs' = [docs EXCEPT ![d] = Committed(docs[d])]
        /\ task' = [task EXCEPT ![p] = [task[p] EXCEPT !.pc = "storeCommitted"]]
    BY <1>7 DEF CommitDocument, Goto
  <2>2. d \in DocIds /\ docs[d] \in Document /\ docs[d].path = p /\ docs[d].status # "UNUSED"
    BY <2>1, InHand DEF WithDocument
  <2>3. /\ docs'[d].path = p /\ docs'[d].blob = docs[d].blob
        /\ docs'[d].status \in {"PROCESSING", "READY"} /\ docs[d].blob # NoContent
    BY <2>1, <2>2 DEF TypeOK, Committed, AlreadyCommitted, Committable, Document
  <2>4. TouchesOnly(p)
    BY <2>1, <2>2, <2>3, Touches DEF TypeOK
  <2>5. task'[p].pc = "storeCommitted" /\ task'[p].doc = d
    BY <1>1, <2>1 DEF TypeOK, Task
  <2>6. rows[p].doc = d /\ d # NoDoc
    BY <1>1, <2>1 DEF PathInv, OwnsDocument, WithDocument, Bound
  <2>7. PathInv(p)'
    BY <1>1, <2>1, <2>3, <2>5, <2>6 DEF PathInv, OwnsDocument, PlanFits, HandlerIsBacked,
       RowIsBacked, Backs, Emptying, AfterCommit
  <2> QED
    BY <2>4, <2>7, Frame
<1>8. CASE CommitDuplicate(p) \/ Finalise(p) \/ PollReady(p)
  <2>1. /\ rows' = rows /\ docs' = docs /\ task[p].pc \in {"commit", "finalise", "poll"}
        /\ \E pc \in {"poll", "markHash"} :
             task' = [task EXCEPT ![p] = [task[p] EXCEPT !.pc = pc]]
    BY <1>8 DEF CommitDuplicate, Finalise, PollReady, Goto
  <2>2. TouchesOnly(p)
    BY <2>1, Touches
  <2>3. task'[p].pc \in {"poll", "markHash"} /\ task'[p].doc = task[p].doc
    BY <1>1, <2>1 DEF TypeOK, Task
  <2>4. PathInv(p)'
    BY <1>1, <2>1, <2>3 DEF PathInv, OwnsDocument, PlanFits, HandlerIsBacked, RowIsBacked,
       WithDocument, Bound, Emptying
  <2> QED
    BY <2>2, <2>4, Frame
<1>9. CASE PollTimesOut(p)
  <2>1. PathInv(p)'
    BY <1>1, <1>9, Requeue DEF PollTimesOut, EndTask, TypeOK
  <2>2. TouchesOnly(p)
    BY <1>9, Touches DEF PollTimesOut, EndTask
  <2> QED
    BY <2>1, <2>2, Frame
<1>10. CASE DeleteDocument(p)
  <2> DEFINE d == task[p].doc
  <2>1. /\ rows' = rows /\ task[p].pc = "delete"
        /\ docs' = [docs EXCEPT ![d] = Deleted(docs[d])]
        /\ task' = [task EXCEPT ![p] = [task[p] EXCEPT !.pc = "forget"]]
    BY <1>10 DEF DeleteDocument, Goto
  <2>2. d \in DocIds /\ docs[d] \in Document /\ docs[d].path = p
    BY <2>1, InHand DEF WithDocument
  <2>3. docs'[d].path = p /\ docs'[d].status = "DELETED"
    BY <2>1, <2>2 DEF TypeOK, Deleted, Document
  <2>4. TouchesOnly(p)
    BY <2>1, <2>2, <2>3, Touches DEF TypeOK
  <2>5. task'[p].pc = "forget" /\ task'[p].doc = d
    BY <1>1, <2>1 DEF TypeOK, Task
  <2>6. rows[p].doc = d /\ d # NoDoc
    BY <1>1, <2>1 DEF PathInv, OwnsDocument, WithDocument, Bound
  <2>7. PathInv(p)'
    BY <1>1, <2>1, <2>3, <2>5, <2>6 DEF PathInv, OwnsDocument, PlanFits, HandlerIsBacked,
       RowIsBacked, Backs, WithDocument, Bound, Emptying
  <2> QED
    BY <2>4, <2>7, Frame
<1> QED
  BY <1>2, <1>3, <1>4, <1>5, <1>6, <1>7, <1>8, <1>9, <1>10 DEF Call

\* The writes copy into the row what the task knows; HandlerIsBacked says it is so.
LEMMA StoreOwned ==
  ASSUME TypeOK, Owned, NEW p \in Paths, Store(p)
  PROVE  Owned'
<1> USE DEF planVars, environment
<1>1. rows[p] \in Row /\ task[p] \in Task /\ PathInv(p)
  BY DEF TypeOK, Owned
<1>2. docs' = docs /\ task[p].pc \in Writes
  BY DEF Store, StoreDocument, StorePending, StoreUploaded, StoreCommitted, StoreSyncedHash,
     MarkHash, MarkState, ForgetRow, Write, Writes
<1>3. TouchesOnly(p)
  BY <1>2, Touches DEF Store, StoreDocument, StorePending, StoreUploaded, StoreCommitted,
     StoreSyncedHash, MarkHash, MarkState, ForgetRow, Write, Goto, EndTask
<1>4. PathInv(p)'
  <2>1. CASE StoreDocument(p)
    <3>1. /\ task[p].pc = "storeDocument" /\ task[p].doc # NoDoc
          /\ rows'[p].doc = task[p].doc /\ rows'[p].state = rows[p].state
          /\ task'[p].pc = "storePending" /\ task'[p].doc = task[p].doc
      BY <1>1, <2>1 DEF StoreDocument, Write, Goto, WithDocumentId, TypeOK, Row, Task,
         PathInv, OwnsDocument, WithDocument
    <3> QED
      BY <1>1, <1>2, <3>1 DEF PathInv, OwnsDocument, PlanFits, HandlerIsBacked, RowIsBacked,
         Emptying
  <2>2. CASE StorePending(p)
    <3>1. /\ task[p].pc = "storePending" /\ task[p].doc # NoDoc /\ task[p].doc = rows[p].doc
          /\ rows'[p].doc = rows[p].doc /\ rows'[p].state = "PENDING_UPLOAD"
          /\ task'[p].pc = "push" /\ task'[p].doc = task[p].doc
      BY <1>1, <2>2 DEF StorePending, Write, Goto, WithSyncState, TypeOK, Row, Task,
         PathInv, OwnsDocument, WithDocument, Bound
    <3> QED
      BY <1>1, <1>2, <3>1 DEF PathInv, OwnsDocument, PlanFits, HandlerIsBacked, RowIsBacked,
         Emptying
  <2>3. CASE StoreUploaded(p)
    <3>1. /\ task[p].pc = "storeUploaded" /\ task[p].doc # NoDoc /\ task[p].doc = rows[p].doc
          /\ rows'[p].doc = rows[p].doc /\ rows'[p].state = "UPLOADED"
          /\ task'[p].pc = "commit" /\ task'[p].doc = task[p].doc
      BY <1>1, <2>3 DEF StoreUploaded, Write, Goto, WithSyncState, TypeOK, Row, Task,
         PathInv, OwnsDocument, WithDocument, Bound
    <3> QED
      BY <1>1, <1>2, <3>1 DEF PathInv, OwnsDocument, PlanFits, HandlerIsBacked, RowIsBacked,
         Backs, Emptying
  <2>4. CASE StoreCommitted(p)
    <3>1. /\ task[p].pc = "storeCommitted" /\ task[p].doc # NoDoc /\ task[p].doc = rows[p].doc
          /\ rows'[p].doc = rows[p].doc /\ rows'[p].state = "COMMITTED"
          /\ task'[p].pc = "storeSyncedHash" /\ task'[p].doc = task[p].doc
      BY <1>1, <2>4 DEF StoreCommitted, Write, Goto, WithSyncState, TypeOK, Row, Task,
         PathInv, OwnsDocument, WithDocument, Bound
    <3> QED
      BY <1>1, <1>2, <3>1 DEF PathInv, OwnsDocument, PlanFits, HandlerIsBacked, RowIsBacked,
         Backs, AfterCommit, Emptying
  <2>5. CASE StoreSyncedHash(p) \/ MarkHash(p)
    <3>1. /\ task[p].pc \in {"storeSyncedHash", "markHash"}
          /\ task[p].doc # NoDoc /\ task[p].doc = rows[p].doc
          /\ rows'[p].doc = rows[p].doc /\ rows'[p].state = rows[p].state
          /\ task'[p].pc \in {"finalise", "markState"} /\ task'[p].doc = task[p].doc
      BY <1>1, <2>5 DEF StoreSyncedHash, MarkHash, Write, Goto, WithSyncedHash, TypeOK, Row, Task,
         PathInv, OwnsDocument, WithDocument, Bound
    <3> QED
      BY <1>1, <1>2, <3>1 DEF PathInv, OwnsDocument, PlanFits, HandlerIsBacked, RowIsBacked,
         Emptying
  <2>6. CASE MarkState(p)
    <3>1. /\ rows'[p].doc = rows[p].doc /\ rows'[p].state = "SYNCED"
          /\ task'[p].pc = "none" /\ task'[p].doc = NoDoc
      BY <1>1, <2>6 DEF MarkState, EndTask, NoTask, WithSyncState, TypeOK, Row
    <3> QED
      BY <1>1, <1>2, <3>1 DEF PathInv, OwnsDocument, PlanFits, HandlerIsBacked, RowIsBacked,
         InFlightStates, WithDocument, Bound, Emptying
  <2>7. CASE ForgetRow(p)
    <3>1. rows'[p] = NoRow /\ task'[p] = NoTask
      BY <2>7 DEF ForgetRow, EndTask, TypeOK
    <3> QED
      BY <3>1, NothingToOwn DEF NoRow, InFlightStates, PathInv, OwnsDocument, PlanFits,
         HandlerIsBacked, RowIsBacked, NoTask, WithDocument, Bound, Emptying
  <2> QED
    BY <2>1, <2>2, <2>3, <2>4, <2>5, <2>6, <2>7 DEF Store
<1> QED
  BY <1>3, <1>4, Frame

-----------------------------------------------------------------------------
(* Mishaps and the environment *)

\* Every request leaves a document its path, and all but a re-init leave what
\* a row may have claimed of it.
LEMMA DocumentSteps ==
  ASSUME NEW doc \in Document, doc.status # "UNUSED"
  PROVE  /\ Reinitialised(doc).path = doc.path
         /\ Reinitialised(doc).status # "UNUSED"
         /\ Committed(doc).path = doc.path
         /\ Committed(doc).status # "UNUSED"
         /\ Committed(doc).blob = doc.blob
         /\ Committable(doc) => \A state : Backs(doc, state) => Backs(Committed(doc), state)
         /\ Deleted(doc).path = doc.path
         /\ Deleted(doc).status = "DELETED"
         /\ \A state : Backs(Deleted(doc), state)
<1> USE DEF Document, Backs
<1>1. Reinitialised(doc).path = doc.path /\ Reinitialised(doc).status # "UNUSED"
  BY DEF Reinitialised
<1>2. /\ Committed(doc).path = doc.path /\ Committed(doc).blob = doc.blob
      /\ Committed(doc).status \in {"PROCESSING", "READY"}
  BY DEF Committed, AlreadyCommitted
<1>3. Deleted(doc).path = doc.path /\ Deleted(doc).status = "DELETED"
  BY DEF Deleted
<1>4. ASSUME Committable(doc), NEW state, Backs(doc, state)
      PROVE  Backs(Committed(doc), state)
  BY <1>2, <1>4 DEF Committable, Exists
<1> QED
  BY <1>1, <1>2, <1>3, <1>4

\* Bytes that arrive take nothing from under a row.
LEMMA BytesStep ==
  ASSUME NEW doc \in Document, doc.status # "UNUSED", NEW c, c # NoContent
  PROVE  /\ WithBytes(doc, c).path = doc.path
         /\ WithBytes(doc, c).status # "UNUSED"
         /\ \A state : Backs(doc, state) => Backs(WithBytes(doc, c), state)
  BY DEF Document, Backs, WithBytes, Exists

\* An effect without an answer stays within the documents of p, and takes nothing
\* from under the row of p that the row claims.
LEMMA EffectOwned ==
  ASSUME TypeOK, Owned, NEW p \in Paths, TakesEffect(p)
  PROVE  /\ \A d \in DocIds :
              \/ docs'[d] = docs[d]
              \/ /\ docs[d].path \in {p, NoPath}
                 /\ docs'[d].path = p
                 /\ docs'[d].status # "UNUSED"
         /\ UNCHANGED <<rows, task>> => PathInv(p)'
<1>1. rows[p] \in Row /\ task[p] \in Task /\ PathInv(p) /\ rows[p].doc \in MaybeDoc
  BY DEF TypeOK, Row, Owned
<1>2. CASE task[p].pc = "init"
  <2>1. PICK e \in DocIds :
          docs[e].status = "UNUSED" /\ docs' = [docs EXCEPT ![e] = Initialised(p)]
    BY <1>2 DEF TakesEffect
  <2>2. docs[e].path = NoPath /\ docs'[e].path = p /\ docs'[e].status # "UNUSED"
    BY <2>1 DEF Owned, FreshIdsAreUnbound, TypeOK, Initialised
  <2>3. \A d \in DocIds \ {e} : docs'[d] = docs[d]
    BY <2>1 DEF TypeOK
  <2>4. /\ rows[p].doc # NoDoc => docs'[rows[p].doc] = docs[rows[p].doc]
        /\ task[p].doc # NoDoc => docs'[task[p].doc] = docs[task[p].doc]
    BY <1>1, <2>2, <2>3, NoPathAssumption DEF PathInv, OwnsDocument, MaybeDoc, Task
  <2>5. UNCHANGED <<rows, task>> => PathInv(p)'
    BY <1>1, <1>2, <2>4 DEF PathInv, OwnsDocument, PlanFits, HandlerIsBacked, RowIsBacked,
       InFlightStates
  <2> QED
    BY <2>2, <2>3, <2>5
<1>3. CASE task[p].pc # "init"
  <2> DEFINE d == task[p].doc
  <2>1. task[p].pc \in {"reinit", "push", "commit", "delete"}
    BY <1>3 DEF TakesEffect
  <2>2. /\ d \in DocIds /\ docs[d] \in Document
        /\ docs[d].path = p /\ docs[d].status # "UNUSED"
    BY <2>1, InHand DEF WithDocument
  <2>3. d # NoDoc /\ d = rows[p].doc
    BY <1>1, <2>1 DEF PathInv, OwnsDocument, WithDocument, Bound
  <2>4. /\ \A e \in DocIds \ {d} : docs'[e] = docs[e]
        /\ \/ task[p].pc = "reinit" /\ docs'[d] = Reinitialised(docs[d])
           \/ task[p].pc = "push" /\ disk[p] # NoContent /\ docs'[d] = WithBytes(docs[d], disk[p])
           \/ task[p].pc = "commit" /\ Committable(docs[d]) /\ docs'[d] = Committed(docs[d])
           \/ task[p].pc = "delete" /\ docs'[d] = Deleted(docs[d])
    BY <1>3, <2>2 DEF TakesEffect, TypeOK
  <2>5. docs'[d].path = p /\ docs'[d].status # "UNUSED"
    <3>1. CASE docs'[d] = Reinitialised(docs[d]) \/ docs'[d] = Committed(docs[d])
      BY <2>2, <3>1, DocumentSteps
    <3>2. CASE disk[p] # NoContent /\ docs'[d] = WithBytes(docs[d], disk[p])
      BY <2>2, <3>2, BytesStep
    <3>3. CASE docs'[d] = Deleted(docs[d])
      BY <2>2, <3>3, DocumentSteps
    <3> QED
      BY <2>4, <3>1, <3>2, <3>3
  <2>6. ASSUME task[p].pc # "reinit", NEW state, Backs(docs[d], state)
        PROVE  Backs(docs'[d], state)
    <3>1. CASE disk[p] # NoContent /\ docs'[d] = WithBytes(docs[d], disk[p])
      BY <2>2, <2>6, <3>1, BytesStep
    <3>2. CASE Committable(docs[d]) /\ docs'[d] = Committed(docs[d])
      BY <2>2, <2>6, <3>2, DocumentSteps
    <3>3. CASE docs'[d] = Deleted(docs[d])
      BY <2>2, <3>3, DocumentSteps
    <3> QED
      BY <2>4, <2>6, <3>1, <3>2, <3>3
  <2>7. /\ task[p].pc = "commit" => docs'[d].blob # NoContent
        /\ task[p].pc \notin {"forget", "storeCommitted", "storeUploaded"}
    BY <2>1, <2>2, <2>4, DocumentSteps DEF Committable
  <2>8. UNCHANGED <<rows, task>> => PathInv(p)'
    BY <1>1, <2>1, <2>3, <2>5, <2>6, <2>7 DEF PathInv, OwnsDocument, PlanFits, HandlerIsBacked,
       RowIsBacked, Emptying
  <2> QED
    BY <2>2, <2>4, <2>5, <2>8
<1> QED
  BY <1>2, <1>3

\* A lost call, a lost answer or an aborted worker leaves no row that claims too much.
LEMMA MisfortuneOwned ==
  ASSUME TypeOK, Owned, NEW p \in Paths, Misfortune(p)
  PROVE  Owned'
<1>1. CASE CallFails(p)
  <2>1. CASE TakesEffect(p)
    BY <1>1, <2>1, EffectOwned, Fails DEF CallFails
  <2>2. CASE UNCHANGED docs
    BY <1>1, <2>2, Fails DEF CallFails
  <2> QED
    BY <1>1, <2>1, <2>2 DEF CallFails
<1>2. CASE CallRetried(p)
  BY <1>2, EffectOwned, Frame DEF CallRetried, TouchesOnly
<1>3. CASE Abort(p)
  BY <1>3, PlanOwned
<1> QED
  BY <1>1, <1>2, <1>3 DEF Misfortune

\* Ingestion and the backoffice change statuses only as Backs allows.
LEMMA EnvironmentOwned ==
  ASSUME TypeOK, Owned
  PROVE  /\ \A p \in Paths : Edit(p) => Owned'
         /\ \A d \in DocIds : Ingest(d) \/ IngestFails(d) \/ BackofficeDelete(d) => Owned'
<1>1. ASSUME NEW p \in Paths, Edit(p) PROVE Owned'
  <2>1. UNCHANGED <<rows, docs, task>>
    BY <1>1 DEF Edit
  <2>2. \A q \in Paths : PathInv(q)'
    BY <2>1, Requeue DEF Owned
  <2> QED
    BY <2>1, <2>2 DEF Owned, FreshIdsAreUnbound
<1>2. ASSUME NEW d \in DocIds, Ingest(d) \/ IngestFails(d) \/ BackofficeDelete(d)
      PROVE  Owned'
  <2>1. UNCHANGED <<rows, task>> /\ docs[d] \in Document
    BY <1>2 DEF Ingest, IngestFails, BackofficeDelete, TypeOK
  <2>2. \A e \in DocIds \ {d} : docs'[e] = docs[e]
    BY <1>2 DEF Ingest, IngestFails, BackofficeDelete, TypeOK
  <2>3. /\ docs'[d].path = docs[d].path /\ docs'[d].status # "UNUSED"
        /\ docs'[d].status = "DELETED"
             \/ /\ docs[d].status = "PROCESSING"
                /\ docs'[d].status \in {"READY", "FAILED"}
                /\ docs'[d].blob = docs[d].blob
        /\ docs[d].status # "UNUSED" /\ docs[d].status # "DELETED"
    <3>1. CASE Ingest(d) \/ IngestFails(d)
      BY <2>1, <3>1 DEF Ingest, IngestFails, TypeOK, Settled, Document
    <3>2. CASE BackofficeDelete(d)
      BY <2>1, <3>2, DocumentSteps DEF BackofficeDelete, TypeOK, Exists
    <3> QED
      BY <1>2, <3>1, <3>2
  <2>4. FreshIdsAreUnbound'
    BY <2>2, <2>3 DEF Owned, FreshIdsAreUnbound
  <2>5. ASSUME NEW p \in Paths PROVE PathInv(p)'
    <3>1. rows[p].doc \in MaybeDoc /\ task[p].doc \in MaybeDoc /\ PathInv(p)
      BY DEF TypeOK, Row, Task, Owned
    <3>2. OwnsDocument(p)' /\ PlanFits(p)'
      BY <2>1, <2>2, <2>3, <3>1 DEF PathInv, OwnsDocument, PlanFits, MaybeDoc
    <3>3. HandlerIsBacked(p)'
      BY <2>1, <2>2, <2>3, <3>1 DEF PathInv, OwnsDocument, HandlerIsBacked, MaybeDoc, WithDocument,
         AfterCommit
    <3>4. RowIsBacked(p)'
      BY <2>1, <2>2, <2>3, <3>1 DEF PathInv, RowIsBacked, MaybeDoc, InFlightStates, Backs
    <3> QED
      BY <3>2, <3>3, <3>4 DEF PathInv
  <2> QED
    BY <2>4, <2>5 DEF Owned
<1> QED
  BY <1>1, <1>2

\* Every step of the job preserves ownership and backing.
LEMMA NextOwned == ASSUME TypeOK, Owned, [Next]_vars PROVE Owned'
<1>1. CASE UNCHANGED vars
  <2>1. \A q \in Paths : PathInv(q)'
    BY <1>1, Requeue DEF vars, Owned
  <2> QED
    BY <1>1, <2>1 DEF vars, Owned, FreshIdsAreUnbound
<1>2. CASE Next
  BY <1>2, PlanOwned, StartOwned, CallOwned, StoreOwned, MisfortuneOwned, EnvironmentOwned
  DEF Next, Work
<1> QED
  BY <1>1, <1>2

\* Rows and tasks never claim more than the corpus holds, nor another file's document.
THEOREM OwnedAlways == Spec => []Owned
<1>1. Spec => []TypeOK
  BY TypeCorrect
<1> QED
  BY <1>1, InitOwned, NextOwned, PTL DEF Spec

-----------------------------------------------------------------------------
(* Deletions *)

Due == \A p \in Paths : DeletionIsDue(p)

\* A handler step that starts no deletion, and changes nothing the plan stands on.
LEMMA DueStep ==
  ASSUME TypeOK, Due, NEW p \in Paths, UNCHANGED <<phase, seen, vanished, disk>>,
         \A q \in Paths \ {p} : task'[q] = task[q],
         phase = "applying",
         IsDeletion(p)' => IsDeletion(p)
  PROVE  Due'
  BY DEF Due, DeletionIsDue, IsDeletion

\* A handler that is under way shows that a run is.
LEMMA Applying ==
  ASSUME TypeOK, Due, NEW p \in Paths, task[p].pc \notin {"none", "queued"}
  PROVE  phase = "applying"
  BY DEF TypeOK, Due, DeletionIsDue

\* No task exists initially.
LEMMA InitDue == ASSUME Init PROVE Due
  BY DEF Init, Due, DeletionIsDue, IsDeletion, NoTask

\* Planning queues deletions only of files this run has missed.
LEMMA PlanDue ==
  ASSUME TypeOK, Due
  PROVE  /\ StartRun \/ PlanDeletions \/ EndRun \/ Crash => Due'
         /\ \A p \in Paths : Visit(p) \/ VisitUnreadable(p) => Due'
<1> USE DEF Due
<1>1. CASE StartRun
  BY <1>1 DEF StartRun, DeletionIsDue, IsDeletion
<1>2. CASE EndRun
  BY <1>2 DEF EndRun, DeletionIsDue, IsDeletion
<1>3. CASE Crash
  BY <1>3 DEF Crash, DeletionIsDue, IsDeletion, NoTask
<1>4. CASE PlanDeletions
  <2>1. /\ phase = "planning" /\ phase' = "applying" /\ UNCHANGED <<disk, seen, vanished>>
        /\ \A p \in Paths :
             \/ task'[p] = task[p]
             \/ disk[p] = NoContent /\ p \notin seen /\ task'[p] = Queued("DELETE", NoContent)
    BY <1>4 DEF PlanDeletions, IsGone
  <2> QED
    BY <2>1 DEF DeletionIsDue, IsDeletion, Queued
<1>5. ASSUME NEW p \in Paths, Visit(p) \/ VisitUnreadable(p) PROVE Due'
  <2>1. phase = "planning" /\ UNCHANGED <<phase, disk, vanished>>
    BY <1>5 DEF Visit, VisitUnreadable
  <2>2. \A q \in Paths \ {p} : task'[q] = task[q]
    BY <1>5 DEF Visit, VisitUnreadable, TypeOK
  <2>3. task'[p] = task[p] \/ task'[p] = Planned(p, disk[p])
    BY <1>5 DEF Visit, VisitUnreadable, TypeOK
  <2>4. Planned(p, disk[p]).pc \in {"none", "queued"} /\ Planned(p, disk[p]).kind # "DELETE"
    <3>1. Classify(rows[p], disk[p]) # "DELETE"
      BY DEF Classify
    <3> QED
      BY <3>1 DEF Planned, Queued, NoTask
  <2>5. task'[p].pc \in {"none", "queued"} /\ ~IsDeletion(p)'
    BY <2>1, <2>3, <2>4 DEF DeletionIsDue, IsDeletion
  <2>6. \A q \in Paths : ~IsDeletion(q) /\ task[q].pc \in {"none", "queued"}
    BY <2>1 DEF DeletionIsDue
  <2>7. \A q \in Paths : ~IsDeletion(q)' /\ task'[q].pc \in {"none", "queued"}
    BY <2>2, <2>5, <2>6 DEF IsDeletion
  <2> QED
    BY <2>1, <2>7 DEF DeletionIsDue
<1> QED
  BY <1>1, <1>2, <1>3, <1>4, <1>5

\* Handlers turn no other action into a deletion.
LEMMA WorkDue ==
  ASSUME TypeOK, Due, NEW p \in Paths, Work(p)
  PROVE  Due'
<1> USE DEF planVars, environment
<1>1. task[p] \in Task
  BY DEF TypeOK
<1>2. CASE Start(p)
  <2>1. /\ phase = "applying" /\ task[p].pc = "queued"
        /\ UNCHANGED <<phase, seen, vanished, disk>>
    BY <1>2 DEF Start, StartUpload, StartReplace, StartResume, StartDelete, Dequeue
  <2>2. /\ \A q \in Paths \ {p} : task'[q] = task[q]
        /\ StartDelete(p) \/ task'[p].pc \in {"init", "reinit", "finalise", "commit", "push"}
    <3>1. CASE StartUpload(p) \/ StartReplace(p)
      BY <1>1, <3>1 DEF StartUpload, StartReplace, Goto, GotoWith, TypeOK, Task
    <3>2. CASE StartResume(p)
      <4>1. ResumesAt(rows[p].state) \subseteq {"reinit", "finalise", "commit", "push"}
        BY DEF ResumesAt
      <4>2. PICK pc \in ResumesAt(rows[p].state) : GotoWith(p, pc, rows[p].doc)
        BY <3>2 DEF StartResume
      <4>3. task' = [task EXCEPT ![p] = [task[p] EXCEPT !.pc = pc, !.doc = rows[p].doc]]
        BY <4>2 DEF GotoWith
      <4> QED
        BY <1>1, <4>1, <4>3 DEF TypeOK, Task
    <3>3. CASE StartDelete(p)
      BY <3>3 DEF StartDelete, GotoWith, TypeOK
    <3> QED
      BY <1>2, <3>1, <3>2, <3>3 DEF Start
  <2>3. StartDelete(p) => IsDeletion(p)
    BY DEF StartDelete, Dequeue, IsDeletion
  <2> QED
    BY <2>1, <2>2, <2>3, DueStep DEF IsDeletion
<1>3. CASE Call(p)
  <2>1. /\ task[p].pc \in {"finalise"} \cup RemoteCalls
        /\ UNCHANGED <<phase, seen, vanished, disk>>
        /\ \A q \in Paths \ {p} : task'[q] = task[q]
        /\ task[p].pc = "delete" \/ task'[p].pc \in ({"none", "finalise", "poll", "init"} \cup Writes) \ {"forget"}
    <3>1. CASE InitUpload(p) \/ ReinitUpload(p) \/ ReinitRefused(p)
      BY <1>1, <3>1 DEF InitUpload, ReinitUpload, ReinitRefused, Goto, GotoWith, TypeOK, Task,
         RemoteCalls, Writes
    <3>2. CASE Push(p) \/ CommitDocument(p) \/ CommitDuplicate(p) \/ Finalise(p) \/ PollReady(p)
      BY <1>1, <3>2 DEF Push, CommitDocument, CommitDuplicate, Finalise, PollReady, Goto, TypeOK,
         Task, RemoteCalls, Writes
    <3>3. CASE PushFails(p) \/ CommitFails(p) \/ PollFails(p) \/ PollTimesOut(p)
      BY <3>3 DEF PushFails, CommitFails, PollFails, PollTimesOut, Fail, EndTask, NoTask, TypeOK,
         RemoteCalls
    <3>4. CASE DeleteDocument(p)
      BY <1>1, <3>4 DEF DeleteDocument, Goto, TypeOK, Task, RemoteCalls
    <3> QED
      BY <1>3, <3>1, <3>2, <3>3, <3>4 DEF Call
  <2>2. phase = "applying"
    BY <2>1, Applying DEF RemoteCalls
  <2>3. IsDeletion(p)' => IsDeletion(p)
    BY <2>1 DEF IsDeletion, Writes
  <2> QED
    BY <2>1, <2>2, <2>3, DueStep
<1>4. CASE Store(p)
  <2>1. /\ task[p].pc \in Writes
        /\ UNCHANGED <<phase, seen, vanished, disk>>
        /\ \A q \in Paths \ {p} : task'[q] = task[q]
        /\ task'[p].pc \in {"none", "push", "commit", "finalise", "storePending",
                            "storeSyncedHash", "markState"}
    BY <1>1, <1>4 DEF Store, StoreDocument, StorePending, StoreUploaded, StoreCommitted,
       StoreSyncedHash, MarkHash, MarkState, ForgetRow, Write, Goto, EndTask, NoTask, TypeOK, Task,
       Writes
  <2>2. phase = "applying"
    BY <2>1, Applying DEF Writes
  <2> QED
    BY <2>1, <2>2, DueStep DEF IsDeletion
<1> QED
  BY <1>2, <1>3, <1>4 DEF Work

\* Mishaps end tasks and start none.
LEMMA MisfortuneDue ==
  ASSUME TypeOK, Due, NEW p \in Paths, Misfortune(p)
  PROVE  Due'
<1> USE DEF planVars
<1>1. CASE CallFails(p)
  <2>1. /\ task[p].pc \notin {"none", "queued"}
        /\ UNCHANGED <<phase, seen, vanished, disk>>
        /\ \A q \in Paths \ {p} : task'[q] = task[q]
        /\ ~IsDeletion(p)'
    BY <1>1 DEF CallFails, Fail, EndTask, NoTask, IsDeletion, RemoteCalls, TypeOK
  <2> QED
    BY <2>1, Applying, DueStep
<1>2. CASE CallRetried(p)
  BY <1>2 DEF CallRetried, Due, DeletionIsDue, IsDeletion
<1>3. CASE Abort(p)
  <2>1. /\ UNCHANGED <<phase, seen, vanished, disk>>
        /\ \A q \in Paths : task'[q] = task[q] \/ task'[q] = NoTask
    BY <1>3 DEF Abort, TypeOK
  <2> QED
    BY <2>1 DEF Due, DeletionIsDue, IsDeletion, NoTask
<1> QED
  BY <1>1, <1>2, <1>3 DEF Misfortune

\* Every step keeps deletions confined to files this run has missed.
LEMMA NextDue == ASSUME TypeOK, Due, [Next]_vars PROVE Due'
<1>1. CASE UNCHANGED vars
  BY <1>1 DEF vars, Due, DeletionIsDue, IsDeletion
<1>2. ASSUME NEW p \in Paths, Edit(p) PROVE Due'
  BY <1>2 DEF Edit, planVars, TypeOK, Due, DeletionIsDue, IsDeletion
<1>3. ASSUME NEW d \in DocIds, Ingest(d) \/ IngestFails(d) \/ BackofficeDelete(d) PROVE Due'
  BY <1>3 DEF Ingest, IngestFails, BackofficeDelete, planVars, environment, Due, DeletionIsDue,
     IsDeletion
<1> QED
  BY <1>1, <1>2, <1>3, PlanDue, WorkDue, MisfortuneDue DEF Next

-----------------------------------------------------------------------------

\* The inductive invariant holds in every state of every behaviour.
THEOREM InvAlways == Spec => []Inv
<1>1. Init => Due
  BY InitDue
<1>2. TypeOK /\ Due /\ [Next]_vars => Due'
  BY NextDue
<1>3. TypeOK /\ Owned /\ Due => Inv
  BY DEF Owned, Due, Inv
<1> QED
  BY <1>1, <1>2, <1>3, TypeCorrect, OwnedAlways, PTL DEF Spec

\* A row never claims progress its document has not made, whatever crashes, whatever
\* answers are lost, and however the workers interleave.
THEOREM StateIsBackedAlways == Spec => []StateIsBacked
<1>1. Inv => StateIsBacked
  BY DEF Inv, PathInv, StateIsBacked
<1> QED
  BY <1>1, InvAlways, PTL

\* No two rows ever share a document, and --rebuild-db would find the same mapping.
THEOREM MappingMatchesMetadataAlways == Spec => []MappingMatchesMetadata
<1>1. Inv => MappingMatchesMetadata
  BY DEF Inv, PathInv, OwnsDocument, MappingMatchesMetadata
<1> QED
  BY <1>1, InvAlways, PTL

\* Only _delete removes a row.
LEMMA OnlyForgetRow ==
  ASSUME TypeOK, Owned, [Next]_vars, NEW p \in Paths,
         rows[p].state # "ABSENT", rows'[p].state = "ABSENT"
  PROVE  ForgetRow(p)
<1> USE DEF planVars, environment
<1>1. rows # rows' /\ rows[p] \in Row
  BY DEF TypeOK
<1>2. PICK q \in Paths : Work(q) \/ CallFails(q)
  BY <1>1 DEF Next, vars, StartRun, PlanDeletions, EndRun, Crash, Visit, VisitUnreadable,
     Misfortune, CallRetried, Abort, Edit, Ingest, IngestFails, BackofficeDelete
<1>3. q = p
  BY <1>1, <1>2
  DEF Work, Start, StartUpload, StartReplace, StartResume, StartDelete, RecordScan,
      Call, InitUpload, ReinitUpload, ReinitRefused, Push, PushFails, CommitDocument,
      CommitDuplicate, CommitFails, Finalise, PollReady, PollTimesOut, PollFails, DeleteDocument,
      Store, StoreDocument, StorePending, StoreUploaded, StoreCommitted, StoreSyncedHash,
      MarkHash, MarkState, ForgetRow, Write, CallFails, Fail, TypeOK
<1>4. rows'[p].state \in {rows[p].state, "NEW", "FAILED", "PENDING_UPLOAD", "UPLOADED",
                         "COMMITTED", "SYNCED"} \/ ForgetRow(p)
  <2>1. CASE Start(p)
    BY <1>1, <2>1 DEF Start, StartUpload, StartReplace, StartResume, StartDelete, RecordScan,
       Upserted, TypeOK, Row
  <2>2. CASE Call(p)
    BY <1>1, <2>2 DEF Call, InitUpload, ReinitUpload, ReinitRefused, Push, PushFails,
       CommitDocument, CommitDuplicate, CommitFails, Finalise, PollReady, PollTimesOut, PollFails,
       DeleteDocument, Fail, WithFailure, WithSyncState, WithSyncedHash, TypeOK, Row
  <2>3. CASE Store(p)
    BY <1>1, <2>3 DEF Store, StoreDocument, StorePending, StoreUploaded, StoreCommitted,
       StoreSyncedHash, MarkHash, MarkState, Write, WithDocumentId, WithSyncState,
       WithSyncedHash, TypeOK, Row
  <2>4. CASE CallFails(p)
    BY <1>1, <2>4 DEF CallFails, Fail, WithFailure, WithSyncState, TypeOK, Row
  <2> QED
    BY <1>2, <1>3, <2>1, <2>2, <2>3, <2>4 DEF Work
<1> QED
  BY <1>4

\* A row is forgotten only when its document is gone: _delete cannot strand one.
THEOREM RowForgottenAfterDocumentAlways == Spec => RowForgottenAfterDocument
<1>1. ASSUME Inv, [Next]_vars, NEW p \in Paths,
             rows[p].state # "ABSENT", rows'[p].state = "ABSENT"
      PROVE  rows[p].doc = NoDoc \/ docs[rows[p].doc].status = "DELETED"
  <2>1. ForgetRow(p)
    BY <1>1, OnlyForgetRow DEF Inv, Owned
  <2> QED
    BY <1>1, <2>1 DEF Inv, PathInv, HandlerIsBacked, ForgetRow
<1>2. Inv /\ [Next]_vars =>
        [\A p \in Paths :
           rows[p].state # "ABSENT" /\ rows'[p].state = "ABSENT"
             => rows[p].doc = NoDoc \/ docs[rows[p].doc].status = "DELETED"]_vars
  BY <1>1
<1> QED
  BY <1>2, InvAlways, PTL DEF Spec, RowForgottenAfterDocument

\* Nothing is deleted on behalf of a file that was there throughout the run.
THEOREM OnlyVanishedFilesAreDeletedAlways == Spec => OnlyVanishedFilesAreDeleted
<1>1. ASSUME Inv, [Next]_vars, NEW p \in Paths,
             \/ rows[p].state # "ABSENT" /\ rows'[p].state = "ABSENT"
             \/ task[p].pc = "delete"
      PROVE  p \in vanished \ seen
  <2>1. CASE rows[p].state # "ABSENT" /\ rows'[p].state = "ABSENT"
    <3>1. ForgetRow(p)
      BY <1>1, <2>1, OnlyForgetRow DEF Inv, Owned
    <3> QED
      BY <1>1, <3>1 DEF Inv, DeletionIsDue, IsDeletion, ForgetRow
  <2>2. CASE task[p].pc = "delete"
    BY <1>1, <2>2 DEF Inv, DeletionIsDue, IsDeletion
  <2> QED
    BY <1>1, <2>1, <2>2
<1>2. Inv /\ [Next]_vars =>
        [\A p \in Paths :
           \/ rows[p].state # "ABSENT" /\ rows'[p].state = "ABSENT"
           \/ task[p].pc = "delete"
           => p \in vanished \ seen]_vars
  BY <1>1
<1> QED
  BY <1>2, InvAlways, PTL DEF Spec, OnlyVanishedFilesAreDeleted
=============================================================================
