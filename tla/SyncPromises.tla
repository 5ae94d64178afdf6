---------------------------- MODULE SyncPromises ----------------------------
(***************************************************************************)
(* The promises of SyncProperties that hold in a restricted environment,    *)
(* and the refinement of Replica, which holds in any.                       *)
(***************************************************************************)
EXTENDS SyncReplica, SyncProofs

-----------------------------------------------------------------------------
(* What a step of the handler of p does, path by path and document by document *)

Becomes(p, row, t) == rows'[p] = row /\ task'[p] = t

Moves(p, pc) == Becomes(p, rows[p], [task[p] EXCEPT !.pc = pc])

Stores(p, row, pc) == Becomes(p, row, [task[p] EXCEPT !.pc = pc])

DocumentBecomes(d, doc) ==
  /\ docs'[d] = doc
  /\ \A e \in DocIds \ {d} : docs'[e] = docs[e]

\* A request that has reached the server.
Reaches(p) ==
  LET d == task[p].doc IN
  \/ /\ task[p].pc = "init"
     /\ \E e \in DocIds : docs[e].status = "UNUSED" /\ DocumentBecomes(e, Initialised(p))
  \/ task[p].pc = "reinit" /\ Replaceable(docs[d]) /\ DocumentBecomes(d, Reinitialised(docs[d]))
  \/ task[p].pc = "push" /\ disk[p] # NoContent /\ DocumentBecomes(d, WithBytes(docs[d], disk[p]))
  \/ task[p].pc = "commit" /\ Committable(docs[d]) /\ DocumentBecomes(d, Committed(docs[d]))
  \/ task[p].pc = "delete" /\ DocumentBecomes(d, Deleted(docs[d]))

\* The steps of a worker that ask the server for nothing it grants.
StartsAt(p) ==
  /\ task[p].pc = "queued"
  /\ \/ task[p].kind = "UPLOAD" /\ Stores(p, Upserted(rows[p]), "init")
     \/ /\ task[p].kind = "REPLACE"
        /\ Becomes(p, Upserted(rows[p]), [task[p] EXCEPT !.pc = "reinit", !.doc = rows[p].doc])
     \/ /\ task[p].kind = "RESUME"
        /\ \E pc \in ResumesAt(rows[p].state) :
             Becomes(p, rows[p], [task[p] EXCEPT !.pc = pc, !.doc = rows[p].doc])
     \/ /\ task[p].kind = "DELETE"
        /\ Becomes(p, rows[p], [task[p] EXCEPT !.pc = IF rows[p].doc = NoDoc THEN "forget" ELSE "delete",
                                               !.doc = rows[p].doc])

FailsAt(p) ==
  LET doc == docs[task[p].doc] IN
  /\ Becomes(p, WithFailure(rows[p]), NoTask)
  /\ \/ task[p].pc = "push" /\ (disk[p] = NoContent \/ doc.blob # NoContent)
     \/ task[p].pc = "commit" /\ ~Committable(doc)
     \/ task[p].pc = "poll" /\ doc.status \in {"FAILED", "DELETED"}

GoesOnAt(p) ==
  LET doc == docs[task[p].doc] IN
  \/ /\ task[p].pc = "reinit" /\ ~Replaceable(doc)
     /\ Becomes(p, WithSyncedHash(rows[p], NoContent), [task[p] EXCEPT !.pc = "init", !.doc = NoDoc])
  \/ task[p].pc = "commit" /\ DetectDuplicates /\ Moves(p, "markHash")
  \/ task[p].pc = "finalise" /\ Moves(p, IF PollStatus THEN "poll" ELSE "markHash")
  \/ task[p].pc = "poll" /\ doc.status = "READY" /\ Moves(p, "markHash")
  \/ task[p].pc = "poll" /\ Becomes(p, rows[p], NoTask)

StoresAt(p) ==
  \/ /\ task[p].pc = "storeDocument"
     /\ Stores(p, WithDocumentId(rows[p], task[p].doc), "storePending")
  \/ task[p].pc = "storePending" /\ Stores(p, WithSyncState(rows[p], "PENDING_UPLOAD"), "push")
  \/ task[p].pc = "storeUploaded" /\ Stores(p, WithSyncState(rows[p], "UPLOADED"), "commit")
  \/ /\ task[p].pc = "storeCommitted"
     /\ Stores(p, WithSyncState(rows[p], "COMMITTED"), "storeSyncedHash")
  \/ /\ task[p].pc = "storeSyncedHash"
     /\ Stores(p, WithSyncedHash(rows[p], task[p].hash), "finalise")
  \/ task[p].pc = "markHash" /\ Stores(p, WithSyncedHash(rows[p], task[p].hash), "markState")
  \/ task[p].pc = "markState" /\ Becomes(p, WithSyncState(rows[p], "SYNCED"), NoTask)
  \/ task[p].pc = "forget" /\ Becomes(p, NoRow, NoTask)

\* The steps whose request the server grants.
GrantedAt(p) ==
  /\ Reaches(p)
  /\ \/ /\ task[p].pc = "init"
        /\ \E e \in DocIds :
             /\ docs[e].status = "UNUSED" /\ docs'[e].status # "UNUSED"
             /\ Becomes(p, rows[p], [task[p] EXCEPT !.pc = "storeDocument", !.doc = e])
     \/ task[p].pc = "reinit" /\ Moves(p, "storeDocument")
     \/ task[p].pc = "push" /\ Moves(p, "storeUploaded")
     \/ task[p].pc = "commit" /\ Moves(p, "storeCommitted")
     \/ task[p].pc = "delete" /\ Moves(p, "forget")

HandlerStep(p) ==
  \/ docs' = docs /\ (StartsAt(p) \/ FailsAt(p) \/ GoesOnAt(p) \/ StoresAt(p))
  \/ GrantedAt(p)

\* A lost call, or a lost answer to one that is sent again.
LostCall(p) ==
  /\ task[p].pc \in RemoteCalls
  /\ docs' = docs \/ Reaches(p)
  /\ \/ Becomes(p, WithFailure(rows[p]), NoTask)
     \/ Becomes(p, rows[p], task[p])

\* An effect on the server is an effect on one document.
LEMMA EffectReaches ==
  ASSUME TypeOK, Mapped, NEW p \in Paths, TakesEffect(p)
  PROVE  Reaches(p)
<1>1. CASE task[p].pc = "init"
  BY <1>1 DEF TakesEffect, Reaches, DocumentBecomes, TypeOK
<1>2. CASE task[p].pc \in {"reinit", "push", "commit", "delete"}
  <2>1. task[p].doc \in DocIds
    BY <1>2, InHandMapped DEF WithDocument
  <2> QED
    BY <1>2, <2>1 DEF TakesEffect, Reaches, DocumentBecomes, TypeOK
<1> QED
  BY <1>1, <1>2 DEF TakesEffect

LEMMA AtItsPath ==
  ASSUME TypeOK, NEW p \in Paths, NEW row, NEW pc, NEW d
  PROVE  /\ Goto(p, pc) /\ rows' = [rows EXCEPT ![p] = row] => Stores(p, row, pc)
         /\ Goto(p, pc) /\ rows' = rows => Moves(p, pc)
         /\ GotoWith(p, pc, d) /\ rows' = [rows EXCEPT ![p] = row] =>
              Becomes(p, row, [task[p] EXCEPT !.pc = pc, !.doc = d])
         /\ GotoWith(p, pc, d) /\ rows' = rows =>
              Becomes(p, rows[p], [task[p] EXCEPT !.pc = pc, !.doc = d])
         /\ EndTask(p) /\ rows' = [rows EXCEPT ![p] = row] => Becomes(p, row, NoTask)
         /\ EndTask(p) /\ rows' = rows => Becomes(p, rows[p], NoTask)
         /\ Fail(p) => Becomes(p, WithFailure(rows[p]), NoTask)
<1>1. task \in [Paths -> Task] /\ rows \in [Paths -> Row] /\ task[p] \in Task
  BY DEF TypeOK
<1>2. Goto(p, pc) => task'[p] = [task[p] EXCEPT !.pc = pc]
  BY <1>1 DEF Goto
<1>3. GotoWith(p, pc, d) => task'[p] = [task[p] EXCEPT !.pc = pc, !.doc = d]
  BY <1>1 DEF GotoWith, Task
<1>4. EndTask(p) => task'[p] = NoTask
  BY <1>1 DEF EndTask
<1> QED
  BY <1>1, <1>2, <1>3, <1>4 DEF Stores, Moves, Becomes, Fail

LEMMA StartTable ==
  ASSUME TypeOK, NEW p \in Paths, Start(p) PROVE docs' = docs /\ StartsAt(p)
<1>1. /\ task[p].pc = "queued" /\ docs' = docs
  BY DEF Start, StartUpload, StartReplace, StartResume, StartDelete, Dequeue
<1>2. CASE StartUpload(p)
  BY <1>1, <1>2, AtItsPath DEF StartUpload, Dequeue, RecordScan, StartsAt
<1>3. CASE StartReplace(p)
  BY <1>1, <1>3, AtItsPath DEF StartReplace, Dequeue, RecordScan, StartsAt
<1>4. CASE StartResume(p)
  BY <1>1, <1>4, AtItsPath DEF StartResume, Dequeue, StartsAt
<1>5. CASE StartDelete(p)
  BY <1>1, <1>5, AtItsPath DEF StartDelete, Dequeue, StartsAt
<1> QED
  BY <1>2, <1>3, <1>4, <1>5 DEF Start

LEMMA CallTable ==
  ASSUME TypeOK, Mapped, NEW p \in Paths, Call(p) PROVE HandlerStep(p)
<1>1. task[p].pc \in WithDocument => task[p].doc \in DocIds /\ docs[task[p].doc] \in Document
  BY InHandMapped
<1>2. CASE InitUpload(p)
  <2>1. PICK e \in DocIds :
          /\ docs[e].status = "UNUSED" /\ docs' = [docs EXCEPT ![e] = Initialised(p)]
          /\ GotoWith(p, "storeDocument", e)
    BY <1>2 DEF InitUpload
  <2>2. task[p].pc = "init" /\ rows' = rows
    BY <1>2 DEF InitUpload
  <2>3. DocumentBecomes(e, Initialised(p)) /\ docs'[e].status # "UNUSED"
    BY <2>1 DEF DocumentBecomes, TypeOK, Initialised
  <2>4. Becomes(p, rows[p], [task[p] EXCEPT !.pc = "storeDocument", !.doc = e])
    BY <2>1, <2>2, AtItsPath
  <2>5. Reaches(p)
    BY <2>1, <2>2, <2>3 DEF Reaches
  <2> QED
    BY <2>1, <2>2, <2>3, <2>4, <2>5 DEF HandlerStep, GrantedAt
<1>3. CASE ReinitUpload(p)
  <2>1. /\ task[p].pc = "reinit" /\ Replaceable(docs[task[p].doc]) /\ rows' = rows
        /\ docs' = [docs EXCEPT ![task[p].doc] = Reinitialised(docs[task[p].doc])]
        /\ Goto(p, "storeDocument")
    BY <1>3 DEF ReinitUpload
  <2>2. DocumentBecomes(task[p].doc, Reinitialised(docs[task[p].doc]))
    BY <1>1, <2>1 DEF WithDocument, DocumentBecomes, TypeOK
  <2> QED
    BY <2>1, <2>2, AtItsPath DEF HandlerStep, GrantedAt, Reaches
<1>4. CASE Push(p)
  <2>1. /\ task[p].pc = "push" /\ disk[p] # NoContent /\ rows' = rows
        /\ docs' = [docs EXCEPT ![task[p].doc] = WithBytes(docs[task[p].doc], disk[p])]
        /\ Goto(p, "storeUploaded")
    BY <1>4 DEF Push
  <2>2. DocumentBecomes(task[p].doc, WithBytes(docs[task[p].doc], disk[p]))
    BY <1>1, <2>1 DEF WithDocument, DocumentBecomes, TypeOK
  <2> QED
    BY <2>1, <2>2, AtItsPath DEF HandlerStep, GrantedAt, Reaches
<1>5. CASE CommitDocument(p)
  <2>1. /\ task[p].pc = "commit" /\ Committable(docs[task[p].doc]) /\ rows' = rows
        /\ docs' = [docs EXCEPT ![task[p].doc] = Committed(docs[task[p].doc])]
        /\ Goto(p, "storeCommitted")
    BY <1>5 DEF CommitDocument
  <2>2. DocumentBecomes(task[p].doc, Committed(docs[task[p].doc]))
    BY <1>1, <2>1 DEF WithDocument, DocumentBecomes, TypeOK
  <2> QED
    BY <2>1, <2>2, AtItsPath DEF HandlerStep, GrantedAt, Reaches
<1>6. CASE DeleteDocument(p)
  <2>1. /\ task[p].pc = "delete" /\ rows' = rows
        /\ docs' = [docs EXCEPT ![task[p].doc] = Deleted(docs[task[p].doc])]
        /\ Goto(p, "forget")
    BY <1>6 DEF DeleteDocument
  <2>2. DocumentBecomes(task[p].doc, Deleted(docs[task[p].doc]))
    BY <1>1, <2>1 DEF WithDocument, DocumentBecomes, TypeOK
  <2> QED
    BY <2>1, <2>2, AtItsPath DEF HandlerStep, GrantedAt, Reaches
<1>7. CASE ReinitRefused(p) \/ CommitDuplicate(p) \/ Finalise(p) \/ PollReady(p) \/ PollTimesOut(p)
  <2>1. docs' = docs
    BY <1>7 DEF ReinitRefused, CommitDuplicate, Finalise, PollReady, PollTimesOut
  <2>2. GoesOnAt(p)
    <3>1. CASE ReinitRefused(p)
      BY <3>1, AtItsPath DEF ReinitRefused, GoesOnAt
    <3>2. CASE CommitDuplicate(p)
      BY <3>2, AtItsPath DEF CommitDuplicate, RejectedAsDuplicate, GoesOnAt
    <3>3. CASE Finalise(p)
      BY <3>3, AtItsPath DEF Finalise, GoesOnAt
    <3>4. CASE PollReady(p)
      BY <3>4, AtItsPath DEF PollReady, GoesOnAt
    <3>5. CASE PollTimesOut(p)
      BY <3>5, AtItsPath DEF PollTimesOut, GoesOnAt
    <3> QED
      BY <1>7, <3>1, <3>2, <3>3, <3>4, <3>5
  <2> QED
    BY <2>1, <2>2 DEF HandlerStep
<1>8. CASE PushFails(p) \/ CommitFails(p) \/ PollFails(p)
  BY <1>8, AtItsPath DEF PushFails, CommitFails, PollFails, HandlerStep, FailsAt
<1> QED
  BY <1>2, <1>3, <1>4, <1>5, <1>6, <1>7, <1>8 DEF Call

LEMMA StoreTable ==
  ASSUME TypeOK, NEW p \in Paths, Store(p) PROVE docs' = docs /\ StoresAt(p)
<1>1. docs' = docs
  BY DEF Store, StoreDocument, StorePending, StoreUploaded, StoreCommitted, StoreSyncedHash,
     MarkHash, MarkState, ForgetRow, Write
<1>2. CASE StoreDocument(p) \/ StorePending(p) \/ StoreUploaded(p) \/ StoreCommitted(p)
  BY <1>2, AtItsPath DEF StoreDocument, StorePending, StoreUploaded, StoreCommitted, Write, StoresAt
<1>3. CASE StoreSyncedHash(p) \/ MarkHash(p)
  BY <1>3, AtItsPath DEF StoreSyncedHash, MarkHash, Write, StoresAt
<1>4. CASE MarkState(p) \/ ForgetRow(p)
  BY <1>4, AtItsPath DEF MarkState, ForgetRow, StoresAt
<1> QED
  BY <1>1, <1>2, <1>3, <1>4 DEF Store

LEMMA HandlerTable ==
  ASSUME TypeOK, Mapped, NEW p \in Paths
  PROVE  /\ Work(p) => HandlerStep(p)
         /\ CallFails(p) \/ CallRetried(p) => LostCall(p)
<1>1. Work(p) => HandlerStep(p)
  BY StartTable, CallTable, StoreTable DEF Work, HandlerStep
<1>2. CallFails(p) => LostCall(p)
  BY EffectReaches, AtItsPath DEF CallFails, LostCall
<1>3. CallRetried(p) => LostCall(p)
  BY EffectReaches DEF CallRetried, LostCall, Becomes
<1> QED
  BY <1>1, <1>2, <1>3

\* It concerns no path but p, and neither the tree nor the run.
LEMMA HandlerConfined ==
  ASSUME TypeOK, Mapped, NEW p \in Paths, Work(p) \/ CallFails(p) \/ CallRetried(p)
  PROVE  TouchesOnly(p) /\ UNCHANGED <<disk, phase>>
<1>1. UNCHANGED <<disk, phase>>
  BY DEF Work, Start, StartUpload, StartReplace, StartResume, StartDelete,
     Call, InitUpload, ReinitUpload, ReinitRefused, Push, PushFails, CommitDocument,
     CommitDuplicate, CommitFails, Finalise, PollReady, PollTimesOut, PollFails, DeleteDocument,
     Store, StoreDocument, StorePending, StoreUploaded, StoreCommitted, StoreSyncedHash,
     MarkHash, MarkState, ForgetRow, Write, CallFails, CallRetried, planVars, environment
<1>2. \A q \in Paths \ {p} : rows'[q] = rows[q] /\ task'[q] = task[q]
  BY DEF TypeOK, Work, Start, StartUpload, StartReplace, StartResume, StartDelete, RecordScan,
     Call, InitUpload, ReinitUpload, ReinitRefused, Push, PushFails, CommitDocument,
     CommitDuplicate, CommitFails, Finalise, PollReady, PollTimesOut, PollFails, DeleteDocument,
     Store, StoreDocument, StorePending, StoreUploaded, StoreCommitted, StoreSyncedHash,
     MarkHash, MarkState, ForgetRow, Write, CallFails, CallRetried, Fail, Goto, GotoWith, EndTask
<1>3. docs' = docs \/ Reaches(p)
  BY HandlerTable DEF HandlerStep, GrantedAt, LostCall
<1>4. CASE Reaches(p)
  <2>1. CASE task[p].pc = "init"
    <3>1. PICK e \in DocIds : docs[e].status = "UNUSED" /\ DocumentBecomes(e, Initialised(p))
      BY <1>4, <2>1 DEF Reaches
    <3>2. docs[e].path = NoPath /\ docs'[e].path = p /\ docs'[e].status # "UNUSED"
      BY <3>1 DEF Mapped, FreshIdsAreUnbound, DocumentBecomes, Initialised
    <3>3. \A d \in DocIds \ {e} : docs'[d] = docs[d]
      BY <3>1 DEF DocumentBecomes
    <3> QED
      BY <1>1, <1>2, <3>2, <3>3 DEF TouchesOnly
  <2>2. CASE task[p].pc # "init"
    <3> DEFINE d == task[p].doc
    <3>1. d \in DocIds /\ docs[d] \in Document /\ docs[d].path = p /\ docs[d].status # "UNUSED"
      BY <1>4, <2>2, InHandMapped DEF Reaches, WithDocument
    <3>2. docs'[d].path = p /\ docs'[d].status # "UNUSED"
      BY <1>4, <2>2, <3>1, DocumentSteps, BytesStep DEF Reaches, DocumentBecomes
    <3>3. \A e \in DocIds \ {d} : docs'[e] = docs[e]
      BY <1>4, <2>2 DEF Reaches, DocumentBecomes
    <3> HIDE DEF d
    <3> QED
      BY <1>1, <1>2, <3>1, <3>2, <3>3 DEF TouchesOnly
  <2> QED
    BY <2>1, <2>2
<1> QED
  BY <1>1, <1>2, <1>3, <1>4 DEF TouchesOnly

\* Nothing of q changes.
Same(q) ==
  /\ rows'[q] = rows[q] /\ task'[q] = task[q]
  /\ rows[q].doc # NoDoc => docs'[rows[q].doc] = docs[rows[q].doc]
  /\ task[q].doc # NoDoc => docs'[task[q].doc] = docs[task[q].doc]

\* The documents of another path are other documents.
LEMMA Apart ==
  ASSUME TypeOK, Mapped, NEW p \in Paths, NEW q \in Paths \ {p}, TouchesOnly(p)
  PROVE  Same(q)
<1>1. rows'[q] = rows[q] /\ task'[q] = task[q] /\ OwnsDocument(q)
  BY DEF TouchesOnly, Mapped
<1>2. rows[q].doc \in MaybeDoc /\ task[q].doc \in MaybeDoc
  BY DEF TypeOK, Row, Task
<1> QED
  BY <1>1, <1>2, NoPathAssumption DEF MaybeDoc, TouchesOnly, OwnsDocument, Same

\* What a request makes of the document in hand.
Reworks(p, old, new) ==
  \/ /\ task[p].pc = "reinit" /\ Replaceable(old)
     /\ new.status = "AWAITING_UPLOAD" /\ new.blob = NoContent
  \/ /\ task[p].pc = "push" /\ disk[p] # NoContent
     /\ \/ old.status = "DELETED" /\ new = old
        \/ new.status = old.status /\ new.blob = disk[p] /\ new.content = old.content
  \/ /\ task[p].pc = "commit" /\ Committable(old) /\ new.blob = old.blob
     /\ \/ AlreadyCommitted(old) /\ new = old
        \/ new.status = "PROCESSING" /\ new.content = old.blob
  \/ task[p].pc = "delete" /\ new.status = "DELETED"

\* It is the document in the row, unless the request makes a new one.
LEMMA Reached ==
  ASSUME TypeOK, Owned, NEW p \in Paths, Reaches(p)
  PROVE  \/ /\ task[p].pc = "init"
            /\ rows[p].doc # NoDoc => docs'[rows[p].doc] = docs[rows[p].doc]
            /\ task[p].doc # NoDoc => docs'[task[p].doc] = docs[task[p].doc]
         \/ /\ task[p].doc = rows[p].doc /\ task[p].doc \in DocIds
            /\ Reworks(p, docs[task[p].doc], docs'[task[p].doc])
            /\ \A e \in DocIds \ {task[p].doc} : docs'[e] = docs[e]
<1>1. CASE task[p].pc = "init"
  <2>1. PICK e \in DocIds : docs[e].status = "UNUSED" /\ DocumentBecomes(e, Initialised(p))
    BY <1>1 DEF Reaches
  <2>2. docs[e].path = NoPath /\ PathInv(p)
    BY <2>1 DEF Owned, FreshIdsAreUnbound
  <2>3. rows[p].doc \in MaybeDoc /\ task[p].doc \in MaybeDoc
    BY DEF TypeOK, Row, Task
  <2> QED
    BY <1>1, <2>1, <2>2, <2>3, NoPathAssumption DEF DocumentBecomes, PathInv, OwnsDocument, MaybeDoc
<1>2. CASE task[p].pc # "init"
  <2> DEFINE d == task[p].doc
  <2>1. task[p].pc \in {"reinit", "push", "commit", "delete"}
    BY <1>2 DEF Reaches
  <2>2. d \in DocIds /\ docs[d] \in Document /\ docs[d].status # "UNUSED" /\ d = rows[p].doc
    BY <2>1, InHand DEF WithDocument, Bound, Owned, PathInv, OwnsDocument
  <2>3. \A e \in DocIds \ {d} : docs'[e] = docs[e]
    BY <2>1 DEF Reaches, DocumentBecomes
  <2>4. \/ task[p].pc = "reinit" /\ Replaceable(docs[d]) /\ docs'[d] = Reinitialised(docs[d])
        \/ task[p].pc = "push" /\ disk[p] # NoContent /\ docs'[d] = WithBytes(docs[d], disk[p])
        \/ task[p].pc = "commit" /\ Committable(docs[d]) /\ docs'[d] = Committed(docs[d])
        \/ task[p].pc = "delete" /\ docs'[d] = Deleted(docs[d])
    BY <2>1 DEF Reaches, DocumentBecomes
  <2>5. Reworks(p, docs[d], docs'[d])
    <3> HIDE DEF d
    <3> QED
      BY <2>2, <2>4 DEF Reworks, Reinitialised, WithBytes, Committed, Deleted, Document, Exists,
         AlreadyCommitted
  <2> QED
    BY <2>2, <2>3, <2>5
<1> QED
  BY <1>1, <1>2

-----------------------------------------------------------------------------
(* Where rows and documents stand at each step *)

StandsAt(p) == RowAtStep(p) /\ NothingSent(p)

\* What reaches the server leaves ingestion what was sent.
LEMMA SentStep ==
  ASSUME TypeOK, Owned, Steady, NEW p \in Paths, docs' = docs \/ Reaches(p)
  PROVE  ContentIsSent'
<1>1. CASE docs' = docs
  BY <1>1 DEF Steady, ContentIsSent
<1>2. CASE Reaches(p) /\ task[p].pc = "init"
  <2>1. PICK e \in DocIds : DocumentBecomes(e, Initialised(p))
    BY <1>2 DEF Reaches
  <2> QED
    BY <2>1 DEF Steady, ContentIsSent, DocumentBecomes, Initialised, Ingested
<1>3. CASE Reaches(p) /\ task[p].pc # "init"
  <2> DEFINE d == task[p].doc
  <2>1. /\ d = rows[p].doc /\ d \in DocIds /\ Reworks(p, docs[d], docs'[d])
        /\ \A e \in DocIds \ {d} : docs'[e] = docs[e]
    BY <1>3, Reached
  <2>2. task[p].pc = "push" => docs[d].status \in {"AWAITING_UPLOAD", "DELETED"}
    BY <2>1 DEF Steady, RowAtStep, NothingSent
  <2>3. docs'[d].status \in Ingested =>
          docs'[d].content = docs'[d].blob /\ docs'[d].blob # NoContent
    <3>1. docs[d].status \in Ingested => docs[d].content = docs[d].blob /\ docs[d].blob # NoContent
      BY <2>1 DEF Steady, ContentIsSent
    <3> HIDE DEF d
    <3> QED
      BY <2>1, <2>2, <3>1 DEF Reworks, Ingested, Committable, AlreadyCommitted
  <2> HIDE DEF d
  <2> QED
    BY <2>1, <2>3 DEF Steady, ContentIsSent
<1> QED
  BY <1>1, <1>2, <1>3

\* A path of which nothing changes stands where it stood.
LEMMA SteadyElsewhere ==
  ASSUME Owned, NEW q \in Paths, Same(q), StandsAt(q)
  PROVE  StandsAt(q)'
<1>1. PathInv(q)
  BY DEF Owned
<1> QED
  BY <1>1 DEF Same, StandsAt, RowAtStep, NothingSent, PathInv, OwnsDocument, RowIsBacked,
     InFlightStates, WithDocument

\* A handler step leaves its own path where the table of steps says.
LEMMA SteadyAtHandler ==
  ASSUME TypeOK, Owned, Steady, NEW p \in Paths, HandlerStep(p) \/ LostCall(p)
  PROVE  StandsAt(p)'
<1> USE DEF RowAtStep, NothingSent
<1>1. /\ rows[p] \in Row /\ task[p] \in Task /\ PathInv(p) /\ StandsAt(p)
      /\ rows[p].doc \in MaybeDoc
  BY DEF TypeOK, Owned, Steady, StandsAt, Row
<1>2. CASE docs' = docs /\ StartsAt(p)
  BY <1>1, <1>2 DEF StartsAt, Stores, Becomes, ResumesAt, Upserted, Row, Task, StandsAt, PathInv,
     PlanFits, InFlightStates
<1>3. CASE docs' = docs /\ FailsAt(p)
  BY <1>1, <1>3 DEF FailsAt, Becomes, WithFailure, WithSyncState, NoTask, Row, Task, StandsAt
<1>4. CASE docs' = docs /\ GoesOnAt(p)
  <2>1. CASE task[p].pc = "reinit"
    BY <1>1, <1>4, <2>1 DEF GoesOnAt, Becomes, WithSyncedHash, Row, Task, StandsAt
  <2>2. CASE task[p].pc # "reinit"
    BY <1>1, <1>4, <2>2 DEF GoesOnAt, Moves, Becomes, NoTask, Task, StandsAt
  <2> QED
    BY <2>1, <2>2
<1>5. CASE docs' = docs /\ StoresAt(p)
  BY <1>1, <1>5 DEF StoresAt, Becomes, Stores, WithSyncedHash, WithDocumentId, WithSyncState,
     NoTask, NoRow, Row, Task, StandsAt, PathInv, OwnsDocument, Bound, WithDocument
<1>6. CASE Reaches(p)
  <2>1. CASE task[p].pc = "init"
    <3>1. /\ rows[p].doc # NoDoc => docs'[rows[p].doc] = docs[rows[p].doc]
          /\ \A e \in DocIds : docs'[e].status # "UNUSED" /\ docs[e].status = "UNUSED" =>
               docs'[e].status = "AWAITING_UPLOAD"
      <4>1. PICK d \in DocIds : DocumentBecomes(d, Initialised(p))
        BY <1>6, <2>1 DEF Reaches
      <4> QED
        BY <1>6, <2>1, <4>1, Reached DEF Reworks, DocumentBecomes, Initialised
    <3>2. rows[p].state = "PENDING_UPLOAD" => rows[p].doc # NoDoc
      BY <1>1 DEF PathInv, RowIsBacked, InFlightStates
    <3>3. CASE GrantedAt(p)
      BY <1>1, <2>1, <3>1, <3>2, <3>3 DEF GrantedAt, Becomes, Task, StandsAt
    <3>4. CASE LostCall(p)
      BY <1>1, <2>1, <3>1, <3>2, <3>4 DEF LostCall, Becomes, WithFailure, WithSyncState, NoTask,
         Row, Task, StandsAt
    <3> QED
      BY <1>2, <1>3, <1>4, <1>5, <3>3, <3>4 DEF HandlerStep
  <2>2. CASE task[p].pc # "init"
    <3> DEFINE d == task[p].doc
    <3>1. d = rows[p].doc /\ Reworks(p, docs[d], docs'[d])
      BY <1>6, <2>2, Reached
    <3>2. docs[d].status \in {"AWAITING_UPLOAD", "DELETED"} /\ task[p].pc # "commit" =>
            docs'[d].status \in {"AWAITING_UPLOAD", "DELETED"}
      <4> HIDE DEF d
      <4> QED
        BY <3>1 DEF Reworks
    <3>3. task[p].pc \in {"reinit", "push", "commit", "delete"}
      BY <3>1 DEF Reworks
    <3>4. task[p].pc = "reinit" => docs'[d].status = "AWAITING_UPLOAD"
      BY <3>1 DEF Reworks
    <3>5. CASE GrantedAt(p)
      <4>1. /\ rows'[p] = rows[p] /\ task'[p].doc = d
            /\ <<task[p].pc, task'[p].pc>> \in
                 {<<"reinit", "storeDocument">>, <<"push", "storeUploaded">>,
                  <<"commit", "storeCommitted">>, <<"delete", "forget">>}
        BY <1>1, <2>2, <3>5 DEF GrantedAt, Moves, Becomes, Task
      <4> HIDE DEF d
      <4> QED
        BY <1>1, <3>1, <3>2, <3>4, <4>1 DEF StandsAt
    <3>6. CASE LostCall(p)
      BY <1>1, <3>1, <3>2, <3>3, <3>6 DEF LostCall, Becomes, WithFailure, WithSyncState, NoTask,
         Row, Task, StandsAt
    <3> QED
      BY <1>2, <1>3, <1>4, <1>5, <3>5, <3>6 DEF HandlerStep
  <2> QED
    BY <2>1, <2>2
<1>7. CASE LostCall(p) /\ docs' = docs
  BY <1>1, <1>7 DEF LostCall, Becomes, WithFailure, WithSyncState, NoTask, Row, Task, StandsAt
<1> QED
  BY <1>2, <1>3, <1>4, <1>5, <1>6, <1>7 DEF HandlerStep, GrantedAt, LostCall

\* What the steps outside the handlers do to the task of q: nothing, end it, or plan anew.
Replans(q) ==
  \/ task'[q] = task[q]
  \/ task'[q] = NoTask
  \/ /\ task[q].pc \in {"none", "queued"} /\ disk[q] \in Accepted
     /\ task'[q] = Planned(q, disk[q])
  \/ /\ task[q].pc \in {"none", "queued"} /\ disk[q] = NoContent
     /\ task'[q] = Queued("DELETE", NoContent)

PlanStep ==
  \/ StartRun \/ PlanDeletions \/ EndRun \/ Crash
  \/ \E p \in Paths : Visit(p) \/ VisitUnreadable(p) \/ Abort(p)

CorpusStep == \E d \in DocIds : Ingest(d) \/ IngestFails(d) \/ BackofficeDelete(d)

LEMMA PlanTable ==
  ASSUME TypeOK, Due, PlanStep
  PROVE  UNCHANGED <<rows, docs, disk>> /\ \A q \in Paths : Replans(q)
<1>1. UNCHANGED <<rows, docs, disk>>
  BY DEF PlanStep, StartRun, PlanDeletions, EndRun, Crash, Visit, VisitUnreadable, Abort
<1>2. phase = "planning" => \A q \in Paths : task[q].pc \in {"none", "queued"}
  BY DEF Due, DeletionIsDue
<1>3. \A q \in Paths : Replans(q)
  <2>1. CASE StartRun \/ EndRun \/ Crash \/ PlanDeletions
    BY <1>2, <2>1 DEF StartRun, EndRun, Crash, PlanDeletions, Replans, IsGone
  <2>2. ASSUME NEW p \in Paths, Visit(p) PROVE \A q \in Paths : Replans(q)
    BY <1>2, <2>2 DEF Visit, Replans, TypeOK
  <2>3. ASSUME NEW p \in Paths, VisitUnreadable(p) \/ Abort(p)
        PROVE  \A q \in Paths : Replans(q)
    BY <2>3 DEF VisitUnreadable, Abort, Replans, TypeOK
  <2> QED
    BY <2>1, <2>2, <2>3 DEF PlanStep
<1> QED
  BY <1>1, <1>3

\* A planned task has no document yet, and fits its row.
LEMMA PlannedTask ==
  ASSUME NEW q, NEW hash
  PROVE  \/ Planned(q, hash) = NoTask /\ Classify(rows[q], hash) = "NOOP"
         \/ /\ Planned(q, hash) = Queued(Classify(rows[q], hash), hash)
            /\ Classify(rows[q], hash) \in {"UPLOAD", "REPLACE", "RESUME"}
  BY DEF Planned, Classify

LEMMA ReplannedTask ==
  ASSUME NEW q \in Paths, Replans(q)
  PROVE  task'[q] = task[q] \/ (task'[q].doc = NoDoc /\ task'[q].pc \in {"none", "queued"})
<1>1. \A hash : Planned(q, hash).doc = NoDoc /\ Planned(q, hash).pc \in {"none", "queued"}
  BY PlannedTask DEF NoTask, Queued
<1>2. CASE task'[q] = Planned(q, disk[q])
  BY <1>1, <1>2
<1>3. CASE task'[q] = NoTask \/ task'[q] = Queued("DELETE", NoContent)
  BY <1>3 DEF NoTask, Queued
<1> QED
  BY <1>2, <1>3 DEF Replans

\* The corpus ingests documents or loses them.
LEMMA CorpusTable ==
  ASSUME TypeOK, CorpusStep
  PROVE  /\ UNCHANGED <<rows, task, disk>>
         /\ \A d \in DocIds :
              \/ docs'[d] = docs[d]
              \/ /\ docs[d].status = "PROCESSING" /\ docs'[d].status \in {"READY", "FAILED"}
                 /\ docs'[d].blob = docs[d].blob /\ docs'[d].content = docs[d].content
                 /\ docs'[d].path = docs[d].path
              \/ "backoffice" \in Faults /\ docs'[d].status = "DELETED"
<1>1. PICK e \in DocIds : Ingest(e) \/ IngestFails(e) \/ BackofficeDelete(e)
  BY DEF CorpusStep
<1>2. UNCHANGED <<rows, task, disk>> /\ docs[e] \in Document
  BY <1>1 DEF Ingest, IngestFails, BackofficeDelete, environment, TypeOK
<1>3. \A d \in DocIds \ {e} : docs'[d] = docs[d]
  BY <1>1 DEF Ingest, IngestFails, BackofficeDelete, TypeOK
<1>4. CASE Ingest(e) \/ IngestFails(e)
  BY <1>2, <1>3, <1>4 DEF Ingest, IngestFails, TypeOK, Settled, Document
<1>5. CASE BackofficeDelete(e)
  BY <1>2, <1>3, <1>5 DEF BackofficeDelete, Mishap, TypeOK, Deleted, Document
<1> QED
  BY <1>1, <1>4, <1>5

LEMMA InitSteady == ASSUME Init PROVE Steady
  BY DEF Init, Steady, ContentIsSent, RowAtStep, NothingSent, NoRow, NoTask, UnusedDocument,
     Ingested

\* The steps of a run around its handlers, and those of the user and of the corpus.
LEMMA SteadyAside ==
  ASSUME TypeOK, Owned, Due, Steady
  PROVE  /\ UNCHANGED <<rows, docs>> /\ (\A q \in Paths : Replans(q)) => Steady'
         /\ CorpusStep => Steady'
<1>1. ASSUME UNCHANGED <<rows, docs>>, \A q \in Paths : Replans(q) PROVE Steady'
  <2>1. ASSUME NEW q \in Paths PROVE StandsAt(q)'
    BY <1>1, ReplannedTask DEF Steady, StandsAt, RowAtStep, NothingSent
  <2> QED
    BY <1>1, <2>1 DEF Steady, StandsAt, ContentIsSent
<1>2. ASSUME CorpusStep PROVE Steady'
  <2>1. ContentIsSent'
    BY <1>2, CorpusTable DEF Steady, ContentIsSent, Ingested
  <2>2. ASSUME NEW q \in Paths PROVE RowAtStep(q)' /\ NothingSent(q)'
    <3>1. /\ rows[q].state = "PENDING_UPLOAD" => rows[q].doc \in DocIds
          /\ task[q].pc \in {"storeDocument", "storePending"} => task[q].doc \in DocIds
      BY DEF TypeOK, Row, Task, MaybeDoc, Owned, PathInv, RowIsBacked, OwnsDocument, WithDocument,
         InFlightStates
    <3> QED
      BY <1>2, <3>1, CorpusTable DEF Steady, RowAtStep, NothingSent
  <2> QED
    BY <2>1, <2>2 DEF Steady
<1> QED
  BY <1>1, <1>2

\* A step of the job is one of a handler, of the plan, of the user or of the corpus.
LEMMA Steps ==
  ASSUME [Next]_vars
  PROVE  \/ \E p \in Paths : Work(p) \/ CallFails(p) \/ CallRetried(p)
         \/ PlanStep
         \/ \E p \in Paths : Edit(p)
         \/ CorpusStep
         \/ UNCHANGED vars
  BY DEF Next, Misfortune, PlanStep, CorpusStep

\* Every step of the job keeps rows and documents where the steps of the handlers say.
LEMMA NextSteady == ASSUME TypeOK, Owned, Due, Steady, [Next]_vars PROVE Steady'
<1>1. ASSUME NEW p \in Paths, Work(p) \/ CallFails(p) \/ CallRetried(p) PROVE Steady'
  <2>1. HandlerStep(p) \/ LostCall(p)
    BY <1>1, HandlerTable, OwnedIsMapped
  <2>2. ContentIsSent'
    BY <2>1, SentStep DEF HandlerStep, GrantedAt, LostCall
  <2>3. \A q \in Paths : StandsAt(q)'
    BY <1>1, <2>1, HandlerConfined, Apart, OwnedIsMapped, SteadyElsewhere, SteadyAtHandler DEF Steady, StandsAt
  <2> QED
    BY <2>2, <2>3 DEF Steady, StandsAt
<1>2. CASE PlanStep
  BY <1>2, PlanTable, SteadyAside
<1>3. CASE CorpusStep
  BY <1>3, SteadyAside
<1>4. CASE UNCHANGED vars \/ \E p \in Paths : Edit(p)
  BY <1>4, SteadyAside DEF vars, Edit, Replans
<1> QED
  BY <1>1, <1>2, <1>3, <1>4, Steps

\* In every environment: what ingestion has is what was sent, a handler knows its row,
\* and nothing is claimed of a document nothing was sent to.
THEOREM SteadyAlways == Spec => []Steady
<1>1. Inv => TypeOK /\ Owned /\ Due
  BY DEF Inv, Owned, Due
<1> QED
  BY <1>1, InitSteady, NextSteady, InvAlways, PTL DEF Spec

-----------------------------------------------------------------------------
(* NoopIsHonest *)

Exact(p) == TaskIsExact(p) /\ RowIsExact(p) /\ StepIsExact(p)

\* A file is left alone for one reason only.
LEMMA NoopMeans ==
  ASSUME NEW row, NEW hash
  PROVE  Classify(row, hash) = "NOOP" <=>
           /\ row.doc # NoDoc
           /\ row.state \notin InFlightStates /\ row.state # "FAILED"
           /\ row.synced = hash
  BY DEF Classify, InFlightStates

\* A file of which nothing changes is as exact as it was.
LEMMA ExactElsewhere ==
  ASSUME Owned, NEW q \in Paths, Same(q), disk'[q] = disk[q], Exact(q)
  PROVE  Exact(q)'
<1>1. PathInv(q)
  BY DEF Owned
<1>2. TaskIsExact(q)'
  BY DEF Same, Exact, TaskIsExact
<1>3. rows[q].state \in {"UPLOADED", "COMMITTED"} => rows[q].doc # NoDoc
  BY <1>1 DEF PathInv, RowIsBacked, InFlightStates
<1>4. RowIsExact(q)'
  BY <1>3, NoopMeans DEF Same, Exact, RowIsExact, WouldSkip
<1>5. StepIsExact(q)'
  BY <1>1 DEF Same, Exact, StepIsExact, PathInv, OwnsDocument, WithDocument
<1> QED
  BY <1>2, <1>4, <1>5 DEF Exact

LEMMA ExactAtHandler ==
  ASSUME TypeOK, Owned, Steady, HonestEnvironment, NEW p \in Paths, Exact(p),
         disk'[p] = disk[p], HandlerStep(p) \/ LostCall(p)
  PROVE  Exact(p)'
<1> USE DEF Exact, TaskIsExact, RowIsExact, StepIsExact
<1>1. /\ rows[p] \in Row /\ task[p] \in Task /\ PathInv(p) /\ StandsAt(p)
      /\ rows[p].doc \in MaybeDoc /\ PollStatus /\ ~DetectDuplicates
      /\ NoContent \notin Accepted
  BY AcceptedAssumption, NoContentAssumption
  DEF TypeOK, Owned, Steady, StandsAt, Row, HonestEnvironment
<1>2. /\ WouldSkip(p) <=>
           /\ disk[p] \in Accepted /\ rows[p].doc # NoDoc
           /\ rows[p].state \notin {"PENDING_UPLOAD", "UPLOADED", "COMMITTED", "FAILED"}
           /\ rows[p].synced = disk[p]
      /\ WouldSkip(p)' <=>
           /\ disk[p] \in Accepted /\ rows'[p].doc # NoDoc
           /\ rows'[p].state \notin {"PENDING_UPLOAD", "UPLOADED", "COMMITTED", "FAILED"}
           /\ rows'[p].synced = disk[p]
  BY NoopMeans DEF WouldSkip, InFlightStates
<1>3. CASE docs' = docs /\ StartsAt(p)
  <2>1. /\ rows'[p].doc = rows[p].doc /\ rows'[p].synced = rows[p].synced
        /\ \/ rows'[p].state = rows[p].state
           \/ rows[p].state = "ABSENT" /\ rows'[p].state = "NEW"
        /\ task[p].pc = "queued"
        /\ task'[p].kind = task[p].kind /\ task'[p].hash = task[p].hash
        /\ task[p].kind = "DELETE" <=> task'[p].pc \in {"delete", "forget"}
        /\ task'[p].pc \in {"delete", "forget", "init", "reinit", "finalise", "push", "commit"}
    BY <1>1, <1>3 DEF StartsAt, Stores, Becomes, ResumesAt, Upserted, Row, Task
  <2> QED
    BY <1>1, <1>2, <1>3, <2>1
<1>4. CASE docs' = docs /\ FailsAt(p)
  BY <1>1, <1>2, <1>4 DEF FailsAt, Becomes, WithFailure, WithSyncState, NoTask, Row, Task, StandsAt, NothingSent, Emptying
<1>5. CASE docs' = docs /\ GoesOnAt(p)
  <2>1. CASE task[p].pc = "reinit"
    <3>1. /\ rows'[p].doc = rows[p].doc /\ rows'[p].synced = NoContent
          /\ rows'[p].state = rows[p].state
          /\ task'[p].pc = "init"
          /\ task'[p].kind = task[p].kind /\ task'[p].hash = task[p].hash
      BY <1>1, <1>5, <2>1 DEF GoesOnAt, Becomes, WithSyncedHash, Row, Task
    <3> QED
      BY <1>1, <1>2, <1>5, <2>1, <3>1
  <2>2. CASE task[p].pc = "finalise"
    BY <1>1, <1>2, <1>5, <2>2 DEF GoesOnAt, Moves, Becomes, Task, Emptying
  <2>3. CASE task[p].pc = "poll"
    BY <1>1, <1>2, <1>5, <2>3 DEF GoesOnAt, Moves, Becomes, NoTask, Task, Emptying, StandsAt, RowAtStep
  <2> QED
    BY <1>1, <1>5, <2>1, <2>2, <2>3 DEF GoesOnAt
<1>6. CASE docs' = docs /\ StoresAt(p)
  <2>1. CASE task[p].pc = "storeDocument"
    <3>1. /\ rows'[p].doc = task[p].doc /\ rows'[p].synced = rows[p].synced
          /\ rows'[p].state = rows[p].state /\ task'[p].pc = "storePending"
          /\ task'[p].kind = task[p].kind /\ task'[p].hash = task[p].hash
      BY <1>1, <1>6, <2>1 DEF StoresAt, Stores, Becomes, WithDocumentId, Row, Task
    <3> QED
      BY <1>1, <1>2, <1>6, <2>1, <3>1 DEF PathInv, HandlerIsBacked, Emptying, StandsAt, NothingSent
  <2>2. CASE task[p].pc \in {"storePending", "storeUploaded", "storeCommitted"}
    <3>1. /\ rows'[p].doc = rows[p].doc /\ task[p].doc = rows[p].doc
          /\ <<task[p].pc, rows'[p].state, task'[p].pc>> \in
               {<<"storePending", "PENDING_UPLOAD", "push">>, <<"storeUploaded", "UPLOADED", "commit">>,
                <<"storeCommitted", "COMMITTED", "storeSyncedHash">>}
          /\ task'[p].kind = task[p].kind /\ task'[p].hash = task[p].hash
      BY <1>1, <1>6, <2>2 DEF StoresAt, Stores, Becomes, WithSyncState, Row, Task, PathInv,
         OwnsDocument, Bound, WithDocument
    <3> QED
      BY <1>1, <1>2, <1>6, <2>2, <3>1
  <2>3. CASE task[p].pc \in {"storeSyncedHash", "markHash"}
    <3>1. /\ rows'[p].doc = rows[p].doc /\ task'[p].doc = task[p].doc
          /\ rows'[p].state = rows[p].state /\ rows'[p].synced = task[p].hash
          /\ task'[p].pc = IF task[p].pc = "markHash" THEN "markState" ELSE "finalise"
          /\ task'[p].kind = task[p].kind /\ task'[p].hash = task[p].hash
      BY <1>1, <1>6, <2>3 DEF StoresAt, Stores, Becomes, WithSyncedHash, Row, Task
    <3> QED
      BY <1>1, <1>2, <1>6, <2>3, <3>1 DEF StandsAt, RowAtStep
  <2>4. CASE task[p].pc \in {"markState", "forget"}
    <3>1. /\ task'[p] = NoTask
          /\ task[p].pc = "markState" =>
               rows'[p].doc = rows[p].doc /\ task[p].doc = rows[p].doc /\ rows'[p].state = "SYNCED"
          /\ task[p].pc = "forget" => rows'[p] = NoRow
      BY <1>1, <1>6, <2>4 DEF StoresAt, Stores, Becomes, WithSyncState, Row, Task, PathInv,
         OwnsDocument, Bound, WithDocument
    <3> QED
      BY <1>1, <1>2, <1>6, <2>4, <3>1 DEF NoTask, NoRow, Serves, Emptying
  <2> QED
    BY <1>6, <2>1, <2>2, <2>3, <2>4 DEF StoresAt
<1>7. CASE Reaches(p) /\ task[p].pc = "init"
  <2>1. rows[p].doc # NoDoc => docs'[rows[p].doc] = docs[rows[p].doc]
    BY <1>7, Reached DEF Reworks
  <2>2. rows[p].state \notin {"UPLOADED", "COMMITTED"} /\ ~WouldSkip(p)
    BY <1>1, <1>7 DEF PathInv, HandlerIsBacked, Emptying
  <2>3. CASE GrantedAt(p)
    BY <1>1, <1>2, <1>7, <2>1, <2>2, <2>3 DEF GrantedAt, Becomes, Task
  <2>4. CASE LostCall(p)
    BY <1>1, <1>2, <1>7, <2>1, <2>2, <2>4 DEF LostCall, Becomes, WithFailure, WithSyncState,
       NoTask, Row
  <2> QED
    BY <1>3, <1>4, <1>5, <1>6, <2>3, <2>4 DEF HandlerStep
<1>8. CASE Reaches(p) /\ task[p].pc # "init"
  <2> DEFINE d == task[p].doc
  <2>1. d = rows[p].doc /\ d \in DocIds /\ Reworks(p, docs[d], docs'[d])
    BY <1>8, Reached
  <2>2. task[p].pc \in {"reinit", "push", "commit", "delete"}
    BY <2>1 DEF Reworks
  <2>3. /\ ~WouldSkip(p) /\ rows[p].state # "COMMITTED"
        /\ rows[p].state = "UPLOADED" =>
             docs'[d].status = "DELETED" \/ docs'[d].blob = disk[p]
    <3>1. CASE task[p].pc = "reinit"
      BY <1>1, <3>1 DEF PathInv, HandlerIsBacked, Emptying
    <3>2. CASE task[p].pc = "push"
      BY <1>1, <1>2, <3>2 DEF StandsAt, RowAtStep
    <3>3. CASE task[p].pc = "commit"
      BY <1>1, <1>2, <2>1, <3>3 DEF StandsAt, RowAtStep, Reworks, Committable, Exists
    <3>4. CASE task[p].pc = "delete"
      <4>1. disk[p] = NoContent
        BY <3>4
      <4>2. rows[p].state # "COMMITTED"
        BY <2>1, <4>1 DEF Steady, ContentIsSent
      <4> QED
        BY <1>1, <1>2, <2>1, <3>4, <4>1, <4>2 DEF Reworks
    <3> QED
      BY <2>2, <3>1, <3>2, <3>3, <3>4
  <2>4. CASE GrantedAt(p)
    <3>1. /\ rows'[p] = rows[p] /\ task'[p].doc = d
          /\ task'[p].kind = task[p].kind /\ task'[p].hash = task[p].hash
          /\ <<task[p].pc, task'[p].pc>> \in
               {<<"reinit", "storeDocument">>, <<"push", "storeUploaded">>,
                <<"commit", "storeCommitted">>, <<"delete", "forget">>}
      BY <1>1, <1>8, <2>4 DEF GrantedAt, Moves, Becomes, Task
    <3>2. task[p].pc = "push" => docs'[d].status = "DELETED" \/ docs'[d].blob = disk[p]
      BY <2>1 DEF Reworks
    <3>3. ASSUME task[p].pc = "commit"
          PROVE  docs'[d].status \in Ingested /\ docs'[d].content = disk[p]
      <4>1. rows[p].state = "UPLOADED" /\ Committable(docs[d])
        BY <1>1, <2>1, <3>3 DEF StandsAt, RowAtStep, Reworks
      <4>2. docs[d].blob = disk[p]
        BY <2>1, <4>1 DEF Committable, Exists
      <4>3. AlreadyCommitted(docs[d]) => docs[d].content = docs[d].blob
        BY <2>1 DEF Steady, ContentIsSent, AlreadyCommitted, Ingested
      <4> QED
        BY <2>1, <3>3, <4>2, <4>3 DEF Reworks, AlreadyCommitted, Ingested
    <3> HIDE DEF d
    <3> QED
      BY <1>1, <1>2, <2>1, <2>2, <2>3, <3>1, <3>2, <3>3
  <2>5. CASE LostCall(p)
    BY <1>1, <1>2, <2>1, <2>2, <2>3, <2>5 DEF LostCall, Becomes, WithFailure, WithSyncState,
       NoTask, Row
  <2> QED
    BY <1>3, <1>4, <1>5, <1>6, <2>4, <2>5 DEF HandlerStep
<1>9. CASE LostCall(p) /\ docs' = docs
  BY <1>1, <1>2, <1>9 DEF LostCall, Becomes, WithFailure, WithSyncState, NoTask, Row, StandsAt,
     NothingSent, Emptying
<1> QED
  BY <1>3, <1>4, <1>5, <1>6, <1>7, <1>8, <1>9 DEF HandlerStep, GrantedAt, LostCall

\* Planning makes a task of the file it has just looked at.
LEMMA ExactReplanned ==
  ASSUME TypeOK, NEW q \in Paths, Exact(q), UNCHANGED <<rows[q], docs, disk[q]>>, Replans(q)
  PROVE  Exact(q)'
<1> USE DEF Exact, TaskIsExact, RowIsExact, StepIsExact
<1>1. WouldSkip(q)' = WouldSkip(q) /\ NoContent \notin Accepted
  BY AcceptedAssumption, NoContentAssumption DEF WouldSkip
<1>2. CASE task'[q] = task[q]
  BY <1>1, <1>2
<1>3. CASE task'[q] = NoTask
  BY <1>1, <1>3 DEF NoTask, Emptying
<1>4. CASE task'[q] = Queued("DELETE", NoContent) /\ disk[q] = NoContent
  BY <1>1, <1>4 DEF Queued, WouldSkip, Emptying
<1>5. CASE task'[q] = Planned(q, disk[q]) /\ disk[q] \in Accepted
  <2>1. CASE Planned(q, disk[q]) = NoTask
    BY <1>3, <1>5, <2>1
  <2>2. CASE /\ Planned(q, disk[q]) = Queued(Classify(rows[q], disk[q]), disk[q])
             /\ Classify(rows[q], disk[q]) \in {"UPLOAD", "REPLACE", "RESUME"}
    BY <1>1, <1>5, <2>2 DEF Queued, WouldSkip, Emptying
  <2> QED
    BY <2>1, <2>2, PlannedTask
<1> QED
  BY <1>2, <1>3, <1>4, <1>5 DEF Replans

\* Nobody edits a file that is waited for, nor brings back what its row has as synced.
LEMMA ExactEdited ==
  ASSUME TypeOK, Owned, Due, HonestEnvironment, NEW p \in Paths, Edit(p), NEW q \in Paths, Exact(q)
  PROVE  Exact(q)'
<1>1. UNCHANGED <<rows, docs, task>> /\ phase = "idle"
      /\ rows[p].state \notin {"UPLOADED", "COMMITTED"}
  BY DEF Edit, MayEdit, HonestEnvironment
<1>2. CASE disk'[q] = disk[q]
  BY <1>1, <1>2, ExactReplanned DEF Replans
<1>3. CASE disk'[q] # disk[q]
  <2>1. q = p /\ (disk'[p] = NoContent \/ disk'[p] # rows[p].synced)
    BY <1>3 DEF Edit, TypeOK, HonestEnvironment
  <2>2. task[p].pc = "none"
    BY <1>1 DEF Due, DeletionIsDue
  <2>3. ~WouldSkip(p)'
    BY <1>1, <2>1, NoopMeans, AcceptedAssumption, NoContentAssumption DEF WouldSkip
  <2> QED
    BY <1>1, <2>1, <2>2, <2>3 DEF Exact, TaskIsExact, RowIsExact, StepIsExact
<1> QED
  BY <1>2, <1>3

\* Ingestion moves no bytes.
LEMMA ExactIngested ==
  ASSUME TypeOK, Owned, HonestEnvironment, CorpusStep, NEW q \in Paths, Exact(q)
  PROVE  Exact(q)'
<1>1. UNCHANGED <<rows, task, disk>>
  BY CorpusTable
<1>2. \A d \in DocIds :
        \/ docs'[d] = docs[d]
        \/ /\ docs[d].status = "PROCESSING" /\ docs'[d].status \in {"READY", "FAILED"}
           /\ docs'[d].blob = docs[d].blob /\ docs'[d].content = docs[d].content
  BY CorpusTable DEF HonestEnvironment
<1>3. /\ rows[q].doc # NoDoc => rows[q].doc \in DocIds
      /\ rows[q].state \in {"UPLOADED", "COMMITTED"} => rows[q].doc \in DocIds
      /\ task[q].pc \in WithDocument => task[q].doc \in DocIds
  BY DEF TypeOK, Row, Task, MaybeDoc, Owned, PathInv, RowIsBacked, OwnsDocument, InFlightStates
<1>4. WouldSkip(q) => rows[q].doc # NoDoc
  BY NoopMeans DEF WouldSkip
<1>5. WouldSkip(q)' = WouldSkip(q)
  BY <1>1 DEF WouldSkip
<1> QED
  BY <1>1, <1>2, <1>3, <1>4, <1>5 DEF Exact, TaskIsExact, RowIsExact, StepIsExact, Serves, Ingested,
     WithDocument

\* Every step of the job in an honest environment leaves an exact file exact.
LEMMA NextExact ==
  ASSUME TypeOK, Owned, Due, Steady, HonestEnvironment, NEW q \in Paths, Exact(q), [Next]_vars
  PROVE  Exact(q)'
<1>1. ASSUME NEW p \in Paths, Work(p) \/ CallFails(p) \/ CallRetried(p)
      PROVE  Exact(q)'
  <2>1. HandlerStep(p) \/ LostCall(p)
    BY <1>1, HandlerTable, OwnedIsMapped
  <2>2. disk' = disk /\ TouchesOnly(p)
    BY <1>1, HandlerConfined, OwnedIsMapped
  <2> QED
    BY <2>1, <2>2, Apart, OwnedIsMapped, ExactElsewhere, ExactAtHandler
<1>2. CASE PlanStep
  BY <1>2, PlanTable, ExactReplanned
<1>3. CASE \E p \in Paths : Edit(p)
  BY <1>3, ExactEdited
<1>4. CASE CorpusStep
  BY <1>4, ExactIngested
<1>5. CASE UNCHANGED vars
  BY <1>5, ExactReplanned DEF vars, Replans
<1> QED
  BY <1>1, <1>2, <1>3, <1>4, <1>5, Steps

LEMMA InitExact == ASSUME Init PROVE \A p \in Paths : Exact(p)
<1>1. \A p \in Paths : task[p].pc = "none" /\ rows[p].state = "ABSENT" /\ rows[p].doc = NoDoc
  BY DEF Init, NoTask, NoRow
<1>2. \A p \in Paths : ~WouldSkip(p)
  BY <1>1, NoopMeans DEF WouldSkip
<1> QED
  BY <1>1, <1>2 DEF Exact, TaskIsExact, RowIsExact, StepIsExact

\* The invariant of an honest environment, in every state of the job.
THEOREM HonestInvAlways == ASSUME HonestEnvironment PROVE Spec => []HonestInv
<1>1. Inv => TypeOK /\ Owned /\ Due
  BY DEF Inv, Owned, Due
<1> DEFINE AllExact == \A p \in Paths : Exact(p)
<1>2. Init => AllExact
  BY InitExact
<1>3. TypeOK /\ Owned /\ Due /\ Steady /\ AllExact /\ [Next]_vars => AllExact'
  BY NextExact
<1>4. Inv /\ Steady /\ AllExact => HonestInv
  BY DEF HonestInv, Exact
<1> HIDE DEF AllExact
<1> QED
  BY <1>1, <1>2, <1>3, <1>4, InvAlways, SteadyAlways, PTL DEF Spec

LEMMA ExactIsHonest == ASSUME HonestInv PROVE NoopIsHonest
  BY DEF HonestInv, RowIsExact, WouldSkip, NoopIsHonest

\* Whenever a run would leave a file alone, the corpus serves its content: after lost
\* calls and answers, aborted workers and killed runs, and while workers interleave.
THEOREM NoopIsHonestAlways == ASSUME HonestEnvironment PROVE Spec => []NoopIsHonest
  BY HonestInvAlways, ExactIsHonest, PTL

-----------------------------------------------------------------------------
(* NoOrphans and UidIsStable *)

InPlace(p) == Resting(p) /\ Smooth(p)

\* What a handler can count on when nothing goes wrong.
LEMMA InPlaceAt ==
  ASSUME TypeOK, Owned, Steady, NEW p \in Paths, InPlace(p)
  PROVE  /\ rows[p] \in Row /\ task[p] \in Task /\ PathInv(p) /\ StandsAt(p)
         /\ rows[p].doc \in MaybeDoc
         /\ task[p].pc \in Bound \cup {"forget"} => task[p].doc = rows[p].doc
  BY DEF TypeOK, Owned, Steady, StandsAt, Row, PathInv, OwnsDocument, InPlace, Smooth

LEMMA InPlaceElsewhere ==
  ASSUME Owned, NEW q \in Paths, Same(q), disk'[q] = disk[q], InPlace(q)
  PROVE  InPlace(q)'
<1>1. PathInv(q)
  BY DEF Owned
<1> QED
  BY <1>1 DEF Same, InPlace, Resting, Smooth, PathInv, OwnsDocument, WithDocument, IsDeletion

\* Where a worker starts: on a file at rest.
LEMMA InPlaceStarts ==
  ASSUME TypeOK, Owned, Steady, NEW p \in Paths, InPlace(p), disk'[p] = disk[p],
         docs' = docs, StartsAt(p)
  PROVE  /\ InPlace(p)'
         /\ rows'[p].doc = rows[p].doc
         /\ task[p].doc = NoDoc
<1>1. rows[p] \in Row /\ task[p] \in Task /\ PathInv(p) /\ task[p].pc = "queued"
  BY InPlaceAt DEF StartsAt
<1>2. /\ task[p].doc = NoDoc
      /\ \/ rows[p] = NoRow
         \/ rows[p].doc # NoDoc /\ <<rows[p].state, docs[rows[p].doc].status>> \in
              ({"COMMITTED"} \X Ingested) \cup {<<"SYNCED", "READY">>, <<"FAILED", "FAILED">>}
  BY <1>1 DEF InPlace, Resting
<1>3. rows'[p].doc = rows[p].doc
  BY <1>1 DEF StartsAt, Stores, Becomes, Upserted, Row
<1>4. CASE task[p].kind = "UPLOAD"
  BY <1>1, <1>2, <1>3, <1>4 DEF StartsAt, Stores, Task, PathInv, PlanFits, InPlace, Resting, Smooth, IsDeletion, Becomes
<1>5. CASE task[p].kind = "REPLACE"
  <2>1. Replaceable(docs[rows[p].doc])
    BY <1>1, <1>2, <1>5 DEF PathInv, PlanFits, InFlightStates, Replaceable, NoRow
  <2>2. task'[p].pc = "reinit" /\ task'[p].doc = rows[p].doc
    BY <1>1, <1>5 DEF StartsAt, Becomes, Task
  <2> QED
    BY <1>1, <1>3, <1>5, <2>1, <2>2 DEF InPlace, Resting, Smooth, IsDeletion
<1>6. CASE task[p].kind = "RESUME"
  <2>1. rows[p].state = "COMMITTED" /\ docs[rows[p].doc].status \in Ingested
    BY <1>1, <1>2, <1>6 DEF PathInv, PlanFits, InFlightStates, NoRow
  <2>2. task'[p].pc = "finalise" /\ task'[p].doc = rows[p].doc
    BY <1>1, <1>6, <2>1 DEF StartsAt, Becomes, Task, ResumesAt
  <2> QED
    BY <1>1, <1>3, <1>6, <2>1, <2>2 DEF InPlace, Resting, Smooth, IsDeletion
<1>7. CASE task[p].kind = "DELETE"
  BY <1>1, <1>2, <1>3, <1>7 DEF StartsAt, Becomes, Task, InPlace, Resting, Smooth, IsDeletion
<1> QED
  BY <1>2, <1>3, <1>4, <1>5, <1>6, <1>7 DEF StartsAt

\* Where a handler goes on: no request of it is refused.
LEMMA InPlaceGoesOn ==
  ASSUME TypeOK, Owned, Steady, GentleEnvironment, NEW p \in Paths, InPlace(p),
         disk'[p] = disk[p], HandlerStep(p), ~StartsAt(p)
  PROVE  /\ InPlace(p)'
         /\ rows'[p].doc \in {rows[p].doc, task[p].doc} \/ rows'[p] = NoRow
         /\ rows[p].doc \in {NoDoc, rows'[p].doc} \/ rows'[p] = NoRow
         /\ \/ {rows[p].doc, task[p].doc} \ {NoDoc} \subseteq {rows'[p].doc, task'[p].doc}
            \/ task[p].pc = "forget" /\ task[p].doc = rows[p].doc
<1> USE DEF InPlace, Resting, Smooth, IsDeletion
<1>1. /\ rows[p] \in Row /\ task[p] \in Task /\ PathInv(p) /\ StandsAt(p)
      /\ rows[p].doc \in MaybeDoc
      /\ task[p].pc \in Bound \cup {"forget"} => task[p].doc = rows[p].doc
      /\ PollStatus /\ ~DetectDuplicates
  BY InPlaceAt DEF GentleEnvironment
<1>2. CASE docs' = docs /\ FailsAt(p)
  <2>1. /\ task[p].pc = "poll" /\ docs[task[p].doc].status = "FAILED"
    BY <1>1, <1>2 DEF FailsAt, Committable, Exists, Ingested
  <2>2. rows[p].state = "COMMITTED" /\ task[p].doc = rows[p].doc /\ rows[p].doc # NoDoc
    BY <1>1, <2>1 DEF StandsAt, RowAtStep, Bound, WithDocument, PathInv, OwnsDocument
  <2>3. rows'[p].state = "FAILED" /\ rows'[p].doc = rows[p].doc /\ task'[p] = NoTask
    BY <1>1, <1>2, <2>2 DEF FailsAt, Becomes, WithFailure, WithSyncState, Row
  <2> QED
    BY <1>2, <2>1, <2>2, <2>3 DEF NoTask
<1>3. CASE docs' = docs /\ GoesOnAt(p)
  <2>1. task[p].pc \in {"finalise", "poll"} /\ rows'[p] = rows[p]
    BY <1>1, <1>3 DEF GoesOnAt, Moves, Becomes
  <2>2. /\ rows[p].state = "COMMITTED" /\ task[p].doc = rows[p].doc /\ rows[p].doc # NoDoc
        /\ docs[rows[p].doc].status \in Ingested
    BY <1>1, <2>1 DEF StandsAt, RowAtStep, Bound, WithDocument, PathInv, OwnsDocument
  <2>3. \/ task'[p] = NoTask
        \/ /\ task'[p].doc = task[p].doc /\ task'[p].kind = task[p].kind
           /\ \/ task'[p].pc = "poll"
              \/ task'[p].pc = "markHash" /\ docs[rows[p].doc].status = "READY"
    BY <1>1, <1>3, <2>1, <2>2 DEF GoesOnAt, Moves, Becomes, Task
  <2> QED
    BY <1>1, <1>3, <2>1, <2>2, <2>3 DEF NoTask
<1>4. CASE docs' = docs /\ StoresAt(p)
  <2>1. CASE task[p].pc = "storeDocument"
    <3>1. /\ rows'[p].doc = task[p].doc /\ task'[p].doc = task[p].doc
          /\ task'[p].pc = "storePending"
      BY <1>1, <1>4, <2>1 DEF StoresAt, Stores, Becomes, WithDocumentId, Row, Task
    <3> QED
      BY <1>1, <1>4, <2>1, <3>1
  <2>2. CASE task[p].pc \in Writes \ {"storeDocument", "markState", "forget"}
    <3>1. /\ rows'[p].doc = rows[p].doc /\ task'[p].doc = task[p].doc
          /\ <<task[p].pc, task'[p].pc>> \in
               {<<"storePending", "push">>, <<"storeUploaded", "commit">>,
                <<"storeCommitted", "storeSyncedHash">>, <<"storeSyncedHash", "finalise">>,
                <<"markHash", "markState">>}
      BY <1>1, <1>4, <2>2 DEF StoresAt, Stores, Becomes, WithSyncState, WithSyncedHash, Row, Task,
         Writes
    <3> QED
      BY <1>1, <1>4, <2>2, <3>1
  <2>3. CASE task[p].pc = "markState"
    <3>1. /\ rows'[p].doc = rows[p].doc /\ rows'[p].state = "SYNCED" /\ task'[p] = NoTask
          /\ task[p].doc = rows[p].doc /\ rows[p].doc # NoDoc
      BY <1>1, <1>4, <2>3 DEF StoresAt, Becomes, WithSyncState, Row, PathInv, OwnsDocument, Bound,
         WithDocument
    <3> QED
      BY <1>1, <1>4, <2>3, <3>1 DEF NoTask
  <2>4. CASE task[p].pc = "forget"
    <3>1. rows'[p] = NoRow /\ task'[p] = NoTask
      BY <1>1, <1>4, <2>4 DEF StoresAt, Becomes
    <3> QED
      BY <1>1, <1>4, <2>4, <3>1 DEF NoTask
  <2> QED
    BY <1>4, <2>1, <2>2, <2>3, <2>4 DEF StoresAt, Writes
<1>5. CASE GrantedAt(p) /\ task[p].pc = "init"
  <2>1. PICK e \in DocIds :
          /\ docs[e].status = "UNUSED" /\ docs'[e].status # "UNUSED"
          /\ Becomes(p, rows[p], [task[p] EXCEPT !.pc = "storeDocument", !.doc = e])
    BY <1>5 DEF GrantedAt
  <2>2. docs'[e].status = "AWAITING_UPLOAD" /\ docs'[e].blob = NoContent
    <3>1. PICK d \in DocIds : DocumentBecomes(d, Initialised(p))
      BY <1>5 DEF GrantedAt, Reaches
    <3>2. d = e
      BY <2>1, <3>1 DEF DocumentBecomes
    <3> QED
      BY <3>1, <3>2 DEF DocumentBecomes, Initialised
  <2>3. rows'[p] = rows[p] /\ task'[p].pc = "storeDocument" /\ task'[p].doc = e
        /\ task'[p].kind = task[p].kind
    BY <1>1, <2>1 DEF Becomes, Task
  <2> QED
    BY <1>1, <1>5, <2>2, <2>3
<1>6. CASE GrantedAt(p) /\ task[p].pc # "init"
  <2> DEFINE d == task[p].doc
  <2>1. d = rows[p].doc /\ d \in DocIds /\ Reworks(p, docs[d], docs'[d])
    BY <1>6, Reached DEF GrantedAt
  <2>2. /\ rows'[p] = rows[p] /\ task'[p].doc = d /\ task'[p].kind = task[p].kind
        /\ <<task[p].pc, task'[p].pc>> \in
             {<<"reinit", "storeDocument">>, <<"push", "storeUploaded">>,
              <<"commit", "storeCommitted">>, <<"delete", "forget">>}
    BY <1>1, <1>6 DEF GrantedAt, Moves, Becomes, Task
  <2>3. /\ task[p].pc = "reinit" => docs'[d].status = "AWAITING_UPLOAD" /\ docs'[d].blob = NoContent
        /\ task[p].pc = "push" => docs'[d].status = "AWAITING_UPLOAD" /\ docs'[d].blob # NoContent
        /\ task[p].pc = "commit" => docs'[d].status \in Ingested
    BY <1>1, <2>1 DEF Reworks, AlreadyCommitted, Ingested
  <2>4. InPlace(p)'
    <3> HIDE DEF d
    <3>1. CASE task[p].pc \in {"reinit", "delete"}
      BY <1>1, <2>1, <2>2, <2>3, <3>1
    <3>2. CASE task[p].pc \in {"push", "commit"}
      BY <1>1, <2>1, <2>2, <2>3, <3>2
    <3> QED
      BY <2>2, <3>1, <3>2
  <2> QED
    BY <1>1, <2>1, <2>2, <2>4
<1> QED
  BY <1>2, <1>3, <1>4, <1>5, <1>6 DEF HandlerStep

\* A living document is named where its path says.
AllRemembered == \A d \in DocIds : Remembered(d)

\* A handler drops no document that lives.
LEMMA RememberedStep ==
  ASSUME TypeOK, Owned, Steady, AllRemembered, NEW p \in Paths, InPlace(p),
         TouchesOnly(p), docs' = docs \/ Reaches(p),
         \/ {rows[p].doc, task[p].doc} \ {NoDoc} \subseteq {rows'[p].doc, task'[p].doc}
         \/ task[p].pc = "forget" /\ task[p].doc = rows[p].doc /\ docs' = docs,
         \A e \in DocIds : docs[e].status = "UNUSED" /\ docs'[e] # docs[e] => task'[p].doc = e
  PROVE  AllRemembered'
<1>1. ASSUME NEW d \in DocIds, Exists(docs[d])', docs'[d].path # p PROVE Remembered(d)'
  BY <1>1 DEF TouchesOnly, AllRemembered, Remembered
<1>2. ASSUME NEW d \in DocIds, Exists(docs[d])', docs'[d].path = p PROVE Remembered(d)'
  <2>1. CASE docs[d].status = "UNUSED"
    BY <1>2, <2>1 DEF Exists, Remembered
  <2>2. CASE docs[d].status = "DELETED"
    <3>1. docs'[d] # docs[d] /\ Reaches(p)
      BY <1>2, <2>2 DEF Exists
    <3>2. task[p].pc # "init"
      <4>1. \A e \in DocIds : DocumentBecomes(e, Initialised(p)) /\ docs[e].status = "UNUSED" =>
              docs'[d] = docs[d]
        BY <2>2 DEF DocumentBecomes
      <4> QED
        BY <3>1, <4>1 DEF Reaches
    <3>3. Reworks(p, docs[d], docs'[d])
      BY <3>1, <3>2, Reached
    <3> QED
      BY <1>2, <2>2, <3>3 DEF Reworks, Replaceable, Committable, Exists
  <2>3. CASE Exists(docs[d])
    <3>1. docs[d].path = p
      BY <1>2, <2>3, NoPathAssumption DEF TouchesOnly, AllRemembered, Remembered
    <3>2. d \in {rows[p].doc, task[p].doc} /\ d # NoDoc
      BY <2>3, <3>1, NoDocAssumption DEF AllRemembered, Remembered
    <3>3. CASE {rows[p].doc, task[p].doc} \ {NoDoc} \subseteq {rows'[p].doc, task'[p].doc}
      BY <1>2, <3>2, <3>3 DEF Remembered
    <3>4. CASE task[p].pc = "forget" /\ task[p].doc = rows[p].doc
      BY <2>3, <3>2, <3>4 DEF Owned, PathInv, HandlerIsBacked, Exists
    <3> QED
      BY <3>3, <3>4
  <2> QED
    BY <2>1, <2>2, <2>3 DEF Exists
<1>3. \A d \in DocIds : ~Exists(docs[d])' => Remembered(d)'
  BY DEF Remembered
<1> QED
  BY <1>1, <1>2, <1>3 DEF AllRemembered

\* The handler steps of a gentle environment.
LEMMA InPlaceWork ==
  ASSUME TypeOK, Owned, Steady, GentleEnvironment, AllRemembered, \A q \in Paths : InPlace(q),
         NEW p \in Paths, Work(p)
  PROVE  /\ AllRemembered' /\ \A q \in Paths : InPlace(q)'
         /\ \A q \in Paths : rows[q].doc # NoDoc => rows'[q] = NoRow \/ rows'[q].doc = rows[q].doc
<1>1. HandlerStep(p) /\ TouchesOnly(p) /\ disk' = disk
  BY HandlerTable, HandlerConfined, OwnedIsMapped
<1>2. \A q \in Paths \ {p} : InPlace(q)' /\ rows'[q] = rows[q]
  BY <1>1, Apart, OwnedIsMapped, InPlaceElsewhere DEF TouchesOnly
<1>3. /\ InPlace(p)'
      /\ rows[p].doc \in {NoDoc, rows'[p].doc} \/ rows'[p] = NoRow
      /\ \/ {rows[p].doc, task[p].doc} \ {NoDoc} \subseteq {rows'[p].doc, task'[p].doc}
         \/ task[p].pc = "forget" /\ task[p].doc = rows[p].doc
  <2>1. CASE docs' = docs /\ StartsAt(p)
    BY <1>1, <2>1, InPlaceStarts
  <2>2. CASE ~StartsAt(p)
    BY <1>1, <2>2, InPlaceGoesOn
  <2>3. CASE GrantedAt(p) /\ StartsAt(p)
    BY <2>3 DEF GrantedAt, Reaches, StartsAt
  <2> QED
    BY <1>1, <2>1, <2>2, <2>3 DEF HandlerStep
<1>4. docs' = docs \/ Reaches(p)
  BY <1>1 DEF HandlerStep, GrantedAt
<1>5. ASSUME NEW e \in DocIds, docs[e].status = "UNUSED", docs'[e] # docs[e]
      PROVE  task'[p].doc = e
  <2>1. GrantedAt(p)
    BY <1>1, <1>5 DEF HandlerStep
  <2>2. CASE task[p].pc = "init"
    <3>1. PICK d \in DocIds : /\ docs[d].status = "UNUSED" /\ docs'[d].status # "UNUSED"
                              /\ Becomes(p, rows[p], [task[p] EXCEPT !.pc = "storeDocument", !.doc = d])
      BY <2>1, <2>2 DEF GrantedAt
    <3>2. d = e
      <4>1. PICK f \in DocIds : DocumentBecomes(f, Initialised(p))
        BY <2>1, <2>2 DEF GrantedAt, Reaches
      <4> QED
        BY <1>5, <3>1, <4>1 DEF DocumentBecomes
    <3> QED
      BY <3>1, <3>2 DEF Becomes, TypeOK, Task
  <2>3. CASE task[p].pc # "init"
    <3>1. e = task[p].doc /\ task[p].pc \in {"reinit", "push", "commit", "delete"}
      BY <1>5, <2>1, <2>3, Reached DEF GrantedAt, Reworks
    <3> QED
      BY <1>5, <3>1, InHand DEF WithDocument
  <2> QED
    BY <2>2, <2>3
<1>6. task[p].pc = "forget" => docs' = docs
  BY <1>4 DEF Reaches
<1>7. AllRemembered'
  BY <1>1, <1>3, <1>4, <1>5, <1>6, RememberedStep
<1> QED
  BY <1>2, <1>3, <1>7

\* Outside the handlers nothing is forgotten, and nothing starts that is not at rest.
LEMMA InPlaceAside ==
  ASSUME TypeOK, Owned, Due, GentleEnvironment, AllRemembered, \A q \in Paths : InPlace(q)
  PROVE  /\ PlanStep => AllRemembered' /\ \A q \in Paths : InPlace(q)'
         /\ CorpusStep => AllRemembered' /\ \A q \in Paths : InPlace(q)'
         /\ (\E p \in Paths : Edit(p)) => AllRemembered' /\ \A q \in Paths : InPlace(q)'
<1> USE DEF InPlace, Resting, Smooth, IsDeletion
<1>1. ASSUME PlanStep PROVE AllRemembered' /\ \A q \in Paths : InPlace(q)'
  <2>1. UNCHANGED <<rows, docs, disk>> /\ \A q \in Paths : Replans(q)
    BY <1>1, PlanTable
  <2>2. ASSUME NEW q \in Paths
        PROVE  \/ task'[q] = task[q]
               \/ /\ task[q].pc \in {"none", "queued"} /\ task'[q].doc = NoDoc
                  /\ \/ task'[q].pc = "none"
                     \/ task'[q].pc = "queued" /\ (task'[q].kind = "DELETE" \/ disk[q] # NoContent)
    <3>1. CASE task'[q] = NoTask
      <4>1. \A p \in Paths : ~Abort(p)
        BY DEF Abort, Mishap, GentleEnvironment
      <4>2. ~Crash
        BY DEF Crash, Mishap, GentleEnvironment
      <4>3. task[q].pc \in {"none", "queued"} \/ task'[q] = task[q]
        BY <1>1, <4>1, <4>2 DEF PlanStep, StartRun, PlanDeletions, EndRun, Visit, VisitUnreadable, TypeOK, Due, DeletionIsDue
      <4> QED
        BY <3>1, <4>3 DEF NoTask
    <3>2. CASE task[q].pc \in {"none", "queued"} /\ disk[q] \in Accepted /\ task'[q] = Planned(q, disk[q])
      BY <3>2, PlannedTask, AcceptedAssumption, NoContentAssumption DEF NoTask, Queued
    <3>3. CASE task[q].pc \in {"none", "queued"} /\ task'[q] = Queued("DELETE", NoContent)
      BY <3>3 DEF Queued
    <3> QED
      BY <2>1, <3>1, <3>2, <3>3 DEF Replans
  <2>3. ASSUME NEW q \in Paths PROVE InPlace(q)'
    BY <2>1, <2>2
  <2>4. ASSUME NEW d \in DocIds, Exists(docs[d]) PROVE Remembered(d)'
    <3> DEFINE q == docs[d].path
    <3>1. q \in Paths /\ d \in {rows[q].doc, task[q].doc} /\ d # NoDoc
      BY <2>4, NoDocAssumption DEF AllRemembered, Remembered
    <3>2. d \in {rows[q].doc, task'[q].doc}
      BY <2>2, <3>1
    <3> QED
      BY <2>1, <3>1, <3>2 DEF Remembered
  <2> QED
    BY <2>1, <2>3, <2>4 DEF AllRemembered, Remembered
<1>2. ASSUME CorpusStep PROVE AllRemembered' /\ \A q \in Paths : InPlace(q)'
  <2>1. UNCHANGED <<rows, task, disk>>
    BY <1>2, CorpusTable
  <2>2. \A d \in DocIds :
          \/ docs'[d] = docs[d]
          \/ /\ docs[d].status = "PROCESSING" /\ docs'[d].status \in {"READY", "FAILED"}
             /\ docs'[d].path = docs[d].path
    BY <1>2, CorpusTable DEF GentleEnvironment
  <2>3. ASSUME NEW q \in Paths PROVE InPlace(q)'
    <3>1. rows[q].doc \in MaybeDoc /\ task[q].doc \in MaybeDoc /\ PathInv(q)
      BY DEF TypeOK, Row, Task, Owned
    <3> QED
      BY <2>1, <2>2, <3>1 DEF PathInv, OwnsDocument, WithDocument, MaybeDoc, Ingested, Replaceable
  <2>4. AllRemembered'
    BY <2>1, <2>2 DEF AllRemembered, Remembered, Exists
  <2> QED
    BY <2>3, <2>4
<1>3. ASSUME NEW p \in Paths, Edit(p) PROVE AllRemembered' /\ \A q \in Paths : InPlace(q)'
  <2>1. UNCHANGED <<rows, docs, task>> /\ phase = "idle"
    BY <1>3 DEF Edit, MayEdit, GentleEnvironment
  <2>2. \A q \in Paths : task[q].pc = "none"
    BY <2>1 DEF Due, DeletionIsDue
  <2> QED
    BY <2>1, <2>2 DEF AllRemembered, Remembered
<1> QED
  BY <1>1, <1>2, <1>3

\* Every step of the job in a gentle environment.
LEMMA NextInPlace ==
  ASSUME TypeOK, Owned, Due, Steady, GentleEnvironment, AllRemembered,
         \A q \in Paths : InPlace(q), [Next]_vars
  PROVE  /\ AllRemembered' /\ \A q \in Paths : InPlace(q)'
         /\ \A q \in Paths : rows[q].doc # NoDoc => rows'[q] = NoRow \/ rows'[q].doc = rows[q].doc
<1>1. ASSUME NEW p \in Paths PROVE ~CallFails(p) /\ ~CallRetried(p)
  BY DEF CallFails, CallRetried, Mishap, GentleEnvironment
<1>2. ASSUME NEW p \in Paths, Work(p)
      PROVE  /\ AllRemembered' /\ \A q \in Paths : InPlace(q)'
             /\ \A q \in Paths :
                  rows[q].doc # NoDoc => rows'[q] = NoRow \/ rows'[q].doc = rows[q].doc
  BY <1>2, InPlaceWork
<1>3. CASE PlanStep \/ CorpusStep \/ \E p \in Paths : Edit(p)
  <2>1. rows' = rows
    BY <1>3, PlanTable, CorpusTable DEF Edit
  <2> QED
    BY <1>3, <2>1, InPlaceAside
<1>4. CASE UNCHANGED vars
  BY <1>4 DEF vars, AllRemembered, Remembered, InPlace, Resting, Smooth, IsDeletion
<1> QED
  BY <1>1, <1>2, <1>3, <1>4, Steps

LEMMA InitInPlace == ASSUME Init PROVE AllRemembered /\ \A p \in Paths : InPlace(p)
  BY DEF Init, AllRemembered, Remembered, Exists, UnusedDocument, InPlace, Resting, Smooth, NoTask

\* The invariant of a gentle environment, in every state of the job.
THEOREM InPlaceInvAlways == ASSUME GentleEnvironment PROVE Spec => []InPlaceInv
<1>1. Inv => TypeOK /\ Owned /\ Due
  BY DEF Inv, Owned, Due
<1> DEFINE AllInPlace == AllRemembered /\ \A p \in Paths : InPlace(p)
<1>2. Init => AllInPlace
  BY InitInPlace
<1>3. TypeOK /\ Owned /\ Due /\ Steady /\ AllInPlace /\ [Next]_vars => AllInPlace'
  BY NextInPlace
<1>4. Inv /\ Steady /\ AllInPlace => InPlaceInv
  BY DEF InPlaceInv, InPlace, AllRemembered
<1> HIDE DEF AllInPlace
<1> QED
  BY <1>1, <1>2, <1>3, <1>4, InvAlways, SteadyAlways, PTL DEF Spec

\* Nothing of the job is left in the corpus that neither the database nor a worker knows.
THEOREM NoOrphansAlways == ASSUME GentleEnvironment PROVE Spec => []NoOrphans
<1>1. InPlaceInv => NoOrphans
  BY DEF InPlaceInv, Remembered, NoOrphans
<1> QED
  BY <1>1, InPlaceInvAlways, PTL

\* A file keeps its document id for as long as it has a row.
THEOREM UidIsStableAlways == ASSUME GentleEnvironment PROVE Spec => UidIsStable
<1>1. InPlaceInv /\ [Next]_vars =>
        [\A p \in Paths :
           rows[p].doc # NoDoc => rows'[p] = NoRow \/ rows'[p].doc = rows[p].doc]_vars
  BY NextInPlace DEF InPlaceInv, Inv, Owned, Due, AllRemembered, InPlace
<1> QED
  BY <1>1, InPlaceInvAlways, PTL DEF Spec, UidIsStable

-----------------------------------------------------------------------------
(* The sync job implements the replica: each of its steps is a step of      *)
(* Replica or leaves the replica alone.                                     *)

\* What the mapping says of one path, without the comprehensions.
LEMMA Membership ==
  ASSUME NEW p \in Paths, NEW c
  PROVE  /\ c \in Sent[p] <=> c \in Contents /\ \E d \in DocIds : docs[d].path = p /\ docs[d].blob = c
         /\ c \in Held[p] <=> c \in Contents /\ \E d \in DocIds : docs[d].path = p /\ docs[d].content = c
  BY DEF Sent, Held, Of

\* Both are functions from paths to sets of contents.
LEMMA MappingTyped == /\ Sent \in [Paths -> SUBSET Contents]
                      /\ Held \in [Paths -> SUBSET Contents]
  BY DEF Sent, Held

\* Two steps agree on the corpus at q when the documents of q agree.
LEMMA SameDocuments ==
  ASSUME NEW q \in Paths,
         \A d \in DocIds : docs[d].path = q <=> docs'[d].path = q,
         \A d \in DocIds : docs[d].path = q =>
           docs'[d].blob = docs[d].blob /\ docs'[d].content = docs[d].content
  PROVE  Sent'[q] = Sent[q] /\ Held'[q] = Held[q]
<1>1. Of(q)' = Of(q)
  BY DEF Of
<1>2. \A d \in Of(q) : docs'[d].blob = docs[d].blob /\ docs'[d].content = docs[d].content
  BY DEF Of
<1>3. {c \in Contents : \E d \in Of(q)' : docs'[d].blob = c}
        = {c \in Contents : \E d \in Of(q) : docs[d].blob = c}
  BY <1>1, <1>2
<1>4. {c \in Contents : \E d \in Of(q)' : docs'[d].content = c}
        = {c \in Contents : \E d \in Of(q) : docs[d].content = c}
  BY <1>1, <1>2
<1> QED
  BY <1>3, <1>4 DEF Sent, Held

\* One document of p changes, and stays a document of p.
OneDocument(p, d) ==
  /\ docs[d].path = p /\ docs'[d].path = p
  /\ \A e \in DocIds \ {d} : docs'[e] = docs[e]

LEMMA OneChanges ==
  ASSUME NEW p \in Paths, NEW d \in DocIds, OneDocument(p, d)
  PROVE  /\ \A q \in Paths \ {p} : Sent'[q] = Sent[q] /\ Held'[q] = Held[q]
         /\ Sent'[p] \subseteq Sent[p] \cup {docs'[d].blob}
         /\ Held'[p] \subseteq Held[p] \cup {docs'[d].content}
         /\ Held[p] \subseteq Held'[p] \cup {docs[d].content}
         /\ docs'[d].content \in Contents => docs'[d].content \in Held'[p]
         /\ docs'[d].blob = docs[d].blob => Sent' = Sent
         /\ docs'[d].content = docs[d].content => Held' = Held
<1> USE DEF OneDocument
<1>1. ASSUME NEW q \in Paths \ {p} PROVE Sent'[q] = Sent[q] /\ Held'[q] = Held[q]
  BY SameDocuments
<1>2. ASSUME NEW c
      PROVE  /\ c \in Sent'[p] <=> c \in Contents /\ \E e \in DocIds : docs'[e].path = p /\ docs'[e].blob = c
             /\ c \in Held'[p] <=> c \in Contents /\ \E e \in DocIds : docs'[e].path = p /\ docs'[e].content = c
  BY DEF Sent, Held, Of
<1>3. Sent'[p] \subseteq Sent[p] \cup {docs'[d].blob}
  BY <1>2, Membership
<1>4. /\ Held'[p] \subseteq Held[p] \cup {docs'[d].content}
      /\ Held[p] \subseteq Held'[p] \cup {docs[d].content}
      /\ docs'[d].content \in Contents => docs'[d].content \in Held'[p]
  BY <1>2, Membership
<1>5. ASSUME docs'[d].blob = docs[d].blob PROVE Sent' = Sent
  <2>1. \A c : c \in Sent'[p] <=> c \in Sent[p]
    BY <1>2, <1>5, Membership
  <2> QED
    BY <1>1, <2>1 DEF Sent
<1>6. ASSUME docs'[d].content = docs[d].content PROVE Held' = Held
  <2>1. \A c : c \in Held'[p] <=> c \in Held[p]
    BY <1>2, <1>6, Membership
  <2> QED
    BY <1>1, <2>1 DEF Held
<1> QED
  BY <1>1, <1>3, <1>4, <1>5, <1>6

\* The replica sees nothing of a step that leaves the contents where they are.
LEMMA NothingMoves ==
  ASSUME \A q \in Paths, d \in DocIds, c \in Contents :
           /\ docs[d].path = q /\ docs[d].blob = c
                <=> docs'[d].path = q /\ docs'[d].blob = c
           /\ docs[d].path = q /\ docs[d].content = c
                <=> docs'[d].path = q /\ docs'[d].content = c
  PROVE  Sent' = Sent /\ Held' = Held
<1>1. ASSUME NEW q \in Paths PROVE Sent'[q] = Sent[q] /\ Held'[q] = Held[q]
  <2>1. \A c \in Contents :
          /\ (\E d \in Of(q)' : docs'[d].blob = c) <=> \E d \in Of(q) : docs[d].blob = c
          /\ (\E d \in Of(q)' : docs'[d].content = c) <=> \E d \in Of(q) : docs[d].content = c
    BY DEF Of
  <2> QED
    BY <2>1 DEF Sent, Held
<1> QED
  BY <1>1 DEF Sent, Held

-----------------------------------------------------------------------------
(* One document changes *)

TreeQuiet == UNCHANGED <<disk, vanished, seen>>

\* The replica does not move.
Still == UNCHANGED <<disk, vanished \ seen, Sent, Held>>

\* docs changes at d, a document of p.
ChangesAt(p, d, doc) ==
  /\ docs[d].path = p
  /\ docs' = [docs EXCEPT ![d] = doc]

\* A record keeps the shape of one document and nothing else is touched.
LEMMA At ==
  ASSUME TypeOK, NEW p \in Paths, NEW d \in DocIds, NEW doc, ChangesAt(p, d, doc), doc.path = p
  PROVE  OneDocument(p, d) /\ docs'[d] = doc
  BY DEF TypeOK, ChangesAt, OneDocument

\* Bytes that are sent are those of the file.
LEMMA BytesAreStaged ==
  ASSUME TypeOK, TreeQuiet, NEW p \in Paths, NEW d \in DocIds, disk[p] # NoContent,
         ChangesAt(p, d, WithBytes(docs[d], disk[p]))
  PROVE  R!Stage(p)
<1>1. docs[d] \in Document
  BY DEF TypeOK
<1>2. /\ WithBytes(docs[d], disk[p]).path = p
      /\ WithBytes(docs[d], disk[p]).content = docs[d].content
      /\ WithBytes(docs[d], disk[p]).blob \in {docs[d].blob, disk[p]}
  BY <1>1 DEF WithBytes, Document, ChangesAt
<1>3. OneDocument(p, d) /\ docs'[d] = WithBytes(docs[d], disk[p])
  BY <1>2, At
<1>4. Held' = Held
  BY <1>2, <1>3, OneChanges
<1>5. Sent'[p] \subseteq Sent[p] \cup {disk[p]}
  BY <1>2, <1>3, OneChanges
<1>6. Sent' \in [Paths -> SUBSET Contents]
  BY DEF Sent
<1>7. \A q \in Paths \ {p} : Sent'[q] = Sent[q]
  BY <1>3, OneChanges
<1> QED
  BY <1>4, <1>5, <1>6, <1>7 DEF R!Stage, R!Only, TreeQuiet

\* A fresh URL takes away what was sent, never what was handed over.
LEMMA ReinitUnstages ==
  ASSUME TypeOK, TreeQuiet, NEW p \in Paths, NEW d \in DocIds,
         ChangesAt(p, d, Reinitialised(docs[d]))
  PROVE  R!Unstage(p)
<1>1. docs[d] \in Document
  BY DEF TypeOK
<1>2. /\ Reinitialised(docs[d]).path = p
      /\ Reinitialised(docs[d]).content = docs[d].content
      /\ Reinitialised(docs[d]).blob = NoContent
  BY <1>1 DEF Reinitialised, Document, ChangesAt
<1>3. OneDocument(p, d) /\ docs'[d] = Reinitialised(docs[d])
  BY <1>2, At
<1>4. Held' = Held
  BY <1>2, <1>3, OneChanges
<1>5. Sent'[p] \subseteq Sent[p] \cup {NoContent}
  BY <1>2, <1>3, OneChanges
<1>6. Sent' \in [Paths -> SUBSET Contents]
  BY DEF Sent
<1>7. \A q \in Paths \ {p} : Sent'[q] = Sent[q]
  BY <1>3, OneChanges
<1>8. Sent'[p] \subseteq Sent[p]
  BY <1>5, <1>6, NoContentAssumption
<1> QED
  BY <1>4, <1>6, <1>7, <1>8 DEF R!Unstage, R!Only, TreeQuiet

\* A commit hands over what was sent, once.
LEMMA CommitPublishes ==
  ASSUME TypeOK, TreeQuiet, NEW p \in Paths, NEW d \in DocIds, docs[d].blob # NoContent,
         ChangesAt(p, d, Committed(docs[d]))
  PROVE  R!Publish(p) \/ Still
<1>1. docs[d] \in Document
  BY DEF TypeOK
<1>2. CASE AlreadyCommitted(docs[d])
  <2>1. docs' = docs
    BY <1>2 DEF Committed, ChangesAt, TypeOK
  <2> QED
    BY <2>1 DEF Still, TreeQuiet, Sent, Held, Of
<1>3. CASE ~AlreadyCommitted(docs[d])
  <2>1. /\ Committed(docs[d]).path = p
        /\ Committed(docs[d]).content = docs[d].blob
        /\ Committed(docs[d]).blob = docs[d].blob
    BY <1>1, <1>3 DEF Committed, Document, ChangesAt
  <2>2. OneDocument(p, d) /\ docs'[d] = Committed(docs[d])
    BY <2>1, At
  <2>3. Sent' = Sent
    BY <2>1, <2>2, OneChanges
  <2>4. docs[d].blob \in Contents
    BY <1>1 DEF Document, MaybeContent
  <2>5. docs[d].blob \in Sent[p]
    BY <2>4, Membership DEF ChangesAt
  <2>6. /\ Held'[p] \subseteq Held[p] \cup {docs[d].blob}
        /\ Held[p] \subseteq Held'[p] \cup {docs[d].content}
        /\ docs[d].blob \in Held'[p]
        /\ \A q \in Paths \ {p} : Held'[q] = Held[q]
    BY <2>1, <2>2, <2>4, OneChanges
  <2> DEFINE old == Held[p] \ Held'[p]
  <2>7. Held'[p] = (Held[p] \ old) \cup {docs[d].blob}
    BY <2>6
  <2>8. Held' = [Held EXCEPT ![p] = (Held[p] \ old) \cup {docs[d].blob}]
    BY <2>6, <2>7 DEF Held
  <2>9. old \in SUBSET Held[p] /\ \A a, b \in old : a = b
    BY <2>6
  <2> QED
    BY <2>3, <2>5, <2>8, <2>9 DEF R!Publish, TreeQuiet
<1> QED
  BY <1>2, <1>3

\* A deletion takes away what the corpus had of p in one document.
LEMMA DeletionShrinks ==
  ASSUME TypeOK, TreeQuiet, NEW p \in Paths, NEW d \in DocIds, ChangesAt(p, d, Deleted(docs[d]))
  PROVE  R!Shrink(p)
<1>1. docs[d] \in Document
  BY DEF TypeOK
<1>2. /\ Deleted(docs[d]).path = p
      /\ Deleted(docs[d]).content = NoContent
      /\ Deleted(docs[d]).blob = NoContent
  BY <1>1 DEF Deleted, Document, ChangesAt
<1>3. OneDocument(p, d) /\ docs'[d] = Deleted(docs[d])
  BY <1>2, At
<1>4. Sent'[p] \subseteq Sent[p] \cup {NoContent} /\ Held'[p] \subseteq Held[p] \cup {NoContent}
  BY <1>2, <1>3, OneChanges
<1>5. Sent' \in [Paths -> SUBSET Contents] /\ Held' \in [Paths -> SUBSET Contents]
  BY DEF Sent, Held
<1>6. \A q \in Paths \ {p} : Sent'[q] = Sent[q] /\ Held'[q] = Held[q]
  BY <1>3, OneChanges
<1>7. Sent'[p] \subseteq Sent[p] /\ Held'[p] \subseteq Held[p]
  BY <1>4, <1>5, NoContentAssumption
<1> QED
  BY <1>5, <1>6, <1>7 DEF R!Shrink, R!Only, TreeQuiet

-----------------------------------------------------------------------------
(* The steps of the job *)

\* An id the server has not handed out is of no path, and enters empty.
LEMMA FreshIsNothing ==
  ASSUME TypeOK, FreshIdsAreUnbound, TreeQuiet, NEW p \in Paths, NEW d \in DocIds,
         docs[d].status = "UNUSED", docs' = [docs EXCEPT ![d] = Initialised(p)]
  PROVE  Still
<1>1. docs[d].path = NoPath /\ docs'[d].blob = NoContent /\ docs'[d].content = NoContent
  BY DEF TypeOK, FreshIdsAreUnbound, Initialised
<1>2. \A e \in DocIds \ {d} : docs'[e] = docs[e]
  BY DEF TypeOK
<1>3. Sent' = Sent /\ Held' = Held
  BY <1>1, <1>2, NothingMoves, NoPathAssumption, NoContentAssumption
<1> QED
  BY <1>3 DEF Still, TreeQuiet

\* What a handler's step may mean to the replica.
Means(p) == Still \/ R!Stage(p) \/ R!Unstage(p) \/ R!Publish(p) \/ R!Withdraw(p)

\* Whatever the server does for a handler, whether or not the answer arrives.
LEMMA EffectMeans ==
  ASSUME Inv, TreeQuiet, NEW p \in Paths, TakesEffect(p)
  PROVE  Means(p)
<1> DEFINE d == task[p].doc
<1>1. TypeOK /\ Owned /\ FreshIdsAreUnbound /\ DeletionIsDue(p)
  BY DEF Inv, Owned
<1>2. CASE task[p].pc = "init"
  <2>1. PICK e \in DocIds : docs[e].status = "UNUSED" /\ docs' = [docs EXCEPT ![e] = Initialised(p)]
    BY <1>2 DEF TakesEffect
  <2> QED
    BY <1>1, <2>1, FreshIsNothing DEF Means
<1>3. CASE task[p].pc \in {"reinit", "push", "commit", "delete"}
  <2>1. d \in DocIds /\ docs[d].path = p
    BY <1>1, <1>3, InHand DEF WithDocument
  <2>2. CASE task[p].pc = "reinit"
    BY <1>1, <2>1, <2>2, ReinitUnstages DEF TakesEffect, ChangesAt, Means
  <2>3. CASE task[p].pc = "push"
    BY <1>1, <2>1, <2>3, BytesAreStaged DEF TakesEffect, ChangesAt, Means
  <2>4. CASE task[p].pc = "commit"
    BY <1>1, <2>1, <2>4, CommitPublishes DEF TakesEffect, ChangesAt, Committable, Means
  <2>5. CASE task[p].pc = "delete"
    <3>1. R!Shrink(p)
      BY <1>1, <2>1, <2>5, DeletionShrinks DEF TakesEffect, ChangesAt
    <3>2. p \in vanished \ seen
      BY <1>1, <2>5 DEF DeletionIsDue, IsDeletion
    <3> QED
      BY <3>1, <3>2 DEF R!Withdraw, Means
  <2> QED
    BY <1>3, <2>2, <2>3, <2>4, <2>5
<1> QED
  BY <1>2, <1>3 DEF TakesEffect

\* Nothing of the corpus or the tree changes.
LEMMA QuietStill == ASSUME TreeQuiet, docs' = docs PROVE Still
  BY DEF TreeQuiet, Still, Sent, Held, Of

\* A worker's own step: the same effects, or none.
LEMMA WorkMeans ==
  ASSUME Inv, NEW p \in Paths, Work(p)
  PROVE  Means(p) /\ mishaps' = mishaps
<1> USE DEF planVars, environment
<1>1. TreeQuiet /\ mishaps' = mishaps
  BY DEF TreeQuiet, Work, Start, StartUpload, StartReplace, StartResume, StartDelete,
     Call, InitUpload, ReinitUpload, ReinitRefused, Push, PushFails, CommitDocument,
     CommitDuplicate, CommitFails, Finalise, PollReady, PollTimesOut, PollFails, DeleteDocument,
     Store, StoreDocument, StorePending, StoreUploaded, StoreCommitted, StoreSyncedHash,
     MarkHash, MarkState, ForgetRow, Write
<1>2. CASE docs' = docs
  BY <1>1, <1>2, QuietStill DEF Means
<1>3. CASE InitUpload(p) \/ ReinitUpload(p) \/ Push(p) \/ DeleteDocument(p)
  <2>1. TakesEffect(p)
    BY <1>3 DEF InitUpload, ReinitUpload, Push, DeleteDocument, TakesEffect
  <2> QED
    BY <1>1, <2>1, EffectMeans
<1>4. CASE CommitDocument(p)
  <2> DEFINE d == task[p].doc
  <2>1. TypeOK /\ d \in DocIds /\ docs[d].path = p
    BY <1>4, InHand DEF CommitDocument, WithDocument, Inv, Owned
  <2> QED
    BY <1>1, <1>4, <2>1, CommitPublishes DEF CommitDocument, ChangesAt, Committable, Means
<1> QED
  BY <1>1, <1>2, <1>3, <1>4
  DEF Work, Start, StartUpload, StartReplace, StartResume, StartDelete,
      Call, ReinitRefused, PushFails, CommitDuplicate, CommitFails, Finalise, PollReady,
      PollTimesOut, PollFails,
      Store, StoreDocument, StorePending, StoreUploaded, StoreCommitted, StoreSyncedHash,
      MarkHash, MarkState, ForgetRow, Write

\* A lost call or answer has one of the same effects, or none.
LEMMA MisfortuneMeans ==
  ASSUME Inv, NEW p \in Paths, Misfortune(p)
  PROVE  Means(p) /\ mishaps' = mishaps + 1
<1>1. TreeQuiet /\ mishaps' = mishaps + 1
  BY DEF Misfortune, CallFails, CallRetried, Abort, Mishap, planVars, TreeQuiet
<1>2. TakesEffect(p) \/ docs' = docs
  BY DEF Misfortune, CallFails, CallRetried, Abort
<1> QED
  BY <1>1, <1>2, EffectMeans, QuietStill DEF Means

\* Planning looks; it misses only files that are not there.
LEMMA PlanningLooks ==
  ASSUME Inv, \/ StartRun \/ PlanDeletions \/ EndRun \/ Crash
              \/ \E p \in Paths : Visit(p) \/ VisitUnreadable(p)
  PROVE  R!Look /\ mishaps' \in {mishaps, mishaps + 1}
<1>1. UNCHANGED <<disk, docs>> /\ mishaps' \in {mishaps, mishaps + 1}
  BY DEF StartRun, PlanDeletions, EndRun, Crash, Visit, VisitUnreadable, Mishap
<1>2. vanished' \ seen' \subseteq (vanished \ seen) \cup {p \in Paths : disk'[p] = NoContent}
  BY DEF StartRun, PlanDeletions, EndRun, Crash, Visit, VisitUnreadable
<1>3. UNCHANGED <<Sent, Held>>
  BY <1>1 DEF Sent, Held, Of
<1> QED
  BY <1>1, <1>2, <1>3 DEF R!Look, R!LookAround

\* The user's edits are the replica's.
LEMMA EditChanges ==
  ASSUME Inv, NEW p \in Paths, Edit(p)
  PROVE  R!Change(p) /\ mishaps' = mishaps
<1>1. PICK c \in MaybeContent :
        /\ disk' = [disk EXCEPT ![p] = c]
        /\ vanished' = IF c = NoContent /\ phase # "idle" THEN vanished \cup {p} ELSE vanished
  BY DEF Edit
<1>2. UNCHANGED <<docs, seen>> /\ mishaps' = mishaps
  BY DEF Edit, planVars
<1>3. UNCHANGED <<Sent, Held>>
  BY <1>2 DEF Sent, Held, Of
<1>4. disk'[p] = c
  BY <1>1 DEF Inv, TypeOK
<1>5. vanished' \ seen' \subseteq (vanished \ seen) \cup {q \in Paths : disk'[q] = NoContent}
  BY <1>1, <1>2, <1>4
<1> QED
  BY <1>1, <1>2, <1>3, <1>5 DEF R!Change, R!LookAround, MaybeContent

\* Ingestion moves no content; a deletion in the backoffice is an intrusion.
LEMMA CorpusMeans ==
  ASSUME Inv, NEW d \in DocIds, Ingest(d) \/ IngestFails(d) \/ BackofficeDelete(d)
  PROVE  /\ mishaps' \in {mishaps, mishaps + 1}
         /\ Still \/ \E p \in Paths : R!Intrude(p)
<1>1. TypeOK /\ docs[d] \in Document /\ FreshIdsAreUnbound
  BY DEF Inv, TypeOK
<1>2. TreeQuiet /\ mishaps' \in {mishaps, mishaps + 1}
  BY DEF TreeQuiet, Ingest, IngestFails, BackofficeDelete, Mishap, planVars, environment
<1>3. CASE Ingest(d) \/ IngestFails(d)
  <2>1. /\ docs'[d].path = docs[d].path /\ docs'[d].blob = docs[d].blob
        /\ docs'[d].content = docs[d].content
        /\ \A e \in DocIds \ {d} : docs'[e] = docs[e]
    BY <1>1, <1>3 DEF Ingest, IngestFails, Settled, TypeOK, Document
  <2>2. Sent' = Sent /\ Held' = Held
    BY <2>1, NothingMoves
  <2> QED
    BY <1>2, <2>2 DEF Still, TreeQuiet
<1>4. CASE BackofficeDelete(d)
  <2>1. /\ "backoffice" \in Faults /\ mishaps' = mishaps + 1
        /\ docs' = [docs EXCEPT ![d] = Deleted(docs[d])]
    BY <1>4 DEF BackofficeDelete, Mishap
  <2>2. mishaps' # mishaps
    BY <1>1, <2>1 DEF TypeOK
  <2>3. CASE docs[d].path \in Paths
    BY <1>1, <1>2, <2>1, <2>2, <2>3, DeletionShrinks DEF ChangesAt, R!Intrude
  <2>4. CASE docs[d].path \notin Paths
    <3>1. \A e \in DocIds \ {d} : docs'[e] = docs[e]
      BY <1>1, <2>1 DEF TypeOK
    <3>2. docs'[d].path = docs[d].path
      BY <1>1, <2>1 DEF TypeOK, Deleted, Document
    <3>3. Sent' = Sent /\ Held' = Held
      BY <2>4, <3>1, <3>2, NothingMoves
    <3> QED
      BY <1>2, <3>3 DEF Still, TreeQuiet
  <2> QED
    BY <2>3, <2>4
<1> QED
  BY <1>2, <1>3, <1>4

\* Every step of the job is a step of the replica, or leaves it alone.
LEMMA StepRefines ==
  ASSUME Inv, [Next]_vars
  PROVE  [R!ReplicaNext]_R!replicaVars
<1>1. ASSUME Still, mishaps' \in {mishaps, mishaps + 1} PROVE R!ReplicaNext
  BY <1>1 DEF Still, R!ReplicaNext, R!Look, R!LookAround
<1>2. ASSUME NEW p \in Paths, Means(p), mishaps' \in {mishaps, mishaps + 1} PROVE R!ReplicaNext
  BY <1>1, <1>2 DEF Means, R!ReplicaNext
<1>3. CASE UNCHANGED vars
  BY <1>3 DEF vars, R!replicaVars, Sent, Held, Of
<1>4. CASE \/ StartRun \/ PlanDeletions \/ EndRun \/ Crash
           \/ \E p \in Paths : Visit(p) \/ VisitUnreadable(p)
  BY <1>4, PlanningLooks DEF R!ReplicaNext
<1>5. ASSUME NEW p \in Paths, Work(p) \/ Misfortune(p) PROVE R!ReplicaNext
  BY <1>2, <1>5, WorkMeans, MisfortuneMeans
<1>6. ASSUME NEW p \in Paths, Edit(p) PROVE R!ReplicaNext
  BY <1>6, EditChanges DEF R!ReplicaNext
<1>7. ASSUME NEW d \in DocIds, Ingest(d) \/ IngestFails(d) \/ BackofficeDelete(d)
      PROVE  R!ReplicaNext
  BY <1>1, <1>7, CorpusMeans DEF R!ReplicaNext
<1> QED
  BY <1>3, <1>4, <1>5, <1>6, <1>7 DEF Next

\* The job starts as an empty replica.
LEMMA InitRefines == ASSUME Init PROVE R!ReplicaInit
<1>1. \A d \in DocIds : docs[d].path = NoPath
  BY DEF Init, UnusedDocument
<1>2. \A p \in Paths : Of(p) = {}
  BY <1>1, NoPathAssumption DEF Of
<1>3. \A p \in Paths : Sent[p] = {} /\ Held[p] = {}
  BY <1>2 DEF Sent, Held
<1>4. Sent = R!Nowhere /\ Held = R!Nowhere
  BY <1>3 DEF Sent, Held, R!Nowhere
<1> QED
  BY <1>4 DEF Init, InitialTree, MaybeContent, R!ReplicaInit

\* The job implements the one-way replica for every tree, every number of workers, every
\* mixture of faults and every timing of edits.
THEOREM ImplementsReplicaAlways == Spec => ImplementsReplica
<1>1. Init => R!ReplicaInit
  BY InitRefines
<1>2. Inv /\ [Next]_vars => [R!ReplicaNext]_R!replicaVars
  BY StepRefines
<1> QED
  BY <1>1, <1>2, InvAlways, PTL DEF Spec, ImplementsReplica, R!ReplicaSpec
=============================================================================
