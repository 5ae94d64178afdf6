---------------------------- MODULE LedgerProofs ----------------------------
(***************************************************************************)
(* The verdict of a run is true, and --stats agrees with the planner, for   *)
(* every value of the constants.                                            *)
(*                                                                          *)
(* A step of one handler changes the row, the task and the failure of its   *)
(* own path, so each action has to re-establish the invariant at that path  *)
(* only (lemma Elsewhere); a path loses its task either with nothing left   *)
(* to do (lemmas MarkDone, PollDone, ForgetDone) or on the failure list     *)
(* (lemma FailBooked).                                                      *)
(***************************************************************************)
EXTENDS Ledger, SyncPromises

Booked(p) == RowKeepsUp(p) /\ TaskIsCurrent(p) /\ WalkIsCurrent(p) /\ DoneOrBooked(p)

\* What a handler step can count on, of the sync job and of the books.
Standing == TypeOK /\ Owned /\ Due /\ \A p \in Paths : Booked(p)

-----------------------------------------------------------------------------
(* The sync job's own invariant *)

\* The two steps the books add to the job's leave rows and documents alone.
LEMMA ExtraStepsKeepInv == ASSUME Inv, BeginInVain \/ PlanRaises PROVE Inv'
<1>1. /\ UNCHANGED <<rows, docs, disk, edits>>
      /\ phase' = "idle"
      /\ (task' = task /\ phase = "idle") \/ task' = [q \in Paths |-> NoTask]
  BY DEF BeginInVain, PlanRaises, planVars
<1>2. mishaps' \in 0..MaxMishaps
  BY EnvironmentAssumption DEF BeginInVain, PlanRaises, Mishap, Inv, TypeOK
<1>3. unvisited' \subseteq Paths /\ seen' \subseteq Paths /\ vanished' \subseteq Paths
  BY DEF BeginInVain, PlanRaises, planVars, Inv, TypeOK
<1>4. task' \in [Paths -> Task]
  BY <1>1, PlannedType DEF Inv, TypeOK
<1>5. TypeOK'
  BY <1>1, <1>2, <1>3, <1>4 DEF Inv, TypeOK
<1>6. ASSUME NEW q \in Paths PROVE PathInv(q)'
  <2>1. task'[q] = task[q] \/ task'[q] = NoTask
    BY <1>1
  <2> QED
    BY <1>1, <2>1, Requeue DEF Inv
<1>7. ASSUME NEW q \in Paths PROVE DeletionIsDue(q)'
  <2>1. task'[q].pc = "none"
    BY <1>1 DEF NoTask, Inv, DeletionIsDue
  <2> QED
    BY <1>1, <2>1 DEF DeletionIsDue, IsDeletion
<1> QED
  BY <1>1, <1>5, <1>6, <1>7 DEF Inv, FreshIdsAreUnbound

\* Every other step is one of the job.
LEMMA JobSteps ==
  ASSUME [LedgerNext]_ledgerVars, ~BeginInVain, ~PlanRaises
  PROVE  [Next]_vars
<1>1. CASE UNCHANGED ledgerVars
  BY <1>1 DEF ledgerVars
<1>2. CASE LedgerNext
  BY <1>2 DEF LedgerNext, Begin, Plan, Finish, Die, CorpusMoves, CannotHash, Apply, ApplyRaises,
     UserEdits, Next, Misfortune
<1> QED
  BY <1>1, <1>2

\* The books never stand in the way of what is proved of the job.
LEMMA LedgerKeepsInv == ASSUME Inv, [LedgerNext]_ledgerVars PROVE Inv'
<1>1. TypeOK /\ Owned /\ Due
  BY DEF Inv, Owned, Due
<1>2. CASE [Next]_vars
  BY <1>1, <1>2, NextType, NextOwned, NextDue DEF Inv, Owned, Due
<1> QED
  BY <1>2, JobSteps, ExtraStepsKeepInv

-----------------------------------------------------------------------------
(* A handler's step *)

\* A step of one handler is nothing to the books of another path.
LEMMA Elsewhere ==
  ASSUME NEW p \in Paths, NEW q \in Paths \ {p}, Booked(q),
         UNCHANGED <<disk, phase, unvisited, seen, touched, unreadable, escaped>>,
         failed' = failed \/ failed' = failed \cup {p},
         rows'[q] = rows[q], task'[q] = task[q]
  PROVE  Booked(q)'
  BY DEF Booked, RowKeepsUp, TaskIsCurrent, WalkIsCurrent, DoneOrBooked, Running, LeftToDo

\* The books are in hand: a handler is at work, and its path is not booked yet.
LEMMA AtWork ==
  ASSUME Standing, NEW p \in Paths, task[p].pc # "none", phase = "applying"
  PROVE  p \notin failed
  BY DEF Standing, Booked, DoneOrBooked

\* A handler goes on: its kind and hash stay, so only its row is in question.
LEMMA GoesOn ==
  ASSUME Standing, NEW p \in Paths, phase = "applying", task[p].pc # "none",
         UNCHANGED <<disk, phase, unvisited, seen, touched, unreadable, escaped, failed>>,
         task'[p].pc # "none",
         task'[p].kind = task[p].kind, task'[p].hash = task[p].hash,
         task[p].kind = "DELETE" => task'[p].pc \in {"delete", "forget"},
         task'[p].pc \in {"delete", "forget"} => task[p].kind = "DELETE",
         rows[p].state # "ABSENT" => rows'[p].state # "ABSENT",
         RowKeepsUp(p)'
  PROVE  Booked(p)'
<1>1. p \notin failed
  BY AtWork
<1>2. TaskIsCurrent(p)'
  BY DEF Standing, Booked, TaskIsCurrent
<1>3. WalkIsCurrent(p)'
  BY DEF Standing, Booked, WalkIsCurrent
<1>4. DoneOrBooked(p)'
  BY <1>1 DEF DoneOrBooked
<1> QED
  BY <1>2, <1>3, <1>4 DEF Booked

\* A handler ends with nothing left to do.
LEMMA EndsWell ==
  ASSUME Standing, NEW p \in Paths, phase = "applying", task[p].pc # "none",
         UNCHANGED <<disk, phase, unvisited, seen, touched, unreadable, escaped, failed>>,
         task'[p] = NoTask,
         RowKeepsUp(p)',
         p \notin touched => ~LeftToDo(p)'
  PROVE  Booked(p)'
<1>1. p \notin failed
  BY AtWork
<1>2. TaskIsCurrent(p)'
  BY DEF TaskIsCurrent, NoTask
<1>3. WalkIsCurrent(p)'
  BY DEF Standing, Booked, WalkIsCurrent
<1>4. DoneOrBooked(p)'
  BY <1>1 DEF DoneOrBooked
<1> QED
  BY <1>2, <1>3, <1>4 DEF Booked

\* A handler that fails is booked, and its row says so.
LEMMA FailBooked ==
  ASSUME Standing, NEW p \in Paths, Running(p), Fail(p), phase = "applying",
         UNCHANGED <<disk, phase, unvisited, seen, touched, unreadable, escaped>>,
         failed' = failed \cup {p}
  PROVE  Booked(p)'
<1>1. task'[p] = NoTask /\ rows[p].state # "ABSENT" /\ rows[p] \in Row
  BY DEF Standing, Booked, RowKeepsUp, Fail, EndTask, TypeOK
<1>2. rows'[p].state = "FAILED"
  BY <1>1 DEF Standing, TypeOK, Fail, WithFailure, WithSyncState, Row
<1>3. task'[p].pc = "none"
  BY <1>1 DEF NoTask
<1>4. RowKeepsUp(p)' /\ TaskIsCurrent(p)'
  BY <1>2, <1>3 DEF RowKeepsUp, TaskIsCurrent, Running, Recorded
<1>5. WalkIsCurrent(p)'
  BY DEF Standing, Booked, WalkIsCurrent
<1>6. p \notin touched => disk[p] \in Accepted \/ (disk[p] = NoContent /\ DeleteRemoteWhenMissing)
  BY DEF Standing, Booked, TaskIsCurrent, Running
<1>7. Classify(rows'[p], disk[p]) # "NOOP"
  BY <1>2 DEF Classify
<1>8. p \notin touched => LeftToDo(p)'
  BY <1>2, <1>6, <1>7 DEF LeftToDo
<1>9. DoneOrBooked(p)'
  BY <1>2, <1>3, <1>8 DEF DoneOrBooked
<1> QED
  BY <1>4, <1>5, <1>9 DEF Booked

\* What a handler leaves alone.
Aside == UNCHANGED <<disk, phase, unvisited, seen, touched, unreadable, escaped>>

\* A handler is taken up.
LEMMA StartBooked ==
  ASSUME Standing, NEW p \in Paths, Start(p), Aside, failed' = failed
  PROVE  Booked(p)'
<1> USE DEF Dequeue, Aside
<1>1. /\ rows[p] \in Row /\ task[p] \in Task /\ PlanFits(p) /\ RowKeepsUp(p) /\ TaskIsCurrent(p)
      /\ task \in [Paths -> Task] /\ rows \in [Paths -> Row]
  BY DEF Standing, TypeOK, Owned, PathInv, Booked
<1>2. phase = "applying" /\ task[p].pc = "queued"
  BY DEF Start, StartUpload, StartReplace, StartResume, StartDelete
<1>3. CASE StartUpload(p) \/ StartReplace(p)
  <2>1. /\ rows'[p] = Upserted(rows[p])
        /\ task'[p].pc \in {"init", "reinit"}
        /\ task'[p].kind = task[p].kind /\ task'[p].hash = task[p].hash
        /\ task[p].kind # "DELETE"
    BY <1>1, <1>3 DEF StartUpload, StartReplace, RecordScan, Goto, GotoWith, Task
  <2>2. rows'[p].state # "ABSENT" /\ (rows'[p].state \in {"ABSENT", "NEW"} => rows'[p].synced = NoContent)
    BY <1>1, <2>1 DEF Upserted, Row, RowKeepsUp
  <2>3. RowKeepsUp(p)'
    BY <2>1, <2>2 DEF RowKeepsUp, Recorded
  <2> QED
    BY <1>2, <2>1, <2>2, <2>3, GoesOn
<1>4. CASE StartResume(p)
  <2>1. PICK pc \in ResumesAt(rows[p].state) : GotoWith(p, pc, rows[p].doc)
    BY <1>4 DEF StartResume
  <2>2. rows[p].state \in InFlightStates /\ rows' = rows
    BY <1>1, <1>4 DEF StartResume, PlanFits
  <2>3. /\ pc \in {"finalise", "commit", "push", "reinit"}
        /\ pc = "finalise" => rows[p].state = "COMMITTED"
    BY <2>1, <2>2 DEF ResumesAt, InFlightStates
  <2>4. task'[p].pc = pc /\ task'[p].kind = task[p].kind /\ task'[p].hash = task[p].hash
    BY <1>1, <2>1 DEF GotoWith, Task
  <2>5. task[p].kind # "DELETE"
    BY <1>4 DEF StartResume
  <2>6. RowKeepsUp(p)'
    BY <2>2, <2>3, <2>4 DEF RowKeepsUp, InFlightStates
  <2> QED
    BY <1>2, <2>2, <2>3, <2>4, <2>5, <2>6, GoesOn
<1>5. CASE StartDelete(p)
  <2>1. /\ rows' = rows /\ task[p].kind = "DELETE"
        /\ task'[p].pc \in {"forget", "delete"}
        /\ task'[p].kind = task[p].kind /\ task'[p].hash = task[p].hash
    BY <1>1, <1>5 DEF StartDelete, GotoWith, Task
  <2>2. RowKeepsUp(p)'
    BY <1>1, <1>2, <2>1 DEF RowKeepsUp, Recorded, TaskIsCurrent, Running
  <2> QED
    BY <1>2, <2>1, <2>2, GoesOn
<1> QED
  BY <1>3, <1>4, <1>5 DEF Start

\* A worker at one of these steps is not deleting.
LEMMA NotDeleting ==
  ASSUME Standing, NEW p \in Paths, task[p].pc \notin {"none", "queued", "delete", "forget"}
  PROVE  task[p].kind # "DELETE"
  BY DEF Standing, Booked, TaskIsCurrent

\* A remote call that succeeds, or that the handler has an answer to.
LEMMA CallBooked ==
  ASSUME Standing, NEW p \in Paths, Call(p), ~Raises(p), Aside, failed' = failed
  PROVE  Booked(p)'
<1> USE DEF Aside
<1>1. /\ rows[p] \in Row /\ task[p] \in Task /\ RowKeepsUp(p) /\ TaskIsCurrent(p)
      /\ task \in [Paths -> Task] /\ rows \in [Paths -> Row]
  BY DEF Standing, TypeOK, Booked
<1>2. task[p].pc \in RemoteCalls \cup {"finalise"}
  BY DEF Call, InitUpload, ReinitUpload, ReinitRefused, Push, PushFails, CommitDocument,
     CommitDuplicate, CommitFails, Finalise, PollReady, PollTimesOut, PollFails, DeleteDocument,
     RemoteCalls
<1>3. phase = "applying" /\ Running(p)
  BY <1>2, Applying DEF RemoteCalls, Running, Standing
<1>4. CASE ReinitRefused(p)
  <2>1. /\ task[p].pc = "reinit" /\ task'[p].pc = "init"
        /\ task'[p].kind = task[p].kind /\ task'[p].hash = task[p].hash
        /\ rows'[p].state = rows[p].state /\ rows'[p].synced = NoContent
    BY <1>1, <1>4 DEF ReinitRefused, GotoWith, WithSyncedHash, Task, Row
  <2>2. RowKeepsUp(p)'
    BY <1>1, <1>3, <2>1 DEF RowKeepsUp, Recorded, Running
  <2> QED
    BY <1>3, <2>1, <2>2, GoesOn, NotDeleting DEF Running
<1>5. CASE DeleteDocument(p)
  <2>1. /\ task[p].pc = "delete" /\ task'[p].pc = "forget" /\ rows' = rows
        /\ task'[p].kind = task[p].kind /\ task'[p].hash = task[p].hash
    BY <1>1, <1>5 DEF DeleteDocument, Goto, Task
  <2>2. task[p].kind = "DELETE"
    BY <1>1, <2>1 DEF TaskIsCurrent
  <2>3. RowKeepsUp(p)'
    BY <1>1, <1>3, <2>1 DEF RowKeepsUp, Recorded, Running
  <2> QED
    BY <1>3, <2>1, <2>2, <2>3, GoesOn DEF Running
<1>6. CASE PollTimesOut(p)
  <2>1. task[p].pc = "poll" /\ task'[p] = NoTask /\ rows' = rows
    BY <1>1, <1>6 DEF PollTimesOut, EndTask
  <2>2. rows[p].state = "COMMITTED"
    BY <1>1, <2>1 DEF RowKeepsUp
  <2>3. p \notin touched => disk[p] \in Accepted
    BY <1>1, <2>1, NotDeleting DEF TaskIsCurrent
  <2>4. p \notin touched => ~LeftToDo(p)'
    BY <2>1, <2>2, <2>3, NoContentAssumption, AcceptedAssumption DEF LeftToDo
  <2>5. RowKeepsUp(p)'
    BY <2>1, <2>2 DEF RowKeepsUp, Recorded, NoTask
  <2> QED
    BY <1>3, <2>1, <2>4, <2>5, EndsWell DEF Running
<1>7. CASE \/ InitUpload(p) \/ ReinitUpload(p) \/ Push(p) \/ CommitDocument(p)
           \/ CommitDuplicate(p) \/ Finalise(p) \/ PollReady(p)
  <2>1. /\ rows' = rows
        /\ task'[p].kind = task[p].kind /\ task'[p].hash = task[p].hash
        /\ <<task[p].pc, task'[p].pc>> \in
             {<<"init", "storeDocument">>, <<"reinit", "storeDocument">>, <<"push", "storeUploaded">>,
              <<"commit", "storeCommitted">>, <<"commit", "markHash">>, <<"finalise", "poll">>,
              <<"finalise", "markHash">>, <<"poll", "markHash">>}
    BY <1>1, <1>7 DEF InitUpload, ReinitUpload, Push, CommitDocument, CommitDuplicate, Finalise,
       PollReady, Goto, GotoWith, Task
  <2>2. RowKeepsUp(p)'
    BY <1>1, <1>3, <2>1 DEF RowKeepsUp, Recorded, Running
  <2>3. task[p].kind # "DELETE"
    BY <2>1, NotDeleting
  <2>4. task'[p].pc \notin {"none", "delete", "forget"}
    BY <2>1
  <2> QED
    BY <1>3, <2>1, <2>2, <2>3, <2>4, GoesOn DEF Running
<1> QED
  BY <1>4, <1>5, <1>6, <1>7 DEF Call, Raises

\* A statement of the database.
LEMMA StoreBooked ==
  ASSUME Standing, NEW p \in Paths, Store(p), Aside, failed' = failed
  PROVE  Booked(p)'
<1> USE DEF Aside
<1>1. /\ rows[p] \in Row /\ task[p] \in Task /\ RowKeepsUp(p) /\ TaskIsCurrent(p) /\ PathInv(p)
      /\ task \in [Paths -> Task] /\ rows \in [Paths -> Row]
  BY DEF Standing, TypeOK, Booked, Owned
<1>2. task[p].pc \in Writes
  BY DEF Store, StoreDocument, StorePending, StoreUploaded, StoreCommitted, StoreSyncedHash,
     MarkHash, MarkState, ForgetRow, Write, Writes
<1>3. phase = "applying" /\ Running(p)
  BY <1>2, Applying DEF Writes, Running, Standing
<1>4. CASE MarkState(p)
  <2>1. /\ task[p].pc = "markState" /\ task'[p] = NoTask
        /\ rows'[p] = [rows[p] EXCEPT !.state = "SYNCED"]
    BY <1>1, <1>4 DEF MarkState, EndTask, WithSyncState
  <2>2. /\ rows'[p].state = "SYNCED" /\ rows'[p].synced = task[p].hash
        /\ rows'[p].doc = rows[p].doc
    BY <1>1, <2>1 DEF Row, RowKeepsUp
  <2>3. rows[p].doc # NoDoc
    BY <1>1, <2>1 DEF PathInv, OwnsDocument, WithDocument, Bound
  <2>4. p \notin touched => disk[p] \in Accepted /\ task[p].hash = disk[p]
    BY <1>1, <2>1, NotDeleting DEF TaskIsCurrent
  <2>5. p \notin touched => Classify(rows'[p], disk[p]) = "NOOP"
    BY <2>2, <2>3, <2>4 DEF Classify, InFlightStates
  <2>6. p \notin touched => ~LeftToDo(p)'
    BY <2>4, <2>5, NoContentAssumption, AcceptedAssumption DEF LeftToDo
  <2>7. RowKeepsUp(p)'
    BY <2>1, <2>2 DEF RowKeepsUp, Recorded, NoTask, Running
  <2> QED
    BY <1>3, <2>1, <2>6, <2>7, EndsWell DEF Running
<1>5. CASE ForgetRow(p)
  <2>1. task[p].pc = "forget" /\ task'[p] = NoTask /\ rows'[p] = NoRow
    BY <1>1, <1>5 DEF ForgetRow, EndTask
  <2>2. p \notin touched => disk[p] = NoContent
    BY <1>1, <2>1 DEF TaskIsCurrent
  <2>3. p \notin touched => ~LeftToDo(p)'
    BY <2>1, <2>2, NoContentAssumption, AcceptedAssumption DEF LeftToDo, NoRow
  <2>4. RowKeepsUp(p)'
    BY <2>1 DEF RowKeepsUp, Recorded, NoTask, NoRow, Running
  <2> QED
    BY <1>3, <2>1, <2>3, <2>4, EndsWell DEF Running
<1>6. ASSUME NEW row \in Row, NEW pc, NEW next, Write(p, pc, row, next),
             task'[p] = [task[p] EXCEPT !.pc = next],
             rows'[p] = row,
             pc \in Writes \ {"forget"},
             next \notin {"none", "delete", "forget"},
             row.state # "ABSENT", RowKeepsUp(p)'
      PROVE  Booked(p)'
  <2>1. task'[p].kind = task[p].kind /\ task'[p].hash = task[p].hash /\ task'[p].pc = next
    BY <1>1, <1>6 DEF Task
  <2>2. task[p].kind # "DELETE"
    BY <1>6, NotDeleting DEF Write, Writes
  <2> QED
    BY <1>3, <1>6, <2>1, <2>2, GoesOn DEF Running
<1>7. ASSUME NEW row, NEW pc, NEW next, Write(p, pc, row, next)
      PROVE  /\ task[p].pc = pc /\ rows'[p] = row
             /\ task'[p] = [task[p] EXCEPT !.pc = next]
             /\ task'[p].pc = next /\ task'[p].hash = task[p].hash
  BY <1>1, <1>7 DEF Write, Goto, Task
<1>8. rows[p].state # "ABSENT"
  BY <1>1, <1>3 DEF RowKeepsUp
<1>9. CASE StoreDocument(p)
  <2> DEFINE row == WithDocumentId(rows[p], task[p].doc)
  <2>1. Write(p, "storeDocument", row, "storePending")
    BY <1>9 DEF StoreDocument
  <2>2. row \in Row /\ row.state = rows[p].state /\ row.synced = rows[p].synced
    BY <1>1, RowType DEF WithDocumentId, Row, Task
  <2> HIDE DEF row
  <2>3. rows'[p] = row /\ task'[p].pc = "storePending"
    BY <1>7, <2>1
  <2>4. RowKeepsUp(p)'
    BY <1>1, <1>8, <2>2, <2>3 DEF RowKeepsUp, Recorded
  <2> QED
    BY <1>6, <1>7, <1>8, <2>1, <2>2, <2>4 DEF Writes
<1>10. CASE StorePending(p) \/ StoreUploaded(p) \/ StoreCommitted(p)
  <2>1. PICK s \in {"PENDING_UPLOAD", "UPLOADED", "COMMITTED"} : \E pc \in Writes \ {"forget"},
              next \in {"push", "commit", "storeSyncedHash"} :
            /\ Write(p, pc, WithSyncState(rows[p], s), next)
            /\ next = "storeSyncedHash" => s = "COMMITTED"
    BY <1>10 DEF StorePending, StoreUploaded, StoreCommitted, Writes
  <2>2. PICK pc \in Writes \ {"forget"}, next \in {"push", "commit", "storeSyncedHash"} :
            /\ Write(p, pc, WithSyncState(rows[p], s), next)
            /\ next = "storeSyncedHash" => s = "COMMITTED"
    BY <2>1
  <2> DEFINE row == WithSyncState(rows[p], s)
  <2>3. row \in Row /\ row.state = s
    <3>1. s \in SyncState
      BY <2>1 DEF SyncState
    <3>2. row \in Row
      BY <1>1, <3>1, RowType
    <3>3. row.state = s
      BY <1>1 DEF WithSyncState, Row
    <3> QED
      BY <3>2, <3>3
  <2>4. Write(p, pc, row, next)
    BY <2>2
  <2> HIDE DEF row
  <2>5. RowKeepsUp(p)'
    BY <1>7, <2>2, <2>3, <2>4 DEF RowKeepsUp
  <2> QED
    BY <1>6, <1>7, <2>2, <2>3, <2>4, <2>5
<1>11. CASE StoreSyncedHash(p) \/ MarkHash(p)
  <2> DEFINE row == WithSyncedHash(rows[p], task[p].hash)
  <2>1. PICK pc \in {"storeSyncedHash", "markHash"}, next \in {"finalise", "markState"} :
            /\ Write(p, pc, row, next)
            /\ next = "finalise" => pc = "storeSyncedHash"
    BY <1>11 DEF StoreSyncedHash, MarkHash
  <2>2. row \in Row /\ row.state = rows[p].state /\ row.synced = task[p].hash
    BY <1>1, RowType DEF WithSyncedHash, Row, Task
  <2> HIDE DEF row
  <2>3. RowKeepsUp(p)'
    BY <1>1, <1>7, <2>1, <2>2 DEF RowKeepsUp, Recorded
  <2> QED
    BY <1>6, <1>7, <1>8, <2>1, <2>2, <2>3 DEF Writes
<1> QED
  BY <1>4, <1>5, <1>9, <1>10, <1>11 DEF Store

\* Which steps of a handler touch only what is its own.
LEMMA HandlerAside ==
  ASSUME Standing, NEW p \in Paths, Work(p) \/ CallFails(p) \/ CallRetried(p),
         UNCHANGED <<unreadable, escaped, touched>>
  PROVE  /\ Aside
         /\ \A q \in Paths \ {p} : rows'[q] = rows[q] /\ task'[q] = task[q]
<1> USE DEF planVars, environment
<1>1. Aside
  BY DEF Aside, Work, Start, StartUpload, StartReplace, StartResume, StartDelete,
     Call, InitUpload, ReinitUpload, ReinitRefused, Push, PushFails, CommitDocument,
     CommitDuplicate, CommitFails, Finalise, PollReady, PollTimesOut, PollFails, DeleteDocument,
     Store, StoreDocument, StorePending, StoreUploaded, StoreCommitted, StoreSyncedHash,
     MarkHash, MarkState, ForgetRow, Write, CallFails, CallRetried
<1>2. \A q \in Paths \ {p} : rows'[q] = rows[q] /\ task'[q] = task[q]
  <2>1. CASE Start(p)
    BY <2>1 DEF Start, StartUpload, StartReplace, StartResume, StartDelete, RecordScan, Goto,
       GotoWith, Standing, TypeOK
  <2>2. CASE Call(p)
    BY <2>2 DEF Call, InitUpload, ReinitUpload, ReinitRefused, Push, PushFails, CommitDocument,
       CommitDuplicate, CommitFails, Finalise, PollReady, PollTimesOut, PollFails, DeleteDocument,
       Goto, GotoWith, Fail, EndTask, Standing, TypeOK
  <2>3. CASE Store(p)
    BY <2>3 DEF Store, StoreDocument, StorePending, StoreUploaded, StoreCommitted,
       StoreSyncedHash, MarkHash, MarkState, ForgetRow, Write, Goto, EndTask, Standing, TypeOK
  <2>4. CASE CallFails(p) \/ CallRetried(p)
    BY <2>4 DEF CallFails, CallRetried, Fail, EndTask, Standing, TypeOK
  <2> QED
    BY <2>1, <2>2, <2>3, <2>4 DEF Work
<1> QED
  BY <1>1, <1>2

-----------------------------------------------------------------------------
(* The steps of the books *)

AllBooked == \A q \in Paths : Booked(q)

\* A handler's step, booked as a failure or not at all.
LEMMA ApplyBooked == ASSUME Standing, NEW p \in Paths, Apply(p) PROVE AllBooked'
<1>1. UNCHANGED <<unreadable, escaped, touched>>
  BY DEF Apply, books
<1>2. Aside /\ \A q \in Paths \ {p} : rows'[q] = rows[q] /\ task'[q] = task[q]
  BY <1>1, HandlerAside DEF Apply
<1>3. failed' = IF Raises(p) THEN failed \cup {p} ELSE failed
  BY DEF Apply
<1>4. ASSUME NEW q \in Paths \ {p} PROVE Booked(q)'
  <2>1. Booked(q)
    BY DEF Standing
  <2> QED
    BY <1>2, <1>3, <2>1, Elsewhere DEF Aside
<1>5. CASE Raises(p)
  <2>1. Fail(p) /\ task[p].pc \in RemoteCalls
    BY <1>5 DEF Raises, PushFails, CommitFails, PollFails, CallFails, RemoteCalls
  <2>2. Running(p) /\ phase = "applying"
    BY <2>1, Applying DEF RemoteCalls, Running, Standing
  <2>3. Booked(p)'
    BY <1>2, <1>3, <1>5, <2>1, <2>2, FailBooked DEF Aside
  <2> QED
    BY <1>4, <2>3 DEF AllBooked
<1>6. CASE ~Raises(p)
  <2>1. CASE Work(p)
    <3>1. Booked(p)'
      BY <1>2, <1>3, <1>6, <2>1, StartBooked, CallBooked, StoreBooked DEF Work
    <3> QED
      BY <1>4, <3>1 DEF AllBooked
  <2>2. CASE CallRetried(p)
    <3>1. rows' = rows /\ task' = task
      BY <2>2 DEF CallRetried
    <3>2. Booked(p)'
      BY <1>2, <1>3, <1>6, <3>1 DEF Standing, Aside, Booked, RowKeepsUp, TaskIsCurrent,
         WalkIsCurrent, DoneOrBooked, Running, LeftToDo
    <3> QED
      BY <1>4, <3>2 DEF AllBooked
  <2> QED
    BY <1>6, <2>1, <2>2 DEF Apply, Raises
<1> QED
  BY <1>5, <1>6

\* An exception nobody catches ends tasks, and the verdict is settled.
LEMMA AbortBooked == ASSUME Standing, NEW p \in Paths, ApplyRaises(p) PROVE AllBooked'
<1>1. /\ UNCHANGED <<rows, disk, phase, unvisited, seen, touched, unreadable, failed>>
      /\ escaped' = TRUE
      /\ \A q \in Paths : task'[q] = task[q] \/ task'[q] = NoTask
  BY DEF ApplyRaises, Abort, planVars, Standing, TypeOK
<1>2. phase = "applying"
  BY Applying DEF ApplyRaises, Abort, Running, Standing
<1>3. ASSUME NEW q \in Paths PROVE Booked(q)'
  <2>1. Booked(q)
    BY DEF Standing
  <2>2. CASE task'[q] = task[q]
    BY <1>1, <1>2, <2>1, <2>2 DEF Booked, RowKeepsUp, TaskIsCurrent, WalkIsCurrent, DoneOrBooked,
       Running, LeftToDo
  <2>3. CASE task'[q] = NoTask
    BY <1>1, <1>2, <2>1, <2>3 DEF Booked, RowKeepsUp, TaskIsCurrent, WalkIsCurrent, DoneOrBooked,
       Running, LeftToDo, NoTask, Recorded
  <2> QED
    BY <1>1, <2>2, <2>3
<1> QED
  BY <1>3 DEF AllBooked

\* The walk and the plan describe the files as they are.
LEMMA PlanBooked == ASSUME Standing, Plan PROVE AllBooked'
<1>1. UNCHANGED <<unreadable, failed, escaped, touched>>
  BY DEF Plan, books
<1>2. ASSUME NEW p \in Paths, Visit(p) PROVE AllBooked'
  <2>1. /\ phase = "planning" /\ UNCHANGED <<rows, disk, phase>> /\ unvisited' = unvisited \ {p}
        /\ \A q \in Paths \ {p} : task'[q] = task[q] /\ (q \in seen' <=> q \in seen)
        /\ \/ /\ disk[p] \in Accepted /\ task'[p] = Planned(p, disk[p])
           \/ /\ disk[p] \notin Accepted /\ seen' = seen /\ task'[p] = task[p]
    BY <1>2 DEF Visit, Standing, TypeOK
  <2>2. ASSUME NEW q \in Paths \ {p} PROVE Booked(q)'
    BY <1>1, <2>1 DEF Standing, Booked, RowKeepsUp, TaskIsCurrent, WalkIsCurrent, DoneOrBooked,
       Running, LeftToDo
  <2>3. Booked(p)
    BY DEF Standing
  <2>4. CASE disk[p] \notin Accepted
    BY <1>1, <2>1, <2>2, <2>3, <2>4 DEF AllBooked, Booked, RowKeepsUp, TaskIsCurrent,
       WalkIsCurrent, DoneOrBooked, Running, LeftToDo
  <2>5. CASE disk[p] \in Accepted
    <3>1. /\ task'[p].pc \in {"none", "queued"}
          /\ task'[p].pc = "none" => Classify(rows[p], disk[p]) = "NOOP"
          /\ task'[p].pc = "queued" => task'[p].kind # "DELETE" /\ task'[p].hash = disk[p]
      BY <2>1, <2>5 DEF Planned, Queued, NoTask, Classify
    <3>2. RowKeepsUp(p)'
      BY <2>1, <2>3, <3>1 DEF Booked, RowKeepsUp, Recorded, Running
    <3>3. TaskIsCurrent(p)'
      BY <2>1, <2>5, <3>1 DEF TaskIsCurrent
    <3>4. WalkIsCurrent(p)' /\ DoneOrBooked(p)'
      BY <1>1, <2>1, <2>3, <2>5, <3>1 DEF Booked, WalkIsCurrent, DoneOrBooked
    <3> QED
      BY <2>2, <3>2, <3>3, <3>4 DEF AllBooked, Booked
  <2> QED
    BY <2>4, <2>5
<1>3. CASE PlanDeletions
  <2>1. /\ phase = "planning" /\ phase' = "applying" /\ unvisited = {}
        /\ UNCHANGED <<rows, disk, unvisited, seen>>
    BY <1>3 DEF PlanDeletions
  <2>2. ASSUME NEW q \in Paths PROVE Booked(q)'
    <3>1. Booked(q) /\ q \notin failed
      BY <2>1 DEF Standing, Booked, DoneOrBooked
    <3>2. CASE /\ DeleteRemoteWhenMissing
               /\ IsGone(rows[q], q \in seen, disk[q] # NoContent)
      <4>1. task'[q] = Queued("DELETE", NoContent)
        BY <1>3, <3>2 DEF PlanDeletions
      <4> QED
        BY <1>1, <2>1, <3>1, <3>2, <4>1 DEF IsGone, Queued, Booked, RowKeepsUp, Recorded, Running,
           TaskIsCurrent, WalkIsCurrent, DoneOrBooked
    <3>3. CASE ~ (DeleteRemoteWhenMissing
                  /\ IsGone(rows[q], q \in seen, disk[q] # NoContent))
      <4>1. task'[q] = task[q]
        BY <1>3, <3>3 DEF PlanDeletions
      <4>2. RowKeepsUp(q)' /\ TaskIsCurrent(q)' /\ WalkIsCurrent(q)'
        BY <1>1, <2>1, <3>1, <4>1 DEF Booked, RowKeepsUp, Running, TaskIsCurrent, WalkIsCurrent
      <4>3. task[q].pc = "none" /\ q \notin touched \cup unreadable => ~LeftToDo(q)
        BY <2>1, <3>1, <3>3, NoContentAssumption, AcceptedAssumption
        DEF Booked, WalkIsCurrent, LeftToDo, IsGone
      <4>4. DoneOrBooked(q)'
        BY <1>1, <2>1, <3>1, <4>1, <4>3 DEF DoneOrBooked, LeftToDo
      <4> QED
        BY <4>2, <4>4 DEF Booked
    <3> QED
      BY <3>2, <3>3
  <2> QED
    BY <2>2 DEF AllBooked
<1> QED
  BY <1>2, <1>3 DEF Plan

\* A file that cannot be hashed is booked at once.
LEMMA CannotHashBooked == ASSUME Standing, NEW p \in Paths, CannotHash(p) PROVE AllBooked'
<1>1. /\ phase = "planning" /\ disk[p] \in Accepted
      /\ UNCHANGED <<rows, task, disk, phase, failed, escaped, touched>>
      /\ unvisited' = unvisited \ {p} /\ seen' = seen \cup {p}
      /\ unreadable' = unreadable \cup {p}
  BY DEF CannotHash, VisitUnreadable
<1> QED
  BY <1>1 DEF Standing, AllBooked, Booked, RowKeepsUp, TaskIsCurrent, WalkIsCurrent, DoneOrBooked,
     Running, LeftToDo

\* Whatever the user does to a file excuses the books for it.
LEMMA EditBooked == ASSUME Standing, NEW p \in Paths, UserEdits(p) PROVE AllBooked'
<1>1. /\ UNCHANGED <<rows, task, phase, unvisited, seen, unreadable, failed, escaped>>
      /\ touched' = touched \cup {p}
      /\ \A q \in Paths \ {p} : disk'[q] = disk[q]
  BY DEF UserEdits, Edit, books, planVars, Standing, TypeOK
<1> QED
  BY <1>1 DEF Standing, AllBooked, Booked, RowKeepsUp, TaskIsCurrent, WalkIsCurrent, DoneOrBooked,
     Running, LeftToDo

\* A run begins or ends: no task, no walk, and failures only of the run that ended.
LEMMA TurnBooked ==
  ASSUME Standing, Begin \/ BeginInVain \/ PlanRaises \/ Finish \/ Die
  PROVE  AllBooked'
<1>1. UNCHANGED <<rows, disk>> /\ \A q \in Paths : task'[q].pc = "none"
  BY DEF Begin, StartRun, BeginInVain, PlanRaises, Finish, EndRun, Die, Crash, NoTask, Standing,
     Due, DeletionIsDue
<1>2. \/ phase' = "planning" /\ unvisited' = Paths /\ seen' = {} /\ failed' = {}
      \/ phase' = "idle" /\ failed' = {}
           /\ \A q \in Paths : q \notin seen'
      \/ phase' = "idle" /\ failed' = failed /\ touched' = touched /\ seen' = {}
  BY DEF Begin, StartRun, BeginInVain, PlanRaises, Finish, EndRun, Die, Crash, books, planVars,
     Standing, Booked, WalkIsCurrent
<1>3. ASSUME NEW q \in Paths PROVE Booked(q)'
  <2>1. Booked(q)
    BY DEF Standing
  <2> QED
    BY <1>1, <1>2, <2>1 DEF Booked, RowKeepsUp, Recorded, Running, TaskIsCurrent, WalkIsCurrent,
       DoneOrBooked, LeftToDo
<1> QED
  BY <1>3 DEF AllBooked

-----------------------------------------------------------------------------
(* The verdict *)

LEMMA InitLedger == ASSUME LedgerInit PROVE LedgerInv
<1>1. Init
  BY DEF LedgerInit
<1>2. TypeOK /\ Owned /\ Due
  BY <1>1, InitType, InitOwned, InitDue
<1>3. Inv
  BY <1>2 DEF Inv, Owned, Due
<1> QED
  BY <1>3 DEF LedgerInit, Init, NoRow, NoTask, LedgerInv, RowKeepsUp, Recorded, Running,
     TaskIsCurrent, WalkIsCurrent, DoneOrBooked

\* The books stay true to the job at every path.
LEMMA PathsBooked == ASSUME LedgerInv, [LedgerNext]_ledgerVars PROVE AllBooked'
<1>1. Standing
  BY DEF LedgerInv, Inv, Standing, Owned, Due, Booked
<1>2. CASE \/ UNCHANGED ledgerVars \/ CorpusMoves
  <2>1. UNCHANGED <<rows, task, disk, phase, unvisited, seen, books, touched>>
    BY <1>2 DEF ledgerVars, vars, CorpusMoves, Ingest, IngestFails, BackofficeDelete, planVars,
       environment
  <2> QED
    BY <1>1, <2>1 DEF Standing, AllBooked, Booked, RowKeepsUp, TaskIsCurrent, WalkIsCurrent,
       DoneOrBooked, Running, LeftToDo, books
<1> QED
  BY <1>1, <1>2, ApplyBooked, AbortBooked, PlanBooked, CannotHashBooked, EditBooked, TurnBooked
  DEF LedgerNext

\* The verdict is written when all tasks are gone, and stays true until the next run.
LEMMA VerdictKept ==
  ASSUME LedgerInv, [LedgerNext]_ledgerVars
  PROVE  /\ (failed \subseteq Paths)'
         /\ (phase # "idle" => status = "RUNNING")'
         /\ (phase = "idle" /\ status = "SUCCESS" => \A p \in Paths \ touched : ~LeftToDo(p))'
         /\ (phase = "idle" /\ status = "FAILED" /\ ~escaped => unreadable \cup failed # {})'
<1> USE DEF LedgerInv
<1>1. CASE Finish
  <2>1. /\ UNCHANGED <<disk, rows, unreadable, failed, escaped, touched>>
        /\ phase = "applying" /\ phase' = "idle"
        /\ \A p \in Paths : task[p].pc = "none"
        /\ status' = Verdict
    BY <1>1 DEF Finish, EndRun
  <2> QED
    BY <2>1 DEF Verdict, DoneOrBooked, LeftToDo
<1>2. CASE \E p \in Paths : UserEdits(p)
  <2>1. PICK p \in Paths : UserEdits(p)
    BY <1>2
  <2>2. /\ UNCHANGED <<rows, phase, status, unreadable, failed, escaped>>
        /\ touched' = touched \cup {p}
        /\ \A q \in Paths \ {p} : disk'[q] = disk[q]
    BY <2>1 DEF UserEdits, Edit, books, planVars, Inv, TypeOK
  <2> QED
    BY <2>2 DEF LeftToDo
<1>3. CASE UNCHANGED ledgerVars \/ CorpusMoves
  <2>1. UNCHANGED <<rows, disk, phase, status, unreadable, failed, escaped, touched>>
    BY <1>3 DEF ledgerVars, vars, books, CorpusMoves, Ingest, IngestFails, BackofficeDelete,
       planVars, environment
  <2> QED
    BY <2>1 DEF LeftToDo
<1>4. CASE Begin \/ BeginInVain \/ PlanRaises
  BY <1>4 DEF Begin, StartRun, BeginInVain, PlanRaises
<1>5. CASE Die
  BY <1>5 DEF Die, Crash, books
<1>6. CASE Plan \/ \E p \in Paths : CannotHash(p)
  BY <1>6 DEF Plan, PlanDeletions, Visit, CannotHash, VisitUnreadable, books
<1>7. CASE \E p \in Paths : Apply(p) \/ ApplyRaises(p)
  <2>1. PICK p \in Paths : Apply(p) \/ ApplyRaises(p)
    BY <1>7
  <2>2. phase = "applying"
    <3>1. ~Start(p) => task[p].pc \notin {"none", "queued"}
      BY <2>1 DEF Apply, ApplyRaises, Abort, Running, CallFails, CallRetried, RemoteCalls, Work,
         Call, InitUpload, ReinitUpload, ReinitRefused, Push, PushFails, CommitDocument,
         CommitDuplicate, CommitFails, Finalise, PollReady, PollTimesOut, PollFails,
         DeleteDocument, Store, StoreDocument, StorePending, StoreUploaded, StoreCommitted,
         StoreSyncedHash, MarkHash, MarkState, ForgetRow, Write
    <3>2. Start(p) => phase = "applying"
      BY DEF Start, StartUpload, StartReplace, StartResume, StartDelete, Dequeue
    <3>3. TypeOK /\ Due
      BY DEF Inv, Due
    <3> QED
      BY <3>1, <3>2, <3>3, Applying
  <2>3. phase' = phase /\ status' = status /\ failed' \subseteq Paths
    <3>1. CASE Apply(p)
      <4>1. Standing
        BY DEF Inv, Standing, Owned, Due, Booked
      <4>2. Aside
        BY <3>1, <4>1, HandlerAside DEF Apply
      <4> QED
        BY <3>1, <4>2 DEF Apply, Aside
    <3>2. CASE ApplyRaises(p)
      BY <3>2 DEF ApplyRaises, Abort, planVars
    <3> QED
      BY <2>1, <3>1, <3>2
  <2> QED
    BY <2>2, <2>3
<1> QED
  BY <1>1, <1>2, <1>3, <1>4, <1>5, <1>6, <1>7 DEF LedgerNext

\* The invariant behind the books holds in every state of every behaviour.
THEOREM LedgerInvAlways == LedgerSpec => []LedgerInv
<1>1. LedgerInit => LedgerInv
  BY InitLedger
<1>2. LedgerInv /\ [LedgerNext]_ledgerVars => LedgerInv'
  <2> SUFFICES ASSUME LedgerInv, [LedgerNext]_ledgerVars PROVE LedgerInv'
    OBVIOUS
  <2>1. Inv'
    BY LedgerKeepsInv DEF LedgerInv
  <2>2. AllBooked'
    BY PathsBooked
  <2> QED
    BY <2>1, <2>2, VerdictKept DEF LedgerInv, AllBooked, Booked
<1> QED
  BY <1>1, <1>2, PTL DEF LedgerSpec

\* After SUCCESS there is nothing left to do for an untouched file, and a FAILED run names
\* one that is: for every number of workers, every fault and every timing of edits.
THEOREM VerdictIsTrueAlways == LedgerSpec => []VerdictIsTrue
<1>1. LedgerInv => VerdictIsTrue
  BY DEF LedgerInv, DoneOrBooked, VerdictIsTrue
<1> QED
  BY <1>1, LedgerInvAlways, PTL

\* What the planner would leave alone is what --stats counts as synced.
THEOREM NoopIsCountedAlways == LedgerSpec => []NoopIsCounted
<1>1. ASSUME LedgerInv, NEW p \in Paths, disk[p] \in Accepted, Classify(rows[p], disk[p]) = "NOOP"
      PROVE  rows[p].state = "SYNCED"
  <2>1. rows[p].state \notin InFlightStates \cup {"FAILED"} /\ rows[p].synced = disk[p]
    BY <1>1 DEF Classify
  <2>2. rows[p].state \notin {"ABSENT", "NEW"}
    BY <1>1, <2>1, NoContentAssumption, AcceptedAssumption DEF LedgerInv, RowKeepsUp
  <2>3. rows[p].state \in SyncState
    BY <1>1 DEF LedgerInv, Inv, TypeOK, Row
  <2> QED
    BY <2>1, <2>2, <2>3 DEF SyncState, InFlightStates
<1>2. LedgerInv => NoopIsCounted
  BY <1>1 DEF NoopIsCounted
<1> QED
  BY <1>2, LedgerInvAlways, PTL

-----------------------------------------------------------------------------
(* With the books, in an honest environment *)

\* A run that cannot begin, or whose plan cannot be made, leaves every file as it was.
LEMMA ExtraStepsKeepExact ==
  ASSUME TypeOK, Steady, \A p \in Paths : Exact(p), BeginInVain \/ PlanRaises,
         Owned, Due
  PROVE  Steady' /\ \A p \in Paths : Exact(p)'
<1>1. UNCHANGED <<rows, docs, disk>> /\ \A p \in Paths : Replans(p)
  BY DEF BeginInVain, PlanRaises, Replans
<1> QED
  BY <1>1, SteadyAside, ExactReplanned

\* The invariant of an honest environment, with the books of the run beside it.
THEOREM HonestLedgerAlways == ASSUME HonestEnvironment PROVE LedgerSpec => []HonestInv
<1> DEFINE Faithful == Steady /\ \A p \in Paths : Exact(p)
<1>1. LedgerInit => Faithful
  BY InitSteady, InitExact DEF LedgerInit
<1>2. LedgerInv /\ Faithful /\ [LedgerNext]_ledgerVars => Faithful'
  BY JobSteps, NextSteady, NextExact, ExtraStepsKeepExact DEF LedgerInv, Inv, Owned, Due
<1>3. LedgerInv /\ Faithful => HonestInv
  BY DEF LedgerInv, HonestInv, Exact
<1> HIDE DEF Faithful
<1> QED
  BY <1>1, <1>2, <1>3, LedgerInvAlways, PTL DEF LedgerSpec

\* Exit code 0 is worth something to whoever uses the corpus: of every accepted file
\* that nobody has touched since the run began, the corpus has the present content.
THEOREM SuccessMeansHeldAlways ==
  ASSUME HonestEnvironment PROVE LedgerSpec => []SuccessMeansHeld
<1>1. LedgerInv /\ HonestInv => SuccessMeansHeld
  <2> SUFFICES ASSUME LedgerInv, HonestInv, phase = "idle", status = "SUCCESS",
                      NEW p \in Paths \ touched, disk[p] \in Accepted
               PROVE  /\ rows[p].doc # NoDoc
                      /\ docs[rows[p].doc].status \in Ingested /\ docs[rows[p].doc].content = disk[p]
    BY DEF SuccessMeansHeld
  <2>1. ~LeftToDo(p)
    BY DEF LedgerInv
  <2>2. CASE Classify(rows[p], disk[p]) = "NOOP"
    <3>1. rows[p].doc # NoDoc
      BY <2>2 DEF Classify
    <3> QED BY <2>2, <3>1 DEF HonestInv, RowIsExact, WouldSkip, Serves, Ingested
  <2>3. CASE rows[p].state = "COMMITTED"
    <3>1. rows[p].doc # NoDoc
      BY <2>3 DEF HonestInv, Inv, PathInv, RowIsBacked, InFlightStates
    <3> QED BY <2>3, <3>1 DEF HonestInv, RowIsExact
  <2> QED
    BY <2>1, <2>2, <2>3 DEF LeftToDo
<1> QED
  BY <1>1, LedgerInvAlways, HonestLedgerAlways, PTL
=============================================================================
