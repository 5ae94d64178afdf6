------------------------------- MODULE Ledger -------------------------------
(***************************************************************************)
(* A sync job and its bookkeeping: run_sync of cli.py around the engine,    *)
(* with the sync_run row it opens, the failures engine.run collects and the *)
(* verdict finish_run writes.  Every step of SyncEngine is a step of Ledger *)
(* joined with what it does to the run's books.                             *)
(*                                                                          *)
(* Only the row of the latest run is kept: no code decides anything by the  *)
(* earlier ones, which are counted, listed and warned about.                *)
(***************************************************************************)
EXTENDS SyncInvariant

VARIABLES
  status,      \* of the latest sync_run row, "none" before the first
  unreadable,  \* plan.unreadable of this run
  failed,      \* paths whose handler raised what apply() catches
  escaped,     \* something raised that apply() does not catch
  touched      \* history: paths edited since this run began

books == <<status, unreadable, failed, escaped>>
ledgerVars == <<vars, books, touched>>

RunStatus == {"RUNNING", "SUCCESS", "FAILED"}

LedgerInit ==
  /\ Init
  /\ status = "none"
  /\ unreadable = {} /\ failed = {}
  /\ escaped = FALSE
  /\ touched = {}

\* start_run.
Begin ==
  /\ StartRun
  /\ status' = "RUNNING"
  /\ unreadable' = {} /\ failed' = {} /\ escaped' = FALSE
  /\ touched' = {}

\* _build_documents_api raises, outside the try: the row is never closed.
BeginInVain ==
  /\ Mishap("abort")
  /\ phase = "idle"
  /\ status' = "RUNNING"
  /\ unreadable' = {} /\ failed' = {} /\ escaped' = FALSE
  /\ touched' = {}
  /\ UNCHANGED <<disk, rows, docs, planVars, task, vanished, edits>>

Plan ==
  /\ PlanDeletions \/ \E p \in Paths : Visit(p)
  /\ UNCHANGED <<books, touched>>

CannotHash(p) ==
  /\ VisitUnreadable(p)
  /\ unreadable' = unreadable \cup {p}
  /\ UNCHANGED <<status, failed, escaped, touched>>

\* planner.plan raises: a database error, or a path that may not be looked at.
PlanRaises ==
  /\ Mishap("abort")
  /\ phase = "planning"
  /\ phase' = "idle"
  /\ unvisited' = {} /\ seen' = {} /\ vanished' = {}
  /\ task' = [p \in Paths |-> NoTask]
  /\ status' = "FAILED" /\ escaped' = TRUE
  /\ UNCHANGED <<rows, docs, disk, edits, unreadable, failed, touched>>

\* What apply() returns as an error.
Raises(p) == PushFails(p) \/ CommitFails(p) \/ PollFails(p) \/ CallFails(p)

Apply(p) ==
  /\ Work(p) \/ CallFails(p) \/ CallRetried(p)
  /\ failed' = IF Raises(p) THEN failed \cup {p} ELSE failed
  /\ UNCHANGED <<status, unreadable, escaped, touched>>

ApplyRaises(p) ==
  /\ Abort(p)
  /\ escaped' = TRUE
  /\ UNCHANGED <<status, unreadable, failed, touched>>

\* A verdict on the handlers alone (used as a mutant).
VerdictOfHandlers == IF escaped \/ failed # {} THEN "FAILED" ELSE "SUCCESS"

\* outcome.ok, or the exception: finish_run.
Verdict == IF escaped \/ unreadable \cup failed # {} THEN "FAILED" ELSE "SUCCESS"

Finish ==
  /\ EndRun
  /\ status' = Verdict
  /\ UNCHANGED <<unreadable, failed, escaped, touched>>

\* The row stays RUNNING.
Die == Crash /\ UNCHANGED <<books, touched>>

UserEdits(p) ==
  /\ Edit(p)
  /\ touched' = touched \cup {p}
  /\ UNCHANGED books

CorpusMoves ==
  /\ \E d \in DocIds : Ingest(d) \/ IngestFails(d) \/ BackofficeDelete(d)
  /\ UNCHANGED <<books, touched>>

LedgerNext ==
  \/ Begin \/ BeginInVain \/ Plan \/ PlanRaises \/ Finish \/ Die \/ CorpusMoves
  \/ \E p \in Paths : CannotHash(p) \/ Apply(p) \/ ApplyRaises(p) \/ UserEdits(p)

LedgerSpec == LedgerInit /\ [][LedgerNext]_ledgerVars

-----------------------------------------------------------------------------
(* Properties *)

\* The next run would have to do more about p than wait for its ingestion.
LeftToDo(p) ==
  \/ /\ disk[p] \in Accepted
     /\ Classify(rows[p], disk[p]) # "NOOP"
     /\ rows[p].state # "COMMITTED"
  \/ disk[p] = NoContent /\ DeleteRemoteWhenMissing /\ rows[p].state # "ABSENT"

\* The exit code and the run's row tell the truth to whoever reads only these: after a
\* SUCCESS there is nothing left to do for any file nobody has touched since, and a
\* FAILED that is not an exception names a file that is left to do or cannot be read.
VerdictIsTrue ==
  phase = "idle" =>
    /\ status = "SUCCESS" => \A p \in Paths \ touched : ~LeftToDo(p)
    /\ status = "FAILED" /\ ~escaped =>
         \E p \in unreadable \cup failed : p \in unreadable \cup touched \/ LeftToDo(p)

\* What a SUCCESS is worth to whoever uses the corpus: it has taken the present content
\* of every accepted file that nobody has touched since the run began.
SuccessMeansHeld ==
  phase = "idle" /\ status = "SUCCESS" =>
    \A p \in Paths \ touched : disk[p] \in Accepted =>
      /\ rows[p].doc # NoDoc
      /\ docs[rows[p].doc].status \in Ingested
      /\ docs[rows[p].doc].content = disk[p]

\* --stats and the planner agree: a file the next run would leave alone is one of those
\* counted as synced, and every pending or failed one is taken up again.  This is about
\* sync runs: a rebuild that is killed between set_synced_hash and set_sync_state
\* (engine.py) leaves a row that the planner takes for synced and --stats for pending.
NoopIsCounted ==
  \A p \in Paths :
    disk[p] \in Accepted /\ Classify(rows[p], disk[p]) = "NOOP" => rows[p].state = "SYNCED"

-----------------------------------------------------------------------------
(* Why the verdict is true: the inductive invariant.  A verdict is about what *)
(* is left when the tasks are gone, so it needs what each task knows.         *)

\* Steps at which the handler's document is recorded in the row.
Recorded == {"push", "storeUploaded", "commit", "storeCommitted", "storeSyncedHash",
             "finalise", "poll", "markHash", "markState"}

\* A row that has not sent anything claims no content, and rows keep up with handlers.
RowKeepsUp(p) ==
  /\ rows[p].state \in {"ABSENT", "NEW"} => rows[p].synced = NoContent
  /\ task[p].pc \in Recorded => rows[p].state \notin {"ABSENT", "NEW"}
  /\ task[p].pc \in {"storeSyncedHash", "finalise", "poll"} => rows[p].state = "COMMITTED"
  /\ task[p].pc = "markState" => rows[p].synced = task[p].hash
  /\ Running(p) => rows[p].state # "ABSENT"

\* A task is about the file as it is, unless the user has touched it.
TaskIsCurrent(p) ==
  /\ task[p].pc \in {"delete", "forget"} => task[p].kind = "DELETE"
  /\ task[p].pc # "none" /\ task[p].kind = "DELETE" =>
       /\ task[p].pc \in {"queued", "delete", "forget"}
       /\ rows[p].state # "ABSENT"
       /\ DeleteRemoteWhenMissing
       /\ p \notin touched => disk[p] = NoContent
  /\ task[p].pc # "none" /\ task[p].kind # "DELETE" /\ p \notin touched =>
       disk[p] \in Accepted /\ task[p].hash = disk[p]

\* The walk has seen the files it accepts, and what it gave no task needs none.
WalkIsCurrent(p) ==
  /\ p \in seen /\ p \notin touched => disk[p] \in Accepted
  /\ phase = "planning" /\ p \notin unvisited \cup touched \cup unreadable
       /\ task[p].pc = "none" /\ disk[p] \in Accepted => Classify(rows[p], disk[p]) = "NOOP"
  /\ phase = "applying" => unvisited = {}
  /\ phase = "idle" => p \notin seen

\* A file without a task is done with, or it is in the books.
DoneOrBooked(p) ==
  /\ phase = "applying" /\ ~escaped /\ task[p].pc = "none"
       /\ p \notin touched \cup unreadable \cup failed => ~LeftToDo(p)
  /\ p \in failed =>
       /\ phase # "planning"
       /\ task[p].pc = "none"
       /\ p \notin touched => rows[p].state = "FAILED" /\ LeftToDo(p)

LedgerInv ==
  /\ Inv
  /\ \A p \in Paths :
       RowKeepsUp(p) /\ TaskIsCurrent(p) /\ WalkIsCurrent(p) /\ DoneOrBooked(p)
  /\ failed \subseteq Paths
  /\ phase # "idle" => status = "RUNNING"
  /\ phase = "idle" /\ status = "SUCCESS" => \A p \in Paths \ touched : ~LeftToDo(p)
  /\ phase = "idle" /\ status = "FAILED" /\ ~escaped => unreadable \cup failed # {}
=============================================================================
