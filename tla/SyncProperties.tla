--------------------------- MODULE SyncProperties ---------------------------
(***************************************************************************)
(* What the job promises, stated of SyncEngine.  Which promise is checked   *)
(* under which environment is said by the configurations of MCSync*.        *)
(***************************************************************************)
EXTENDS SyncEngine

\* Every variable stays in its type (one type invariant for the module).
TypeOK ==
  /\ disk \in [Paths -> MaybeContent]
  /\ rows \in [Paths -> Row]
  /\ docs \in [DocIds -> Document]
  /\ phase \in {"idle", "planning", "applying"}
  /\ unvisited \subseteq Paths
  /\ seen \subseteq Paths
  /\ task \in [Paths -> Task]
  /\ vanished \subseteq Paths
  /\ mishaps \in 0..MaxMishaps
  /\ edits \in 0..MaxEdits

-----------------------------------------------------------------------------
(* Promises kept whatever fails and whenever the tree is edited *)

\* A row claims no more progress than its document has made: bytes behind
\* UPLOADED, an accepted commit behind COMMITTED, a document behind any state a
\* run would resume.  This is what lets _resume skip steps after a crash.
\* Only a deletion from outside may take the ground from under a row.
Backs(doc, state) ==
  \/ doc.status = "DELETED"
  \/ state = "UPLOADED" /\ doc.blob # NoContent
  \/ state = "COMMITTED" /\ doc.status \in {"PROCESSING", "READY", "FAILED"}

RowIsBacked(p) ==
  /\ rows[p].state \in InFlightStates => rows[p].doc # NoDoc
  /\ rows[p].state \in {"UPLOADED", "COMMITTED"} => Backs(docs[rows[p].doc], rows[p].state)

StateIsBacked == \A p \in Paths : RowIsBacked(p)

\* The document id in a row is one whose sync_fullpath metadata names that row's
\* path.  The unique index on document_id is then never violated, by any
\* interleaving of workers, and --rebuild-db finds the same mapping again.
MappingMatchesMetadata ==
  \A p \in Paths :
    rows[p].doc # NoDoc => docs[rows[p].doc].path = p

\* _delete removes the document before the row: no crash or failed call between
\* the two leaves a document that nothing in the database remembers.
RowForgottenAfterDocument ==
  [][\A p \in Paths :
       rows[p].state # "ABSENT" /\ rows'[p].state = "ABSENT"
         => rows[p].doc = NoDoc \/ docs[rows[p].doc].status = "DELETED"]_vars

\* A run deletes only on behalf of a file that did not exist at some moment of
\* that very run: never for one the filters reject, nor for one it cannot read.
OnlyVanishedFilesAreDeleted ==
  [][\A p \in Paths :
       \/ rows[p].state # "ABSENT" /\ rows'[p].state = "ABSENT"
       \/ task[p].pc = "delete"
       => p \in vanished \ seen]_vars

\* Every remote document of the job is reachable from the database or from the
\* worker that has just created it; otherwise nothing will ever replace or
\* delete it.
NoOrphans ==
  \A d \in DocIds :
    Exists(docs[d]) => \E p \in Paths : d \in {rows[p].doc, task[p].doc}

\* A file keeps its document id as long as it has a row (README: replaced in
\* place, under the same document UID).
UidIsStable ==
  [][\A p \in Paths :
       rows[p].doc # NoDoc => rows'[p] = NoRow \/ rows'[p].doc = rows[p].doc]_vars

-----------------------------------------------------------------------------
(* The promise behind NOOP *)

\* Whenever a run would leave a file alone, the corpus serves its content.
NoopIsHonest ==
  \A p \in Paths :
    disk[p] \in Accepted /\ Classify(rows[p], disk[p]) = "NOOP"
      => Serves(docs[rows[p].doc], disk[p])

\* The synced_hash of a SYNCED row "always answers what the corpus actually holds"
\* (engine.py), whatever was deleted by other hands.
SyncedHashIsHeld ==
  \A p \in Paths :
    /\ rows[p].state = "SYNCED" /\ rows[p].synced # NoContent
    /\ task[p].pc = "none"
    /\ Exists(docs[rows[p].doc])
    => docs[rows[p].doc].content = rows[p].synced

\* NOOP at least means that some document of the corpus was committed with this
\* content (README: the corpus already holds this content).
NoopMeansHeld ==
  \A p \in Paths :
    phase = "idle" /\ disk[p] \in Accepted /\ Classify(rows[p], disk[p]) = "NOOP"
      => \E d \in DocIds : Exists(docs[d]) /\ docs[d].content = disk[p]

-----------------------------------------------------------------------------
(* What must happen eventually *)

\* The corpus mirrors the tree at p: the accepted file is served, and neither
\* row nor document is left of a file that is gone.
Mirrored(p) ==
  /\ disk[p] \in Accepted => rows[p].doc # NoDoc /\ Serves(docs[rows[p].doc], disk[p])
  /\ disk[p] = NoContent => rows[p] = NoRow

\* Once edits and mishaps stop, repeated runs bring the corpus to the tree and keep it there.
Convergence == <>[](\A p \in Paths : Mirrored(p))

\* Every run ends, whatever the pool, the failures and the order of its steps.
RunsEnd == (phase # "idle") ~> (phase = "idle")
=============================================================================
