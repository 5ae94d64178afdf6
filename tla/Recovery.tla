------------------------------ MODULE Recovery ------------------------------
(***************************************************************************)
(* The loss of the local database and `--rebuild-db', composed with the     *)
(* sync job: engine.rebuild reads every document of the corpus, page by     *)
(* page, and writes a row for each one whose file exists.  The sync runs    *)
(* that follow stand on what it wrote.                                      *)
(*                                                                          *)
(* A document belongs to the path a run met its file under; a rebuild gives *)
(* it to the path Path.resolve makes of that.  The two differ for a file    *)
(* reached through a symbolic link, which a run meets with follow_symlinks. *)
(* Two paths that lead to one file have contents of their own here, which   *)
(* allows more than can happen.                                             *)
(*                                                                          *)
(* Documents without sync_fullpath metadata are skipped by the code and are *)
(* left out: no row ever mentions them.                                     *)
(***************************************************************************)
EXTENDS SyncProperties, Sequences, Functions

CONSTANTS
  SizeOf,       \* SizeOf[c]: the size in bytes of content c
  NoSize,       \* a document of which the corpus reports no size yet
  Rank,         \* the server lists documents in the order of their ranks
  PageSize,     \* page_size of iter_all
  LinkTrees,    \* how the links of the tree may lead
  Outside,      \* a path that resolves to nothing inside the tree
  Careful,      \* the operator rebuilds before the next sync, and once the corpus settled
  MaxLosses, MaxRebuilds

ASSUME SizeAssumption == DOMAIN SizeOf = Contents /\ NoSize \notin Range(SizeOf)
ASSUME ListingAssumption ==
  /\ IsFiniteSet(DocIds)
  /\ Rank \in [DocIds -> Nat] /\ IsInjective(Rank)
  /\ PageSize \in Nat \ {0}
\* What a path resolves to has no link left in it.
ASSUME LinksAssumption ==
  /\ Outside \notin Paths
  /\ LinkTrees \subseteq [Paths -> Paths \cup {Outside}]
  /\ \A tree \in LinkTrees : \A p \in Paths : tree[p] \in Paths => tree[tree[p]] = tree[p]
ASSUME OperatorAssumption ==
  /\ Careful \in BOOLEAN
  /\ MaxLosses \in Nat /\ MaxRebuilds \in Nat

VARIABLES
  rebuild,  \* the rebuild under way, or "due" since a loss: where it is, the page it
            \* asks for next, what it has still to restore, the hash of the file at hand
  links,    \* links[p]: where Path.resolve leads p; the links stay as they are
  losses, rebuilds

jobVars == <<rebuild, links, losses, rebuilds>>
allVars == <<vars, jobVars>>

NoRebuild == [pc |-> "off", page |-> 0, listed |-> <<>>, hash |-> NoContent]
DueRebuild == [NoRebuild EXCEPT !.pc = "due"]

Rebuilding == rebuild.pc \notin {"off", "due"}

RecoveryInit ==
  /\ Init
  /\ rebuild = NoRebuild
  /\ links \in LinkTrees
  /\ losses = 0
  /\ rebuilds = 0

-----------------------------------------------------------------------------
(* The operator *)

\* No process uses the database, and the corpus is as the operator waits for.
Quiet ==
  /\ phase = "idle"
  /\ ~Rebuilding
  /\ Careful => \A d \in DocIds : docs[d].status \in {"UNUSED", "READY", "DELETED"}

LoseDatabase ==
  /\ Quiet
  /\ losses < MaxLosses
  /\ losses' = losses + 1
  /\ rows' = [p \in Paths |-> NoRow]
  /\ rebuild' = DueRebuild
  /\ UNCHANGED <<docs, task, planVars, environment, links, rebuilds>>

\* The careless operator also rebuilds over a database that is intact.
StartRebuild ==
  /\ Quiet
  /\ Careful => rebuild.pc = "due"
  /\ rebuilds < MaxRebuilds
  /\ rebuilds' = rebuilds + 1
  /\ rebuild' = [NoRebuild EXCEPT !.pc = "list"]
  /\ UNCHANGED <<vars, links, losses>>

-----------------------------------------------------------------------------
(* iter_all: one request per page, each answered from the corpus of that moment *)

\* The corpus reports a size only once ingestion has run.
ReportedSize(doc) == IF doc.status = "READY" THEN SizeOf[doc.content] ELSE NoSize

Existing == {d \in DocIds : Exists(docs[d])}

\* How many documents the listing has before d.
Position(d) == Cardinality({e \in Existing : Rank[e] < Rank[d]})

DocumentAt(n) == CHOOSE d \in Existing : Position(d) = n

\* The documents from position k * PageSize on, as many as fit or are left.
Page(k) ==
  LET left == Cardinality(Existing) - k * PageSize
  IN  [i \in 1..(IF left < PageSize THEN left ELSE PageSize) |->
         LET d == DocumentAt(k * PageSize + i - 1)
         IN  [doc |-> d, size |-> ReportedSize(docs[d])]]

\* A listing that stops at the first page (used as a mutant).
ListFirstPage ==
  /\ rebuild.pc = "list"
  /\ rebuild' = [rebuild EXCEPT !.listed = Page(0), !.pc = "next"]
  /\ UNCHANGED <<vars, links, losses, rebuilds>>

\* A short page is the last one.
ListPage ==
  LET page == Page(rebuild.page) IN
  /\ rebuild.pc = "list"
  /\ rebuild' = [rebuild EXCEPT
       !.listed = @ \o page,
       !.page   = @ + 1,
       !.pc     = IF Len(page) < PageSize THEN "next" ELSE "list"]
  /\ UNCHANGED <<vars, links, losses, rebuilds>>

-----------------------------------------------------------------------------
(* rebuild: for each listed document, four database statements *)

Current == Head(rebuild.listed)

\* The sync_fullpath of the document at hand,
FullPath == docs[Current.doc].path

\* and what relative_to_root makes of it: the file is read at the one, and the row
\* written for the other.
Target == links[FullPath]

NextDocument == rebuild' = [rebuild EXCEPT !.pc = "next", !.listed = Tail(@)]

AtDocument == rebuild.pc = "next" /\ rebuild.listed # <<>>

SkipOutside ==
  /\ AtDocument
  /\ Target = Outside
  /\ NextDocument
  /\ UNCHANGED <<vars, links, losses, rebuilds>>

\* The file is gone: the document is left in the corpus, and nothing remembers it.
SkipMissing ==
  /\ AtDocument
  /\ Target # Outside
  /\ disk[FullPath] = NoContent
  /\ NextDocument
  /\ UNCHANGED <<vars, links, losses, rebuilds>>

SkipUnreadable ==
  /\ Mishap("unreadable")
  /\ AtDocument
  /\ Target # Outside
  /\ disk[FullPath] # NoContent
  /\ NextDocument
  /\ UNCHANGED <<rows, docs, task, planVars, disk, vanished, edits, links, losses, rebuilds>>

\* is_file, stat and hash_file, then upsert_file.
RestoreRow ==
  /\ AtDocument
  /\ Target # Outside
  /\ disk[FullPath] # NoContent
  /\ rows' = [rows EXCEPT ![Target] = Upserted(@)]
  /\ rebuild' = [rebuild EXCEPT !.pc = "document", !.hash = disk[FullPath]]
  /\ UNCHANGED <<docs, task, planVars, environment, links, losses, rebuilds>>

\* The unique index on document_id.
HeldByAnotherRow == \E p \in Paths \ {Target} : rows[p].doc = Current.doc

RestoreDocument ==
  /\ rebuild.pc = "document"
  /\ ~HeldByAnotherRow
  /\ rows' = [rows EXCEPT ![Target] = WithDocumentId(@, Current.doc)]
  /\ rebuild' = [rebuild EXCEPT !.pc = "hash"]
  /\ UNCHANGED <<docs, task, planVars, environment, links, losses, rebuilds>>

\* IntegrityError: the row of the link has the document still, and the rebuild is over.
RestoreRefused ==
  /\ rebuild.pc = "document"
  /\ HeldByAnotherRow
  /\ rebuild' = DueRebuild
  /\ UNCHANGED <<vars, links, losses, rebuilds>>

\* An unknown size counts as a match.
SizeMatches == Current.size \in {NoSize, SizeOf[rebuild.hash]}

\* Every file that is still there taken for synced (used as a mutant).
RestoreHashUnchecked ==
  /\ rebuild.pc = "hash"
  /\ rows' = [rows EXCEPT ![Target] = WithSyncedHash(@, rebuild.hash)]
  /\ rebuild' = [rebuild EXCEPT !.pc = "state"]
  /\ UNCHANGED <<docs, task, planVars, environment, links, losses, rebuilds>>

RestoreHash ==
  /\ rebuild.pc = "hash"
  /\ rows' = [rows EXCEPT ![Target] =
       WithSyncedHash(@, IF SizeMatches THEN rebuild.hash ELSE NoContent)]
  /\ rebuild' = [rebuild EXCEPT !.pc = "state"]
  /\ UNCHANGED <<docs, task, planVars, environment, links, losses, rebuilds>>

RestoreState ==
  /\ rebuild.pc = "state"
  /\ rows' = [rows EXCEPT ![Target] =
       WithSyncState(@, IF SizeMatches THEN "SYNCED" ELSE "NEW")]
  /\ NextDocument
  /\ UNCHANGED <<docs, task, planVars, environment, links, losses, rebuilds>>

EndRebuild ==
  /\ rebuild.pc = "next" /\ rebuild.listed = <<>>
  /\ rebuild' = NoRebuild
  /\ UNCHANGED <<vars, links, losses, rebuilds>>

\* Any error ends the whole rebuild, and so does the death of the process.
RebuildDies ==
  /\ Rebuilding
  /\ \E kind \in {"call", "abort", "crash"} : Mishap(kind)
  /\ rebuild' = DueRebuild
  /\ UNCHANGED <<rows, docs, task, planVars, disk, vanished, edits, links, losses, rebuilds>>

-----------------------------------------------------------------------------

RebuildStep ==
  \/ ListPage
  \/ SkipOutside \/ SkipMissing
  \/ RestoreRow \/ RestoreDocument \/ RestoreRefused \/ RestoreHash \/ RestoreState
  \/ EndRebuild

\* A sync run, or the world around it, while no rebuild is under way or awaited.
SyncStep ==
  /\ IF Careful THEN rebuild.pc = "off" ELSE ~Rebuilding
  /\ Next
  /\ UNCHANGED jobVars

\* The world goes on during a rebuild.
Meanwhile ==
  /\ rebuild.pc # "off"
  /\ \/ /\ ~Rebuilding \/ EditWhen = "anytime"
        /\ \E p \in Paths : Edit(p)
     \/ \E d \in DocIds : Ingest(d) \/ IngestFails(d) \/ BackofficeDelete(d)
  /\ UNCHANGED jobVars

RecoveryNext ==
  \/ SyncStep \/ Meanwhile
  \/ LoseDatabase \/ StartRebuild
  \/ RebuildStep \/ SkipUnreadable \/ RebuildDies

RecoverySpec == RecoveryInit /\ [][RecoveryNext]_allVars

\* A database that was lost is rebuilt, and a rebuild that is not killed goes on.
FairRecoverySpec ==
  RecoverySpec /\ Fairness /\ WF_allVars(StartRebuild) /\ WF_allVars(RebuildStep)

-----------------------------------------------------------------------------
(* Promises *)

\* The document a row names is one of the row's own file: filed under the row's path,
\* or under a link that leads there.
MappingLeadsToFile ==
  \A p \in Paths :
    rows[p].doc # NoDoc =>
      LET q == docs[rows[p].doc].path IN q = p \/ (q \in Paths /\ links[q] = p)

\* A rebuild that comes to its end has found a living document again for every
\* file of the tree that has one in the corpus: the next run uploads none of
\* them a second time.  Not so for a path that goes through a link: its document
\* went to the file the link leads to, or nowhere.
RebuildRestoresMapping ==
  [][rebuild.pc = "next" /\ rebuild'.pc = "off" /\ mishaps' = mishaps
       => \A p \in Paths :
            /\ links[p] = p /\ disk[p] # NoContent
            /\ \E d \in DocIds : Exists(docs[d]) /\ docs[d].path = p
            => /\ rows[p].doc # NoDoc
               /\ Exists(docs[rows[p].doc]) /\ links[docs[rows[p].doc].path] = p]_allVars

\* All that a rebuild can tell of a document is its size.
ServesAlike(doc, content) == doc.status = "READY" /\ SizeOf[doc.content] = SizeOf[content]

\* Whatever an interrupted rebuild left behind, once one has come to its end and could
\* read every file, a NOOP means again that the corpus serves a content of the file's
\* size: the file's own, unless it was replaced by another of the same length between
\* the last run before the loss and the rebuild (engine.py compares sizes only).
HonestAfterRecovery ==
  rebuild.pc = "off" =>
    \A p \in Paths :
      disk[p] \in Accepted /\ Classify(rows[p], disk[p]) = "NOOP"
        => ServesAlike(docs[rows[p].doc], disk[p])

\* The corpus mirrors the tree at p as far as sizes tell.
MirroredAlike(p) ==
  /\ disk[p] \in Accepted => rows[p].doc # NoDoc /\ ServesAlike(docs[rows[p].doc], disk[p])
  /\ disk[p] = NoContent => rows[p] = NoRow

\* Once edits, losses and mishaps stop, rebuilds and runs bring the corpus to the tree,
\* as far as sizes tell, and keep it there.
Recovers == <>[](\A p \in Paths : MirroredAlike(p))

\* iter_all returns "every document in the corpus" as long as nobody deletes one
\* between two pages: changes of status do not disturb it.
ListingIsComplete ==
  [][rebuild.pc = "list" /\ rebuild'.pc = "next"
       => \A d \in DocIds :
            Exists(docs[d]) => \E i \in DOMAIN rebuild'.listed : rebuild'.listed[i].doc = d
    ]_allVars
=============================================================================
