--------------------------- MODULE RecoveryProofs ---------------------------
(***************************************************************************)
(* A rebuild of the database, proved for every corpus, listing, page size   *)
(* and number of losses, together with the sync runs before and after it.   *)
(***************************************************************************)
EXTENDS Recovery, SyncPromises, FiniteSetTheorems

-----------------------------------------------------------------------------
(* The invariants *)

Restoring == rebuild.pc \in {"document", "hash", "state"}

\* What a listing can say of a document.
Entry == [doc: DocIds, size: {ReportedSize(doc) : doc \in Document}]

RebuildType ==
  rebuild \in [pc: {"off", "due", "list", "next", "document", "hash", "state"}, page: Nat,
               listed: Seq(Entry), hash: MaybeContent]

\* No run is under way in a rebuild, and it restores documents it has been told of.
RebuildIsAlone ==
  /\ IF Rebuilding THEN phase = "idle" ELSE rebuild.listed = <<>>
  /\ Restoring => rebuild.listed # <<>> /\ Target \in Paths
  /\ \A i \in DOMAIN rebuild.listed : docs[rebuild.listed[i].doc].status # "UNUSED"

\* An id names a path from the moment it is handed out.
IdsAreNamed ==
  \A d \in DocIds : IF docs[d].status = "UNUSED" THEN docs[d].path = NoPath
                                                ELSE docs[d].path \in Paths

\* The document of an id in a row, or in a task, is one of that path's file.
Leads(d, p) == docs[d].path = p \/ (docs[d].path \in Paths /\ links[docs[d].path] = p)

LeadsHome(p) == \A d \in {rows[p].doc, task[p].doc} \ {NoDoc} : Leads(d, p)

MappingInv ==
  /\ TypeOK /\ Due /\ IdsAreNamed
  /\ links \in LinkTrees /\ \A p \in Paths : LeadsHome(p)
  /\ RebuildType /\ RebuildIsAlone

IsListed(d) == \E i \in DOMAIN rebuild.listed : rebuild.listed[i].doc = d

\* The pages read so far hold what comes first.
ListingInv ==
  rebuild.pc = "list" =>
    \A d \in Existing : Position(d) < rebuild.page * PageSize => IsListed(d)

Reading == rebuild.pc = "next" \/ Restoring

\* What was listed is there,
ListedExist == Rebuilding => \A i \in DOMAIN rebuild.listed : Exists(docs[rebuild.listed[i].doc])

\* and every file with a document has one in its row, or its own is to come.
RestoringInv ==
  /\ ListedExist
  /\ rebuild.pc \in {"hash", "state"} => rows[Target].doc = Current.doc
  /\ Reading =>
       \A p \in Paths, d \in Existing :
         links[p] = p /\ disk[p] # NoContent /\ docs[d].path = p =>
           \/ rows[p].doc # NoDoc /\ Exists(docs[rows[p].doc])
           \/ IsListed(d)

\* The corpus has settled, and rows claim nothing that is in flight.
Calm ==
  /\ phase = "idle"
  /\ \A d \in DocIds : docs[d].status \in {"UNUSED", "READY", "DELETED"}
  /\ \A p \in Paths : rows[p].state \in {"ABSENT", "NEW", "SYNCED"}

\* No path leads to another: with follow_symlinks = false the walk yields none that does,
\* with follow_symlinks = true the links of the tree may all lead out of it.
NoAliases == \A tree \in LinkTrees : \A p \in Paths : tree[p] \in {p, Outside}

CarefulInv ==
  /\ MappingInv /\ Owned /\ Steady
  /\ rebuild.pc # "off" => Calm
  /\ Restoring => rows[Target].state # "ABSENT"
  /\ rebuild.pc \in {"hash", "state"} => rows[Target].doc = Current.doc

\* The rows since a loss name documents that exist, in paths a rebuild writes to, and a
\* listing is of such documents and says of each what the corpus says.
Truthful ==
  /\ rebuild.pc # "off" => \A p \in Paths : rows[p].doc # NoDoc => Exists(docs[rows[p].doc])
  /\ rebuild.pc # "off" => \A p \in Paths : rows[p].doc # NoDoc => links[p] = p
  /\ Rebuilding => \A i \in DOMAIN rebuild.listed :
       /\ Exists(docs[rebuild.listed[i].doc])
       /\ rebuild.listed[i].size = ReportedSize(docs[rebuild.listed[i].doc])

\* A row that was restored says what the corpus has, or will be restored again.
RestoredExactly ==
  /\ Restoring => rebuild.hash = disk[Target]
  /\ rebuild.pc = "state" =>
       rows[Target].synced = (IF SizeMatches THEN rebuild.hash ELSE NoContent)
  /\ Reading =>
       \A p \in Paths :
         WouldSkip(p) /\ ~ServesAlike(docs[rows[p].doc], disk[p]) =>
           \E i \in DOMAIN rebuild.listed : docs[rebuild.listed[i].doc].path = p

\* A row that was restored for a file of the size the corpus has, but perhaps of another
\* content: nothing touches it until the file is edited again.
Misled(p) ==
  /\ task[p].pc = "none"
  /\ WouldSkip(p) /\ ServesAlike(docs[rows[p].doc], disk[p])

HonestRecoveryInv ==
  /\ CarefulInv /\ ListingInv
  /\ Truthful /\ RestoredExactly
  /\ rebuild.pc = "off" => \A p \in Paths : Exact(p) \/ Misled(p)

-----------------------------------------------------------------------------
(* What a listing holds *)

LEMMA ExistingIsFinite ==
  /\ IsFiniteSet(Existing) /\ Cardinality(Existing) \in Nat
  /\ \A S \in SUBSET Existing : IsFiniteSet(S) /\ Cardinality(S) \in Nat
  BY ListingAssumption, FS_Subset, FS_CardinalityType DEF Existing

\* No two documents have the same position, and none one past the end.
LEMMA Positions ==
  /\ \A d \in Existing : Position(d) \in 0..(Cardinality(Existing) - 1)
  /\ \A d, e \in Existing : Position(d) = Position(e) => d = e
<1> DEFINE Before(d) == {e \in Existing : Rank[e] < Rank[d]}
<1>1. \A d \in Existing : Before(d) \in SUBSET Existing /\ d \notin Before(d)
  BY ListingAssumption DEF Existing
<1>2. ASSUME NEW d \in Existing PROVE Position(d) \in 0..(Cardinality(Existing) - 1)
  <2>1. Cardinality(Before(d)) <= Cardinality(Existing) /\ Cardinality(Before(d)) # Cardinality(Existing)
    BY <1>1, ExistingIsFinite, FS_Subset
  <2>2. Position(d) = Cardinality(Before(d)) /\ Cardinality(Before(d)) \in Nat
    BY <1>1, ExistingIsFinite DEF Position
  <2> HIDE DEF Before
  <2> QED BY <2>1, <2>2, ExistingIsFinite
<1>3. ASSUME NEW d \in Existing, NEW e \in Existing, Rank[d] < Rank[e]
      PROVE  Position(d) # Position(e)
  <2>1. Before(d) \in SUBSET Before(e) /\ d \in Before(e) /\ d \notin Before(d)
    BY <1>3, ListingAssumption DEF Existing
  <2>2. IsFiniteSet(Before(e))
    BY <1>1, ExistingIsFinite
  <2> HIDE DEF Before
  <2>3. Cardinality(Before(d)) # Cardinality(Before(e))
    BY <2>1, <2>2, FS_Subset
  <2> QED BY <2>3 DEF Position, Before
<1>4. \A d, e \in Existing : d # e => Rank[d] < Rank[e] \/ Rank[e] < Rank[d]
  BY ListingAssumption DEF IsInjective, Existing
<1> QED BY <1>2, <1>3, <1>4

\* Every position before the end has its document.
LEMMA DocumentAtPosition ==
  /\ \A n \in 0..(Cardinality(Existing) - 1) :
       DocumentAt(n) \in Existing /\ Position(DocumentAt(n)) = n
  /\ \A d \in Existing : DocumentAt(Position(d)) = d
<1> DEFINE size == Cardinality(Existing)
           all  == 0..(size - 1)
           taken == {Position(d) : d \in Existing}
<1>1. taken \in SUBSET all
  BY Positions
<1>2. size \in Nat /\ IsFiniteSet(all) /\ Cardinality(all) = size
  <2>1. size \in Nat
    BY ExistingIsFinite
  <2> HIDE DEF size
  <2> QED BY <2>1, FS_Interval
<1>3. Cardinality(taken) = size
  <2> DEFINE f == [d \in Existing |-> Position(d)]
  <2>1. f \in Bijection(Existing, taken)
    BY Positions DEF Bijection, Injection, Surjection, IsInjective
  <2>2. ExistsBijection(Existing, taken)
    BY <2>1 DEF ExistsBijection
  <2> QED BY <2>2, ExistingIsFinite, FS_Bijection, FS_SameCardinalityBij, <1>1, <1>2, FS_Subset
<1>4. taken = all
  BY <1>1, <1>2, <1>3, FS_Subset
<1>5. ASSUME NEW n \in all PROVE DocumentAt(n) \in Existing /\ Position(DocumentAt(n)) = n
  <2>1. \E d \in Existing : Position(d) = n
    BY <1>4
  <2> QED BY <2>1 DEF DocumentAt
<1>6. ASSUME NEW d \in Existing PROVE DocumentAt(Position(d)) = d
  <2>1. Position(d) \in all
    BY Positions
  <2> QED BY <1>5, <2>1, Positions
<1> QED BY <1>5, <1>6

\* A page is a sequence of documents that exist, and of what the corpus says of them;
LEMMA PageHolds ==
  ASSUME TypeOK, NEW k \in Nat
  PROVE  /\ Page(k) \in Seq(Entry)
         /\ \A i \in DOMAIN Page(k) :
              /\ Page(k)[i].doc \in Existing
              /\ Page(k)[i].size = ReportedSize(docs[Page(k)[i].doc])
<1> DEFINE left == Cardinality(Existing) - k * PageSize
           size == IF left < PageSize THEN left ELSE PageSize
<1>1. left \in Int /\ size \in Int /\ size <= left /\ k * PageSize \in Nat
  BY ExistingIsFinite, ListingAssumption
<1>2. \A i \in 1..size : k * PageSize + i - 1 \in 0..(Cardinality(Existing) - 1)
  BY <1>1, ExistingIsFinite
<1>3. \A i \in 1..size : DocumentAt(k * PageSize + i - 1) \in Existing
  BY <1>2, DocumentAtPosition
<1>4. Page(k) = [i \in 1..size |-> [doc  |-> DocumentAt(k * PageSize + i - 1),
                                    size |-> ReportedSize(docs[DocumentAt(k * PageSize + i - 1)])]]
  BY DEF Page
<1>5. \A d \in Existing : d \in DocIds /\ docs[d] \in Document
  BY DEF Existing, TypeOK
<1> HIDE DEF size
<1>6. \A i \in 1..size : Page(k)[i] \in Entry
  BY <1>3, <1>4, <1>5 DEF Entry
<1>7. DOMAIN Page(k) = 1..size /\ Page(k) \in [1..size -> Entry]
  BY <1>4, <1>6
<1>8. Page(k) \in Seq(Entry)
  <2>1. CASE size \in Nat
    BY <1>7, <2>1
  <2>2. CASE size \notin Nat
    <3>1. 1..size = 1..0
      BY <1>1, <2>2
    <3>2. Page(k) \in [1..0 -> Entry]
      BY <1>7, <3>1
    <3> QED BY <3>2
  <2> QED BY <2>1, <2>2
<1> QED BY <1>3, <1>4, <1>7, <1>8

\* it holds the documents of its positions, and is short only if none are left.
LEMMA PageIsComplete ==
  ASSUME NEW k \in Nat, NEW d \in Existing, Position(d) >= k * PageSize
  PROVE  /\ Position(d) < (k + 1) * PageSize => \E i \in DOMAIN Page(k) : Page(k)[i].doc = d
         /\ Len(Page(k)) < PageSize => Position(d) < (k + 1) * PageSize
<1> DEFINE left == Cardinality(Existing) - k * PageSize
           size == IF left < PageSize THEN left ELSE PageSize
<1>1. Position(d) \in Nat /\ Position(d) < Cardinality(Existing)
  BY Positions, ExistingIsFinite
<1>2. /\ k * PageSize \in Nat /\ PageSize \in Nat \ {0} /\ Cardinality(Existing) \in Nat
      /\ (k + 1) * PageSize = k * PageSize + PageSize
  BY ListingAssumption, ExistingIsFinite
<1>3. left \in Nat \ {0} /\ size \in Nat \ {0}
  BY <1>1, <1>2
<1>4. Page(k) = [i \in 1..size |-> [doc  |-> DocumentAt(k * PageSize + i - 1),
                                    size |-> ReportedSize(docs[DocumentAt(k * PageSize + i - 1)])]]
  BY DEF Page
<1>5. ASSUME Position(d) < (k + 1) * PageSize PROVE \E i \in DOMAIN Page(k) : Page(k)[i].doc = d
  <2> DEFINE i == Position(d) - k * PageSize + 1
  <2>1. i \in 1..size /\ k * PageSize + i - 1 = Position(d)
    BY <1>1, <1>2, <1>5
  <2>2. DocumentAt(Position(d)) = d
    BY DocumentAtPosition
  <2> HIDE DEF i, size
  <2>3. Page(k)[i].doc = d /\ DOMAIN Page(k) = 1..size
    BY <1>4, <2>1, <2>2
  <2> QED BY <2>1, <2>3
<1>6. Len(Page(k)) = size
  <2> HIDE DEF size
  <2> QED BY <1>3, <1>4
<1>7. ASSUME Len(Page(k)) < PageSize PROVE Position(d) < (k + 1) * PageSize
  BY <1>1, <1>2, <1>6, <1>7
<1> QED BY <1>5, <1>7

-----------------------------------------------------------------------------
(* The mapping, under a sync run *)

\* The corpus leaves documents under their paths.
LEMMA CorpusKeepsPaths ==
  ASSUME TypeOK, CorpusStep
  PROVE  \A d \in DocIds : /\ docs'[d].path = docs[d].path
                           /\ docs'[d].status = "UNUSED" <=> docs[d].status = "UNUSED"
<1>1. PICK e \in DocIds : Ingest(e) \/ IngestFails(e) \/ BackofficeDelete(e)
  BY DEF CorpusStep
<1>2. /\ \A d \in DocIds \ {e} : docs'[d] = docs[d]
      /\ docs'[e].path = docs[e].path
      /\ docs[e].status # "UNUSED" /\ docs'[e].status # "UNUSED"
  BY <1>1 DEF Ingest, IngestFails, BackofficeDelete, TypeOK, Settled, Deleted, Document, Exists
<1> QED
  BY <1>2

\* An id that was handed out stays where it is.
PathsStay ==
  \A d \in DocIds :
    docs[d].status # "UNUSED" => docs'[d].status # "UNUSED" /\ docs'[d].path = docs[d].path

\* So does a handler, whose own requests are about its path.
LEMMA EffectNames ==
  ASSUME TypeOK, IdsAreNamed, NEW p \in Paths, LeadsHome(p),
         docs' = docs \/ TakesEffect(p) \/ CommitDocument(p)
  PROVE  IdsAreNamed' /\ PathsStay
<1>1. CASE docs' = docs
  BY <1>1 DEF IdsAreNamed, PathsStay
<1>2. ASSUME NEW e \in DocIds, docs[e].status = "UNUSED", docs' = [docs EXCEPT ![e] = Initialised(p)]
      PROVE  IdsAreNamed' /\ PathsStay
  BY <1>2 DEF IdsAreNamed, PathsStay, TypeOK, Initialised
<1>3. ASSUME NEW doc, docs' = [docs EXCEPT ![task[p].doc] = doc],
             doc = docs[task[p].doc] \/ (doc.path = docs[task[p].doc].path /\ doc.status # "UNUSED")
      PROVE  IdsAreNamed' /\ PathsStay
  <2>1. CASE task[p].doc = NoDoc
    BY <1>1, <1>3, <2>1, NoDocAssumption DEF TypeOK
  <2>2. CASE task[p].doc # NoDoc
    <3>1. task[p].doc \in DocIds /\ docs[task[p].doc].status # "UNUSED"
      BY <2>2, NoPathAssumption DEF TypeOK, Task, MaybeDoc, LeadsHome, Leads, IdsAreNamed
    <3> QED BY <1>3, <3>1 DEF IdsAreNamed, PathsStay, TypeOK
  <2> QED BY <2>1, <2>2
<1>4. ASSUME NEW doc \in Document, NEW bytes
      PROVE  /\ Reinitialised(doc).path = doc.path /\ Reinitialised(doc).status # "UNUSED"
             /\ Deleted(doc).path = doc.path /\ Deleted(doc).status # "UNUSED"
             /\ Committed(doc) = doc \/ (Committed(doc).path = doc.path /\ Committed(doc).status # "UNUSED")
             /\ \/ WithBytes(doc, bytes) = doc
                \/ WithBytes(doc, bytes).path = doc.path /\ WithBytes(doc, bytes).status # "UNUSED"
  BY DEF Document, Reinitialised, Deleted, Committed, WithBytes, Exists
<1>5. CASE task[p].doc \in DocIds
  <2>1. docs[task[p].doc] \in Document
    BY <1>5 DEF TypeOK
  <2> QED BY <1>1, <1>2, <1>3, <1>4, <2>1 DEF TakesEffect, CommitDocument
<1>6. CASE task[p].doc \notin DocIds
  <2>1. docs' = docs \/ \E e \in DocIds :
          docs[e].status = "UNUSED" /\ docs' = [docs EXCEPT ![e] = Initialised(p)]
    BY <1>6 DEF TakesEffect, CommitDocument, TypeOK
  <2> QED BY <1>1, <1>2, <2>1
<1> QED
  BY <1>5, <1>6

\* The ids it writes into its row or keeps in hand are of its path.
LEMMA HandlerNames ==
  ASSUME TypeOK, IdsAreNamed, NEW p \in Paths, LeadsHome(p),
         Work(p) \/ CallFails(p) \/ CallRetried(p)
  PROVE  /\ IdsAreNamed' /\ PathsStay
         /\ \A q \in Paths \ {p} : rows'[q] = rows[q] /\ task'[q] = task[q]
         /\ \A d \in {rows'[p].doc, task'[p].doc} \ {NoDoc} :
              d \in {rows[p].doc, task[p].doc} \/ docs'[d].path = p
<1>1. \A q \in Paths \ {p} : rows'[q] = rows[q] /\ task'[q] = task[q]
  BY DEF TypeOK, Work, Start, StartUpload, StartReplace, StartResume, StartDelete, RecordScan,
     Call, InitUpload, ReinitUpload, ReinitRefused, Push, PushFails, CommitDocument,
     CommitDuplicate, CommitFails, Finalise, PollReady, PollTimesOut, PollFails, DeleteDocument,
     Store, StoreDocument, StorePending, StoreUploaded, StoreCommitted, StoreSyncedHash,
     MarkHash, MarkState, ForgetRow, Write, CallFails, CallRetried, Fail, Goto, GotoWith, EndTask
<1>2. docs' = docs \/ TakesEffect(p) \/ CommitDocument(p)
  BY DEF Work, Start, StartUpload, StartReplace, StartResume, StartDelete,
     Call, InitUpload, ReinitUpload, ReinitRefused, Push, PushFails,
     CommitDuplicate, CommitFails, Finalise, PollReady, PollTimesOut, PollFails, DeleteDocument,
     Store, StoreDocument, StorePending, StoreUploaded, StoreCommitted, StoreSyncedHash,
     MarkHash, MarkState, ForgetRow, Write, CallFails, CallRetried, TakesEffect
<1>3. rows[p] \in Row /\ task[p] \in Task
  BY DEF TypeOK
<1>4. /\ Upserted(rows[p]).doc = rows[p].doc /\ WithFailure(rows[p]).doc = rows[p].doc
      /\ \A x : WithSyncState(rows[p], x).doc = rows[p].doc
      /\ \A x : WithSyncedHash(rows[p], x).doc = rows[p].doc
      /\ WithDocumentId(rows[p], task[p].doc).doc = task[p].doc
      /\ NoRow.doc = NoDoc /\ NoTask.doc = NoDoc
  BY <1>3 DEF Row, Upserted, WithFailure, WithSyncState, WithSyncedHash, WithDocumentId, NoRow, NoTask
<1>5. ASSUME NEW t, \/ t = NoTask \/ \E pc : t = [task[p] EXCEPT !.pc = pc]
                    \/ \E pc : t = [task[p] EXCEPT !.pc = pc, !.doc = rows[p].doc]
      PROVE  t.doc \in {task[p].doc, rows[p].doc, NoDoc}
  BY <1>3, <1>4, <1>5 DEF Task
<1>6. CASE Start(p)
  <2>1. StartsAt(p)
    BY <1>6, StartTable
  <2>2. rows'[p].doc = rows[p].doc
    BY <1>4, <2>1 DEF StartsAt, Stores, Becomes
  <2>3. task'[p].doc \in {task[p].doc, rows[p].doc, NoDoc}
    BY <1>5, <2>1 DEF StartsAt, Stores, Becomes
  <2> QED BY <1>1, <1>2, <2>2, <2>3, EffectNames
<1>7. CASE Store(p)
  <2>1. StoresAt(p)
    BY <1>7, StoreTable
  <2>2. rows'[p].doc \in {rows[p].doc, task[p].doc, NoDoc}
    BY <1>4, <2>1 DEF StoresAt, Stores, Becomes
  <2>3. task'[p].doc \in {task[p].doc, rows[p].doc, NoDoc}
    BY <1>5, <2>1 DEF StoresAt, Stores, Becomes
  <2> QED BY <1>1, <1>2, <2>2, <2>3, EffectNames
<1>8. CASE InitUpload(p)
  <2>1. PICK e \in DocIds :
          docs' = [docs EXCEPT ![e] = Initialised(p)] /\ GotoWith(p, "storeDocument", e)
    BY <1>8 DEF InitUpload
  <2>2. docs'[e].path = p /\ task'[p].doc = e /\ rows' = rows
    BY <1>3, <1>8, <2>1 DEF InitUpload, TypeOK, Initialised, GotoWith, Task
  <2> QED BY <1>1, <1>2, <2>2, EffectNames
<1>9. CASE CallFails(p) \/ CallRetried(p) \/ (Call(p) /\ ~InitUpload(p))
  <2>1. rows'[p].doc = rows[p].doc
    <3>1. rows' = rows \/ Fail(p) \/ rows' = [rows EXCEPT ![p] = WithSyncedHash(rows[p], NoContent)]
      BY <1>9 DEF Call, ReinitUpload, ReinitRefused, Push, PushFails, CommitDocument,
         CommitDuplicate, CommitFails, Finalise, PollReady, PollTimesOut, PollFails, DeleteDocument,
         CallFails, CallRetried
    <3> QED BY <1>4, <3>1 DEF Fail, TypeOK
  <2>2. task'[p].doc \in {task[p].doc, rows[p].doc, NoDoc}
    <3>1. \/ task' = task \/ Fail(p) \/ EndTask(p) \/ GotoWith(p, "init", NoDoc)
          \/ \E pc : Goto(p, pc)
      BY <1>9 DEF Call, ReinitUpload, ReinitRefused, Push, PushFails, CommitDocument,
         CommitDuplicate, CommitFails, Finalise, PollReady, PollTimesOut, PollFails, DeleteDocument,
         CallFails, CallRetried
    <3>2. CASE task' = task
      BY <3>2
    <3>3. CASE Fail(p) \/ EndTask(p) \/ GotoWith(p, "init", NoDoc)
      BY <1>3, <1>4, <3>3 DEF Fail, GotoWith, EndTask, TypeOK, Task
    <3>4. ASSUME NEW pc, Goto(p, pc) PROVE task'[p].doc = task[p].doc
      BY <1>3, <3>4 DEF Goto, TypeOK, Task
    <3> QED BY <3>1, <3>2, <3>3, <3>4
  <2> QED BY <1>1, <1>2, <2>1, <2>2, EffectNames
<1> QED
  BY <1>6, <1>7, <1>8, <1>9 DEF Work

\* The ids in rows stay with the file they name as long as the handlers of a run see to it.
LEMMA NextNamed ==
  ASSUME TypeOK, Due, IdsAreNamed, \A p \in Paths : LeadsHome(p), links' = links, [Next]_vars
  PROVE  IdsAreNamed' /\ \A p \in Paths : LeadsHome(p)'
<1>1. \A q \in Paths : \A d \in {rows[q].doc, task[q].doc} \ {NoDoc} :
        d \in DocIds /\ docs[d].status # "UNUSED" /\ Leads(d, q)
  BY NoPathAssumption DEF TypeOK, Row, Task, MaybeDoc, LeadsHome, Leads, IdsAreNamed
<1>2. ASSUME PathsStay, NEW q \in Paths,
             \A d \in {rows'[q].doc, task'[q].doc} \ {NoDoc} :
               d \in {rows[q].doc, task[q].doc} \/ docs'[d].path = q
      PROVE  LeadsHome(q)'
  BY <1>1, <1>2 DEF PathsStay, LeadsHome, Leads
<1>3. ASSUME NEW p \in Paths, Work(p) \/ CallFails(p) \/ CallRetried(p)
      PROVE  IdsAreNamed' /\ \A q \in Paths : LeadsHome(q)'
  <2>1. /\ IdsAreNamed' /\ PathsStay
        /\ \A q \in Paths \ {p} : rows'[q] = rows[q] /\ task'[q] = task[q]
        /\ \A d \in {rows'[p].doc, task'[p].doc} \ {NoDoc} :
             d \in {rows[p].doc, task[p].doc} \/ docs'[d].path = p
    BY <1>3, HandlerNames
  <2> QED BY <1>2, <2>1
<1>4. ASSUME UNCHANGED <<rows, docs>>, \A q \in Paths : Replans(q)
      PROVE  IdsAreNamed' /\ \A q \in Paths : LeadsHome(q)'
  BY <1>2, <1>4, ReplannedTask DEF IdsAreNamed, PathsStay
<1>5. CASE PlanStep
  BY <1>4, <1>5, PlanTable
<1>6. CASE UNCHANGED vars \/ \E p \in Paths : Edit(p)
  BY <1>4, <1>6 DEF vars, Edit, Replans
<1>7. CASE CorpusStep
  <2>1. UNCHANGED <<rows, task>>
    BY <1>7, CorpusTable
  <2>2. IdsAreNamed' /\ PathsStay
    BY <1>7, CorpusKeepsPaths DEF IdsAreNamed, PathsStay
  <2> QED BY <1>2, <2>1, <2>2
<1> QED
  BY <1>3, <1>5, <1>6, <1>7, Steps

-----------------------------------------------------------------------------
(* The steps of a rebuild *)

JobStep == LoseDatabase \/ StartRebuild \/ RebuildStep \/ SkipUnreadable \/ RebuildDies

\* The steps that are none of a rebuild are steps of the sync job; while one is under
\* way, only the user and the corpus take them.
LEMMA RecoverySteps ==
  ASSUME [RecoveryNext]_allVars
  PROVE  \/ JobStep
         \/ [Next]_vars /\ UNCHANGED jobVars
  BY DEF RecoveryNext, JobStep, SyncStep, Meanwhile, Next, allVars, jobVars

LEMMA Around ==
  ASSUME [RecoveryNext]_allVars, ~JobStep
  PROVE  /\ Rebuilding => CorpusStep \/ UNCHANGED vars \/
              \E p \in Paths : Edit(p) /\ EditWhen = "anytime"
         /\ Careful /\ rebuild.pc # "off" => CorpusStep \/ UNCHANGED vars \/ \E p \in Paths : Edit(p)
  BY DEF RecoveryNext, JobStep, SyncStep, Meanwhile, CorpusStep, allVars, Rebuilding, Next

\* None of its steps is taken during a run, or touches anything but rows.
LEMMA JobFrame ==
  ASSUME TypeOK, RebuildIsAlone, JobStep
  PROVE  /\ UNCHANGED <<docs, task, planVars, disk, vanished, edits, links>>
         /\ phase = "idle" /\ mishaps' \in 0..MaxMishaps
<1> USE DEF planVars, environment, vars, Mishap
<1>1. CASE LoseDatabase \/ StartRebuild
  BY <1>1 DEF LoseDatabase, StartRebuild, Quiet, TypeOK
<1>2. CASE RebuildStep
  <2>1. Rebuilding /\ UNCHANGED <<docs, task, planVars, environment, links>>
    BY <1>2 DEF RebuildStep, ListPage, SkipOutside, SkipMissing, RestoreRow, RestoreDocument,
       RestoreRefused, RestoreHash, RestoreState, EndRebuild, AtDocument, Rebuilding
  <2> QED BY <2>1 DEF RebuildIsAlone, TypeOK
<1>3. CASE SkipUnreadable \/ RebuildDies
  BY <1>3, EnvironmentAssumption DEF SkipUnreadable, RebuildDies, AtDocument, Rebuilding, RebuildIsAlone, TypeOK
<1> QED BY <1>1, <1>2, <1>3 DEF JobStep

\* The document at hand is one of the corpus, and its path one of the tree.
LEMMA AtHand ==
  ASSUME MappingInv, rebuild.listed # <<>>
  PROVE  /\ 1 \in DOMAIN rebuild.listed /\ Current = rebuild.listed[1]
         /\ Current.doc \in DocIds /\ docs[Current.doc].status # "UNUSED"
         /\ FullPath = docs[Current.doc].path /\ FullPath \in Paths
         /\ Target = links[FullPath] /\ Target \in Paths \cup {Outside}
<1>1. rebuild.listed \in Seq(Entry)
  BY DEF MappingInv, RebuildType
<1>2. 1 \in DOMAIN rebuild.listed /\ Current = rebuild.listed[1] /\ Current \in Entry
  BY <1>1 DEF Current
<1>3. Current.doc \in DocIds /\ docs[Current.doc].status # "UNUSED"
  BY <1>2 DEF Entry, MappingInv, RebuildIsAlone
<1>4. FullPath = docs[Current.doc].path /\ FullPath \in Paths /\ Target = links[FullPath]
  BY <1>3 DEF MappingInv, IdsAreNamed, FullPath, Target
<1>5. links \in [Paths -> Paths \cup {Outside}]
  BY LinksAssumption DEF MappingInv
<1> QED BY <1>2, <1>3, <1>4, <1>5

Restores == RestoreRow \/ RestoreDocument \/ RestoreHash \/ RestoreState

\* Only a document that leads into the tree is restored.
LEMMA RestoresInside ==
  ASSUME MappingInv, Restores
  PROVE  /\ rebuild.listed # <<>> /\ Target \in Paths
         /\ RestoreRow \/ Restoring
<1>1. Restoring => rebuild.listed # <<>> /\ Target \in Paths
  BY DEF MappingInv, RebuildIsAlone
<1>2. RestoreRow => rebuild.listed # <<>> /\ Target # Outside
  BY DEF RestoreRow, AtDocument
<1>3. RestoreRow \/ Restoring
  BY DEF Restores, RestoreDocument, RestoreHash, RestoreState, Restoring
<1> QED BY <1>1, <1>2, <1>3, AtHand

\* The documents that are left when it is done with,
LEMMA LeftOver ==
  ASSUME MappingInv, rebuild.listed # <<>>
  PROVE  /\ Tail(rebuild.listed) \in Seq(Entry)
         /\ \A i \in DOMAIN Tail(rebuild.listed) :
              i + 1 \in DOMAIN rebuild.listed /\ Tail(rebuild.listed)[i] = rebuild.listed[i + 1]
         /\ \A i \in DOMAIN rebuild.listed \ {1} :
              i - 1 \in DOMAIN Tail(rebuild.listed) /\ Tail(rebuild.listed)[i - 1] = rebuild.listed[i]
<1>1. rebuild.listed \in Seq(Entry)
  BY DEF MappingInv, RebuildType
<1> QED BY <1>1

\* and those that are there when a page has been added.
LEMMA OnePageMore ==
  ASSUME MappingInv
  PROVE  LET page == Page(rebuild.page) all == rebuild.listed \o page IN
         /\ all \in Seq(Entry) /\ Len(page) \in Nat
         /\ \A i \in DOMAIN rebuild.listed : i \in DOMAIN all /\ all[i] = rebuild.listed[i]
         /\ \A i \in DOMAIN page : \E j \in DOMAIN all : all[j] = page[i]
         /\ \A i \in DOMAIN all :
              \/ i \in DOMAIN rebuild.listed /\ all[i] = rebuild.listed[i]
              \/ \E j \in DOMAIN page : all[i] = page[j]
<1> DEFINE page == Page(rebuild.page)
<1>1. rebuild.listed \in Seq(Entry) /\ page \in Seq(Entry)
  BY PageHolds DEF MappingInv, RebuildType
<1> HIDE DEF page
<1>2. /\ rebuild.listed \o page \in Seq(Entry) /\ Len(page) \in Nat
      /\ Len(rebuild.listed) \in Nat
      /\ Len(rebuild.listed \o page) = Len(rebuild.listed) + Len(page)
      /\ \A i \in 1..Len(rebuild.listed) : (rebuild.listed \o page)[i] = rebuild.listed[i]
      /\ \A i \in 1..Len(page) : (rebuild.listed \o page)[Len(rebuild.listed) + i] = page[i]
  BY <1>1
<1>3. \A i \in 1..(Len(rebuild.listed) + Len(page)) :
        i \in 1..Len(rebuild.listed) \/ i - Len(rebuild.listed) \in 1..Len(page)
  BY <1>2
<1>4. \A i \in 1..Len(page) : Len(rebuild.listed) + i \in 1..(Len(rebuild.listed) + Len(page))
  BY <1>2
<1>5. /\ DOMAIN rebuild.listed = 1..Len(rebuild.listed) /\ DOMAIN page = 1..Len(page)
      /\ DOMAIN (rebuild.listed \o page) = 1..(Len(rebuild.listed) + Len(page))
  BY <1>1, <1>2
<1>6. \A i \in DOMAIN rebuild.listed :
        i \in DOMAIN (rebuild.listed \o page) /\ (rebuild.listed \o page)[i] = rebuild.listed[i]
  BY <1>2, <1>5
<1>7. \A i \in DOMAIN page : \E j \in DOMAIN (rebuild.listed \o page) : (rebuild.listed \o page)[j] = page[i]
  BY <1>2, <1>4, <1>5
<1>8. ASSUME NEW i \in DOMAIN (rebuild.listed \o page)
      PROVE  \/ (rebuild.listed \o page)[i] = rebuild.listed[i] /\ i \in DOMAIN rebuild.listed
             \/ \E j \in DOMAIN page : (rebuild.listed \o page)[i] = page[j]
  <2>1. CASE i \in 1..Len(rebuild.listed)
    BY <1>2, <1>5, <2>1
  <2>2. CASE i - Len(rebuild.listed) \in 1..Len(page)
    <3>1. i = Len(rebuild.listed) + (i - Len(rebuild.listed))
      BY <1>2, <1>5
    <3> QED BY <1>2, <1>5, <2>2, <3>1
  <2> QED BY <1>3, <1>5, <2>1, <2>2
<1> QED BY <1>2, <1>6, <1>7, <1>8 DEF page

\* Where each step leaves the rebuild.
LEMMA Stages ==
  ASSUME RebuildType
  PROVE  /\ LoseDatabase \/ RebuildDies \/ RestoreRefused =>
              rebuild'.pc = "due" /\ rebuild'.listed = <<>>
         /\ StartRebuild =>
              rebuild'.pc = "list" /\ rebuild'.listed = <<>> /\ rebuild'.page = 0 /\ rows' = rows
         /\ EndRebuild => rebuild'.pc = "off"
         /\ SkipOutside \/ SkipMissing \/ SkipUnreadable \/ RestoreState =>
              rebuild'.pc = "next" /\ rebuild'.listed = Tail(rebuild.listed)
         /\ RestoreRow =>
              rebuild'.pc = "document" /\ rebuild'.listed = rebuild.listed /\ rebuild'.hash = disk[FullPath]
         /\ RestoreDocument =>
              rebuild'.pc = "hash" /\ rebuild'.listed = rebuild.listed /\ rebuild'.hash = rebuild.hash
         /\ RestoreHash =>
              rebuild'.pc = "state" /\ rebuild'.listed = rebuild.listed /\ rebuild'.hash = rebuild.hash
<1>1. LoseDatabase \/ RebuildDies \/ RestoreRefused =>
        rebuild'.pc = "due" /\ rebuild'.listed = <<>>
  BY DEF LoseDatabase, RebuildDies, RestoreRefused, DueRebuild, NoRebuild
<1>2. StartRebuild =>
        rebuild'.pc = "list" /\ rebuild'.listed = <<>> /\ rebuild'.page = 0 /\ rows' = rows
  BY DEF StartRebuild, NoRebuild, vars
<1>3. EndRebuild => rebuild'.pc = "off"
  BY DEF EndRebuild, NoRebuild
<1>4. NextDocument => rebuild'.pc = "next" /\ rebuild'.listed = Tail(rebuild.listed)
  <2>1. \A t : [rebuild EXCEPT !.pc = "next", !.listed = t].pc = "next"
               /\ [rebuild EXCEPT !.pc = "next", !.listed = t].listed = t
    BY DEF RebuildType
  <2> QED BY <2>1 DEF NextDocument
<1>5. RestoreRow =>
        rebuild'.pc = "document" /\ rebuild'.listed = rebuild.listed /\ rebuild'.hash = disk[FullPath]
  <2>1. \A h : LET r == [rebuild EXCEPT !.pc = "document", !.hash = h]
               IN  r.pc = "document" /\ r.listed = rebuild.listed /\ r.hash = h
    BY DEF RebuildType
  <2> QED BY <2>1 DEF RestoreRow
<1>6. \A pc : rebuild' = [rebuild EXCEPT !.pc = pc] =>
        rebuild'.pc = pc /\ rebuild'.listed = rebuild.listed /\ rebuild'.hash = rebuild.hash
  BY DEF RebuildType
<1>7. SkipOutside \/ SkipMissing \/ SkipUnreadable \/ RestoreState => NextDocument
  BY DEF SkipOutside, SkipMissing, SkipUnreadable, RestoreState
<1>8. /\ RestoreDocument => rebuild' = [rebuild EXCEPT !.pc = "hash"]
      /\ RestoreHash => rebuild' = [rebuild EXCEPT !.pc = "state"]
  BY DEF RestoreDocument, RestoreHash
<1> QED BY <1>1, <1>2, <1>3, <1>4, <1>5, <1>6, <1>7, <1>8

\* What a step writes into the row of the document at hand.
Restored(row) ==
  {Upserted(row), WithDocumentId(row, Current.doc)}
    \cup {WithSyncedHash(row, h) : h \in {rebuild.hash, NoContent}}
    \cup {WithSyncState(row, s) : s \in {"SYNCED", "NEW"}}

LEMMA RowTable ==
  ASSUME MappingInv, JobStep
  PROVE  \/ rows' = rows
         \/ LoseDatabase /\ rows' = [p \in Paths |-> NoRow]
         \/ /\ rebuild.listed # <<>> /\ Target \in Paths
            /\ \E row \in Restored(rows[Target]) : rows' = [rows EXCEPT ![Target] = row]
<1>1. CASE LoseDatabase
  BY <1>1 DEF LoseDatabase
<1>2. CASE StartRebuild \/ SkipOutside \/ SkipUnreadable \/ RebuildDies \/ RestoreRefused \/ ListPage
           \/ SkipMissing \/ EndRebuild
  BY <1>2 DEF StartRebuild, SkipOutside, SkipUnreadable, RebuildDies, RestoreRefused, ListPage,
     SkipMissing, EndRebuild, vars
<1>3. CASE Restores
  <2>1. \E row \in Restored(rows[Target]) : rows' = [rows EXCEPT ![Target] = row]
    BY <1>3 DEF Restores, RestoreRow, RestoreDocument, RestoreHash, RestoreState, Restored
  <2> QED BY <1>3, <2>1, RestoresInside
<1> QED BY <1>1, <1>2, <1>3 DEF JobStep, RebuildStep, Restores

\* The rows stay rows, whose ids name documents of their files.
LEMMA RestoredRows ==
  ASSUME MappingInv, JobStep
  PROVE  /\ rows' \in [Paths -> Row]
         /\ \A p \in Paths : rows'[p].doc # NoDoc => Leads(rows'[p].doc, p)
<1>1. /\ rows \in [Paths -> Row] /\ rebuild.hash \in MaybeContent
      /\ \A p \in Paths : rows[p].doc # NoDoc => Leads(rows[p].doc, p)
  BY DEF MappingInv, TypeOK, LeadsHome, RebuildType
<1>2. CASE rows' = rows
  BY <1>1, <1>2
<1>3. CASE rows' = [p \in Paths |-> NoRow]
  BY <1>3 DEF NoRow, Row, SyncState, MaybeDoc, MaybeContent
<1>4. ASSUME rebuild.listed # <<>>, Target \in Paths, NEW row \in Restored(rows[Target]),
             rows' = [rows EXCEPT ![Target] = row]
      PROVE  /\ rows' \in [Paths -> Row]
             /\ \A p \in Paths : rows'[p].doc # NoDoc => Leads(rows'[p].doc, p)
  <2>1. Current.doc \in DocIds /\ Leads(Current.doc, Target)
    BY <1>4, AtHand DEF Leads
  <2>2. row \in Row /\ row.doc \in {rows[Target].doc, Current.doc}
    BY <1>1, <1>4, <2>1 DEF Restored, Upserted, WithDocumentId, WithSyncedHash, WithSyncState, Row,
       SyncState, MaybeDoc, MaybeContent
  <2>3. row.doc # NoDoc => Leads(row.doc, Target)
    BY <1>1, <1>4, <2>1, <2>2
  <2> QED BY <1>1, <1>4, <2>2, <2>3
<1> QED BY <1>2, <1>3, <1>4, RowTable

\* The rebuild stays in its type, and lists documents that were handed out.
LEMMA RebuildGoesOn ==
  ASSUME MappingInv, JobStep
  PROVE  RebuildType' /\ RebuildIsAlone'
<1> USE DEF RebuildType, RebuildIsAlone, Rebuilding, Restoring
<1>1. docs' = docs /\ links' = links /\ phase' = phase /\ phase = "idle"
  BY JobFrame DEF planVars, MappingInv
<1>2. /\ rebuild \in [pc: {"off", "due", "list", "next", "document", "hash", "state"}, page: Nat,
                      listed: Seq(Entry), hash: MaybeContent]
      /\ \A i \in DOMAIN rebuild.listed : docs[rebuild.listed[i].doc].status # "UNUSED"
      /\ \A p \in Paths : disk[p] \in MaybeContent
  BY DEF MappingInv, TypeOK
<1>3. ASSUME NEW pc \in {"off", "due", "list"}, rebuild' = [NoRebuild EXCEPT !.pc = pc]
      PROVE  RebuildType' /\ RebuildIsAlone'
  <2>1. rebuild' = [pc |-> pc, page |-> 0, listed |-> <<>>, hash |-> NoContent]
    BY <1>3 DEF NoRebuild
  <2>2. RebuildType'
    BY <2>1 DEF MaybeContent
  <2>3. DOMAIN rebuild'.listed = {} /\ rebuild'.listed = <<>> /\ rebuild'.pc = pc
    BY <2>1
  <2> QED BY <1>1, <2>2, <2>3
<1>4. CASE LoseDatabase \/ StartRebuild \/ RebuildDies \/ RestoreRefused \/ EndRebuild
  <2>1. NoRebuild = [NoRebuild EXCEPT !.pc = "off"]
    BY DEF NoRebuild
  <2> QED BY <1>3, <1>4, <2>1 DEF LoseDatabase, StartRebuild, RebuildDies, RestoreRefused, EndRebuild,
           DueRebuild
<1>5. CASE ListPage
  <2> DEFINE page == Page(rebuild.page)
  <2>1. rebuild.listed \o page \in Seq(Entry)
    BY OnePageMore
  <2>2. \A i \in DOMAIN page : docs[page[i].doc].status # "UNUSED"
    BY <1>2, PageHolds DEF MappingInv, Existing, Exists
  <2>3. \A i \in DOMAIN (rebuild.listed \o page) :
          docs[(rebuild.listed \o page)[i].doc].status # "UNUSED"
    BY <1>2, <2>2, OnePageMore
  <2>4. PICK pc \in {"next", "list"} :
          rebuild' = [rebuild EXCEPT !.listed = rebuild.listed \o page, !.page = rebuild.page + 1, !.pc = pc]
    BY <1>5 DEF ListPage
  <2> HIDE DEF page
  <2>5. ASSUME NEW all \in Seq(Entry), NEW n \in Nat,
               rebuild' = [rebuild EXCEPT !.listed = all, !.page = n, !.pc = pc]
        PROVE  RebuildType' /\ rebuild'.listed = all /\ rebuild'.pc \in {"next", "list"}
    BY <1>2, <2>5
  <2>6. RebuildType' /\ rebuild'.listed = rebuild.listed \o page /\ rebuild'.pc \in {"next", "list"}
    <3>1. rebuild.page + 1 \in Nat
      BY <1>2
    <3> QED BY <2>1, <2>4, <2>5, <3>1
  <2> QED BY <1>1, <2>3, <2>6
<1>6. CASE NextDocument /\ rebuild.listed # <<>>
  <2>1. /\ rebuild'.listed = Tail(rebuild.listed) /\ rebuild'.pc = "next"
        /\ Tail(rebuild.listed) \in Seq(Entry)
    BY <1>2, <1>6, LeftOver DEF NextDocument
  <2>2. RebuildType'
    BY <1>2, <1>6, <2>1 DEF NextDocument
  <2>3. \A i \in DOMAIN Tail(rebuild.listed) : docs[Tail(rebuild.listed)[i].doc].status # "UNUSED"
    BY <1>2, <1>6, LeftOver
  <2> QED BY <1>1, <2>1, <2>2, <2>3
<1>7. CASE RestoreRow \/ RestoreDocument \/ RestoreHash
  <2>1. rebuild.listed # <<>> /\ Target \in Paths
    BY <1>7, RestoresInside DEF Restores
  <2>2. FullPath \in Paths
    BY <2>1, AtHand
  <2>3. \E pc \in {"document", "hash", "state"}, hash \in MaybeContent :
          rebuild' = [rebuild EXCEPT !.pc = pc, !.hash = hash]
    <3>1. CASE RestoreRow
      BY <1>2, <2>2, <3>1 DEF RestoreRow
    <3>2. CASE RestoreDocument \/ RestoreHash
      <4>1. \E pc \in {"hash", "state"} : rebuild' = [rebuild EXCEPT !.pc = pc]
        BY <3>2 DEF RestoreDocument, RestoreHash
      <4>2. \A pc : [rebuild EXCEPT !.pc = pc] = [rebuild EXCEPT !.pc = pc, !.hash = rebuild.hash]
        BY <1>2
      <4> QED BY <1>2, <4>1, <4>2
    <3> QED BY <1>7, <3>1, <3>2
  <2>4. /\ RebuildType' /\ rebuild'.listed = rebuild.listed
        /\ rebuild'.pc \in {"document", "hash", "state"}
    BY <1>2, <2>3
  <2>5. Target' = Target
    BY <1>1, <2>4 DEF Target, FullPath, Current
  <2> QED BY <1>1, <1>2, <2>1, <2>4, <2>5
<1>8. CASE SkipOutside \/ SkipMissing \/ SkipUnreadable \/ RestoreState
  BY <1>6, <1>8 DEF SkipOutside, SkipMissing, SkipUnreadable, RestoreState, AtDocument, MappingInv
<1> QED BY <1>4, <1>5, <1>7, <1>8 DEF JobStep, RebuildStep

LEMMA JobMapping == ASSUME MappingInv, JobStep PROVE MappingInv'
<1>1. /\ UNCHANGED <<docs, task, planVars, disk, vanished, edits, links>>
      /\ phase = "idle" /\ mishaps' \in 0..MaxMishaps
  BY JobFrame DEF MappingInv
<1>2. TypeOK'
  BY <1>1, RestoredRows DEF MappingInv, TypeOK, planVars
<1>3. \A p \in Paths : LeadsHome(p)'
  BY <1>1, RestoredRows DEF MappingInv, LeadsHome, Leads
<1>4. Due'
  BY <1>1 DEF MappingInv, Due, DeletionIsDue, IsDeletion, planVars
<1>5. IdsAreNamed' /\ links' \in LinkTrees
  BY <1>1 DEF MappingInv, IdsAreNamed
<1> QED BY <1>2, <1>3, <1>4, <1>5, RebuildGoesOn DEF MappingInv

LEMMA InitMapping == ASSUME RecoveryInit PROVE MappingInv
<1>1. TypeOK /\ Due
  BY InitType, InitDue DEF RecoveryInit
<1>2. IdsAreNamed /\ links \in LinkTrees /\ \A p \in Paths : LeadsHome(p)
  BY DEF RecoveryInit, Init, IdsAreNamed, UnusedDocument, LeadsHome, NoRow, NoTask
<1>3. RebuildType /\ RebuildIsAlone
  BY DEF RecoveryInit, NoRebuild, RebuildType, RebuildIsAlone, Rebuilding, Restoring, MaybeContent
<1> QED BY <1>1, <1>2, <1>3 DEF MappingInv

LEMMA NextMapping == ASSUME MappingInv, [RecoveryNext]_allVars PROVE MappingInv'
<1>1. CASE JobStep
  BY <1>1, JobMapping
<1>2. CASE ~JobStep
  <2>1. [Next]_vars /\ UNCHANGED jobVars
    BY <1>2, RecoverySteps
  <2>2. /\ TypeOK' /\ Due' /\ IdsAreNamed' /\ links' \in LinkTrees
        /\ \A p \in Paths : LeadsHome(p)'
    BY <2>1, NextType, NextDue, NextNamed DEF MappingInv, jobVars
  <2>3. RebuildType'
    BY <2>1 DEF jobVars, MappingInv, RebuildType
  <2>4. CASE Rebuilding
    <3>1. CorpusStep \/ UNCHANGED vars \/ \E p \in Paths : Edit(p)
      BY <1>2, <2>4, Around
    <3>2. phase' = phase
      BY <3>1 DEF CorpusStep, Ingest, IngestFails, BackofficeDelete, Edit, vars, planVars
    <3>3. \A d \in DocIds : /\ docs[d].status # "UNUSED" => docs'[d].status # "UNUSED"
                            /\ docs'[d].path = docs[d].path
      BY <3>1, CorpusKeepsPaths DEF Edit, vars, MappingInv
    <3>4. \A i \in DOMAIN rebuild.listed : rebuild.listed[i].doc \in DocIds
      <4>1. \A i \in DOMAIN rebuild.listed : rebuild.listed[i] \in Entry
        BY DEF MappingInv, RebuildType
      <4> QED BY <4>1 DEF Entry
    <3>5. rebuild.listed # <<>> => Target' = Target
      BY <2>1, <3>3, AtHand DEF Target, FullPath, Current, jobVars
    <3> QED BY <2>1, <2>2, <2>3, <2>4, <3>2, <3>3, <3>4, <3>5 DEF MappingInv, RebuildIsAlone,
             Rebuilding, Restoring, jobVars
  <2>5. CASE ~Rebuilding
    BY <2>1, <2>2, <2>3, <2>5 DEF MappingInv, RebuildIsAlone, Rebuilding, Restoring, jobVars
  <2> QED BY <2>4, <2>5
<1> QED BY <1>1, <1>2

\* Whatever is lost, wherever the links lead, however the rebuilds interleave with runs,
\* edits and deletions.
THEOREM MappingInvAlways == RecoverySpec => []MappingInv
  BY InitMapping, NextMapping, PTL DEF RecoverySpec

\* The document id in a row names a document of that row's file, filed under its path or
\* under a link to it, across every loss of the database and every rebuild, also one over
\* a database that is intact.
THEOREM MappingSurvivesRecovery == RecoverySpec => []MappingLeadsToFile
<1>1. MappingInv => MappingLeadsToFile
  BY DEF MappingInv, LeadsHome, Leads, MappingLeadsToFile
<1> QED
  BY <1>1, MappingInvAlways, PTL

-----------------------------------------------------------------------------
(* The listing, when nobody deletes documents *)

NoDeletions == "backoffice" \notin Faults

\* While a rebuild reads and restores, the corpus neither gains nor loses a document.
LEMMA ExistingStays ==
  ASSUME MappingInv, NoDeletions, Rebuilding, [RecoveryNext]_allVars
  PROVE  /\ \A d \in DocIds : (Exists(docs'[d]) <=> Exists(docs[d])) /\ docs'[d].path = docs[d].path
         /\ Existing' = Existing
         /\ \A d \in DocIds : Position(d)' = Position(d)
<1>1. docs' = docs \/ CorpusStep
  BY JobFrame, Around DEF MappingInv, Edit, vars
<1>2. \A d \in DocIds : (Exists(docs'[d]) <=> Exists(docs[d])) /\ docs'[d].path = docs[d].path
  <2>1. CASE CorpusStep
    <3>1. \A d \in DocIds : docs'[d] = docs[d] \/ (Exists(docs'[d]) /\ Exists(docs[d]))
      BY <2>1, CorpusTable DEF MappingInv, NoDeletions, Exists
    <3> QED BY <2>1, <3>1, CorpusKeepsPaths DEF MappingInv
  <2> QED BY <1>1, <2>1
<1>3. Existing' = Existing
  BY <1>2 DEF Existing
<1> QED BY <1>2, <1>3 DEF Position

\* A page more: the documents up to its end are listed, and if it is short these are all.
LEMMA PagesSoFar ==
  ASSUME MappingInv, ListingInv, ListPage
  PROVE  /\ \A d \in Existing : Position(d) < (rebuild.page + 1) * PageSize => IsListed(d)'
         /\ rebuild'.pc = "next" => \A d \in Existing : IsListed(d)'
         /\ rebuild'.page = rebuild.page + 1
<1> DEFINE page == Page(rebuild.page)
<1>1. /\ rebuild'.listed = rebuild.listed \o page /\ rebuild'.page = rebuild.page + 1
      /\ rebuild'.pc = "next" => Len(page) < PageSize
      /\ rebuild.pc = "list" /\ rebuild.page \in Nat
  <2>1. \E pc : /\ rebuild' = [rebuild EXCEPT !.listed = @ \o page, !.page = @ + 1, !.pc = pc]
                /\ pc = "next" => Len(page) < PageSize
    BY DEF ListPage
  <2> HIDE DEF page
  <2> QED BY <2>1 DEF ListPage, MappingInv, RebuildType
<1>2. ASSUME NEW d \in Existing, Position(d) < (rebuild.page + 1) * PageSize PROVE IsListed(d)'
  <2>1. Position(d) \in Nat /\ rebuild.page * PageSize \in Nat
    BY <1>1, Positions, ExistingIsFinite, ListingAssumption
  <2>2. CASE Position(d) < rebuild.page * PageSize
    <3>1. PICK i \in DOMAIN rebuild.listed : rebuild.listed[i].doc = d
      BY <1>1, <2>2 DEF ListingInv, IsListed
    <3> QED BY <1>1, <3>1, OnePageMore DEF IsListed
  <2>3. CASE Position(d) >= rebuild.page * PageSize
    <3>1. PICK i \in DOMAIN page : page[i].doc = d
      BY <1>1, <1>2, <2>3, PageIsComplete
    <3>2. PICK j \in DOMAIN (rebuild.listed \o page) : (rebuild.listed \o page)[j] = page[i]
      BY OnePageMore
    <3> QED BY <1>1, <3>1, <3>2 DEF IsListed
  <2> QED BY <2>1, <2>2, <2>3
<1>3. ASSUME rebuild'.pc = "next", NEW d \in Existing PROVE IsListed(d)'
  <2>1. Position(d) \in Nat /\ rebuild.page * PageSize \in Nat
    BY <1>1, Positions, ExistingIsFinite, ListingAssumption
  <2>2. CASE Position(d) < rebuild.page * PageSize
    <3>1. PICK i \in DOMAIN rebuild.listed : rebuild.listed[i].doc = d
      BY <1>1, <2>2 DEF ListingInv, IsListed
    <3> QED BY <1>1, <3>1, OnePageMore DEF IsListed
  <2>3. CASE Position(d) >= rebuild.page * PageSize
    BY <1>1, <1>2, <1>3, <2>3, PageIsComplete
  <2> QED BY <2>1, <2>2, <2>3
<1> QED BY <1>1, <1>2, <1>3

LEMMA NextListing ==
  ASSUME MappingInv, NoDeletions, ListingInv, [RecoveryNext]_allVars
  PROVE  /\ ListingInv'
         /\ rebuild.pc = "list" /\ rebuild'.pc = "next" =>
              ListPage /\ \A d \in Existing : IsListed(d)'
<1> USE DEF Rebuilding
<1>1. CASE ListPage
  <2>1. rebuild.pc = "list"
    BY <1>1 DEF ListPage
  <2>2. ListingInv'
    BY <1>1, <2>1, PagesSoFar, ExistingStays DEF ListingInv, Existing
  <2> QED BY <1>1, <2>2, PagesSoFar
<1>2. CASE StartRebuild
  <2>1. rebuild' = [NoRebuild EXCEPT !.pc = "list"] /\ ~Rebuilding
    BY <1>2 DEF StartRebuild, Quiet
  <2>2. rebuild'.page = 0 /\ docs' = docs
    BY <1>2, <2>1 DEF NoRebuild, StartRebuild, vars
  <2>3. \A d \in Existing : ~(Position(d) < 0 * PageSize)
    BY Positions, ExistingIsFinite, ListingAssumption
  <2>4. ListingInv'
    BY <2>2, <2>3 DEF ListingInv, Existing, Position
  <2> QED BY <2>1, <2>4
<1>3. CASE ~ListPage /\ ~StartRebuild
  <2>1. CASE JobStep
    <3>1. rebuild.pc # "list" \/ rebuild'.pc = "due"
      <4>1. CASE LoseDatabase \/ RebuildDies \/ RestoreRefused
        BY <4>1, Stages DEF MappingInv
      <4>2. CASE SkipOutside \/ SkipMissing \/ SkipUnreadable \/ RestoreRow \/ RestoreDocument \/ RestoreHash
                 \/ RestoreState \/ EndRebuild
        BY <4>2 DEF SkipOutside, SkipMissing, SkipUnreadable, RestoreRow, RestoreDocument,
           RestoreHash, RestoreState, EndRebuild, AtDocument
      <4> QED BY <1>3, <2>1, <4>1, <4>2 DEF JobStep, RebuildStep
    <3>2. rebuild'.pc # "list"
      BY <1>3, <2>1, Stages DEF JobStep, RebuildStep, MappingInv
    <3> QED BY <3>1, <3>2 DEF ListingInv
  <2>2. CASE ~JobStep
    <3>1. rebuild' = rebuild
      BY <2>2, RecoverySteps DEF jobVars
    <3> QED BY <3>1, ExistingStays DEF ListingInv, IsListed, Existing
  <2> QED BY <2>1, <2>2
<1> QED BY <1>1, <1>2, <1>3

LEMMA InitListing == ASSUME RecoveryInit PROVE ListingInv
  BY DEF RecoveryInit, NoRebuild, ListingInv

\* However documents change between two pages, the pages read so far hold what comes first.
THEOREM ListingInvAlways == ASSUME NoDeletions PROVE RecoverySpec => []ListingInv
  BY InitListing, NextListing, MappingInvAlways, PTL DEF RecoverySpec

\* As long as nobody deletes documents, a listing that has come to its end has every
\* document of the corpus, whatever the size of its pages.
THEOREM ListingIsCompleteAlways == ASSUME NoDeletions PROVE RecoverySpec => ListingIsComplete
<1>1. MappingInv /\ ListingInv /\ [RecoveryNext]_allVars =>
        [rebuild.pc = "list" /\ rebuild'.pc = "next"
           => \A d \in DocIds :
                Exists(docs[d]) => \E i \in DOMAIN rebuild'.listed : rebuild'.listed[i].doc = d]_allVars
  BY NextListing DEF Existing, IsListed
<1> QED
  BY <1>1, MappingInvAlways, ListingInvAlways, PTL DEF RecoverySpec, ListingIsComplete

-----------------------------------------------------------------------------
(* The mapping after a rebuild that nothing disturbs *)

\* Nobody deletes documents, or edits the tree while a job is under way.
Undisturbed == NoDeletions /\ EditWhen # "anytime"

\* What a rebuild finds in the tree and in the corpus stays as it is.
LEMMA NothingElseMoves ==
  ASSUME MappingInv, Undisturbed, Rebuilding, [RecoveryNext]_allVars
  PROVE  /\ disk' = disk
         /\ ~JobStep => UNCHANGED <<rows, rebuild>>
         /\ \A d \in DocIds : (Exists(docs'[d]) <=> Exists(docs[d])) /\ docs'[d].path = docs[d].path
         /\ Existing' = Existing
         /\ rebuild'.listed # <<>> /\ Head(rebuild'.listed) = Current => Target' = Target
<1>1. CASE JobStep
  <2>1. docs' = docs /\ disk' = disk /\ links' = links
    BY <1>1, JobFrame DEF MappingInv
  <2> QED BY <1>1, <2>1 DEF Existing, Target, FullPath, Current
<1>2. CASE ~JobStep
  <2>1. rebuild' = rebuild /\ links' = links /\ (CorpusStep \/ UNCHANGED vars)
    BY <1>2, RecoverySteps, Around DEF jobVars, Undisturbed
  <2>2. rows' = rows /\ disk' = disk
    BY <2>1, CorpusTable DEF vars, MappingInv
  <2>3. rebuild.listed # <<>> => Target' = Target
    BY <2>1, ExistingStays, AtHand DEF Target, FullPath, Current, Undisturbed
  <2> QED BY <1>2, <2>1, <2>2, <2>3, ExistingStays DEF Undisturbed
<1> QED BY <1>1, <1>2

\* What is listed once the document at hand is done with.
LEMMA ListedApart ==
  ASSUME MappingInv, rebuild.listed # <<>>, rebuild'.listed = Tail(rebuild.listed)
  PROVE  /\ \A d : IsListed(d) => d = Current.doc \/ IsListed(d)'
         /\ \A i \in DOMAIN rebuild'.listed :
              \E j \in DOMAIN rebuild.listed : rebuild'.listed[i] = rebuild.listed[j]
<1>1. ASSUME NEW d, NEW i \in DOMAIN rebuild.listed, rebuild.listed[i].doc = d
      PROVE  d = Current.doc \/ IsListed(d)'
  <2>1. CASE i = 1
    BY <1>1, <2>1, AtHand
  <2>2. CASE i # 1
    BY <1>1, <2>2, LeftOver DEF IsListed
  <2> QED BY <2>1, <2>2
<1> QED BY <1>1, LeftOver DEF IsListed

LEMMA NextRestoring ==
  ASSUME MappingInv, Undisturbed, "unreadable" \notin Faults, ListingInv, RestoringInv,
         [RecoveryNext]_allVars
  PROVE  RestoringInv'
<1> USE DEF Rebuilding, Reading, Restoring, ListedExist
<1>1. CASE ~JobStep
  <2>1. rebuild' = rebuild
    BY <1>1, RecoverySteps DEF jobVars
  <2>2. CASE ~Rebuilding
    BY <2>1, <2>2 DEF RestoringInv
  <2>3. CASE Rebuilding
    <3>1. /\ rows' = rows /\ disk' = disk /\ Existing' = Existing
          /\ \A d \in DocIds : (Exists(docs'[d]) <=> Exists(docs[d])) /\ docs'[d].path = docs[d].path
          /\ rebuild.listed # <<>> => Target' = Target
      BY <1>1, <2>1, <2>3, NothingElseMoves DEF Current
    <3>2. \A i \in DOMAIN rebuild.listed : rebuild.listed[i].doc \in DocIds
      <4>1. \A i \in DOMAIN rebuild.listed : rebuild.listed[i] \in Entry
        BY DEF MappingInv, RebuildType
      <4> QED BY <4>1 DEF Entry
    <3>3. \A p \in Paths : rows[p].doc # NoDoc => rows[p].doc \in DocIds
      BY DEF MappingInv, TypeOK, Row, MaybeDoc
    <3>4. rebuild.pc \in {"hash", "state"} => rebuild.listed # <<>> /\ Target \in Paths
      BY DEF MappingInv, RebuildIsAlone
    <3>5. links' = links /\ \A d : IsListed(d)' <=> IsListed(d)
      BY <1>1, <2>1, RecoverySteps DEF IsListed, jobVars
    <3> QED BY <2>1, <3>1, <3>2, <3>3, <3>4, <3>5 DEF RestoringInv, Existing, Current
  <2> QED BY <2>2, <2>3
<1>2. CASE LoseDatabase \/ RebuildDies \/ RestoreRefused \/ StartRebuild \/ EndRebuild
  BY <1>2, Stages DEF RestoringInv, MappingInv
<1>3. CASE ListPage
  <2> DEFINE page == Page(rebuild.page)
  <2>1. /\ docs' = docs /\ rows' = rows /\ disk' = disk /\ rebuild.pc = "list"
        /\ Existing' = Existing
    BY <1>3 DEF ListPage, vars, Existing
  <2>2. rebuild'.listed = rebuild.listed \o page /\ rebuild'.pc \in {"list", "next"}
    <3>1. \E pc \in {"list", "next"} :
            rebuild' = [rebuild EXCEPT !.listed = @ \o page, !.page = @ + 1, !.pc = pc]
      BY <1>3 DEF ListPage
    <3> HIDE DEF page
    <3> QED BY <3>1 DEF MappingInv, RebuildType
  <2>3. \A i \in DOMAIN rebuild'.listed : Exists(docs[rebuild'.listed[i].doc])
    <3>1. rebuild.page \in Nat
      BY DEF MappingInv, RebuildType
    <3>2. \A i \in DOMAIN page : Exists(docs[page[i].doc])
      BY <3>1, PageHolds DEF MappingInv, Existing
    <3>3. \A i \in DOMAIN rebuild.listed : Exists(docs[rebuild.listed[i].doc])
      BY <2>1 DEF RestoringInv
    <3>4. \A i \in DOMAIN (rebuild.listed \o page) :
            \/ i \in DOMAIN rebuild.listed /\ (rebuild.listed \o page)[i] = rebuild.listed[i]
            \/ \E j \in DOMAIN page : (rebuild.listed \o page)[i] = page[j]
      BY OnePageMore
    <3> HIDE DEF page
    <3> QED BY <2>2, <3>2, <3>3, <3>4
  <2>4. rebuild'.pc = "next" => \A d \in Existing : IsListed(d)'
    BY <2>1, NextListing DEF Undisturbed
  <2> HIDE DEF page
  <2> QED BY <2>1, <2>2, <2>3, <2>4 DEF RestoringInv
<1>4. CASE SkipOutside \/ SkipMissing \/ RestoreState
  <2>1. /\ rebuild'.pc = "next" /\ rebuild'.listed = Tail(rebuild.listed) /\ rebuild.listed # <<>>
        /\ docs' = docs /\ disk' = disk /\ links' = links /\ Existing' = Existing /\ Reading
    BY <1>4, Stages, NothingElseMoves, JobFrame DEF MappingInv, RebuildIsAlone, SkipOutside,
       SkipMissing, RestoreState, AtDocument, JobStep, RebuildStep, Existing
  <2>2. Target = links[FullPath] /\ docs[Current.doc].path = FullPath /\ Current.doc \in DocIds
    BY <2>1, AtHand
  <2>3. \A p \in Paths : rows'[p].doc = rows[p].doc
    <3>1. CASE RestoreState
      <4>1. Target \in Paths /\ rows \in [Paths -> Row]
        BY <3>1, RestoresInside DEF Restores, MappingInv, TypeOK
      <4> QED BY <3>1, <4>1 DEF RestoreState, WithSyncState, Row
    <3> QED BY <1>4, <3>1 DEF SkipOutside, SkipMissing, vars
  <2>4. ASSUME NEW p \in Paths, links[p] = p, disk[p] # NoContent, FullPath = p
        PROVE  rows[p].doc # NoDoc /\ Exists(docs[rows[p].doc])
    <3>1. Target = p
      BY <2>2, <2>4
    <3>2. RestoreState
      BY <1>4, <2>4, <3>1, LinksAssumption DEF SkipOutside, SkipMissing
    <3>3. rows[p].doc = Current.doc
      BY <3>1, <3>2 DEF RestoreState, RestoringInv
    <3> QED BY <2>1, <2>2, <3>3, AtHand, NoDocAssumption DEF RestoringInv
  <2>5. \A i \in DOMAIN rebuild'.listed : Exists(docs[rebuild'.listed[i].doc])
    BY <2>1, ListedApart DEF RestoringInv
  <2>6. ASSUME NEW p \in Paths, NEW d \in Existing, links[p] = p, disk[p] # NoContent, docs[d].path = p
        PROVE  (rows[p].doc # NoDoc /\ Exists(docs[rows[p].doc])) \/ IsListed(d)'
    <3>1. (rows[p].doc # NoDoc /\ Exists(docs[rows[p].doc])) \/ IsListed(d)
      BY <2>1, <2>6 DEF RestoringInv
    <3> QED BY <2>1, <2>2, <2>4, <2>6, <3>1, ListedApart
  <2> QED BY <2>1, <2>3, <2>5, <2>6 DEF RestoringInv
<1>5. CASE RestoreRow \/ RestoreDocument \/ RestoreHash
  <2>1. /\ rebuild'.pc \in {"document", "hash", "state"} /\ rebuild'.listed = rebuild.listed
        /\ rebuild.listed # <<>> /\ Reading /\ Target \in Paths
        /\ rebuild'.pc \in {"hash", "state"} => RestoreDocument \/ rebuild.pc = "hash"
    BY <1>5, Stages, RestoresInside DEF Restores, MappingInv, RestoreRow, RestoreDocument, RestoreHash,
       AtDocument
  <2>2. docs' = docs /\ disk' = disk /\ links' = links /\ Existing' = Existing /\ Target' = Target
    BY <1>5, <2>1, NothingElseMoves, JobFrame DEF JobStep, RebuildStep, Current, MappingInv
  <2>3. Current.doc \in DocIds /\ Exists(docs[Current.doc])
    BY <2>1, AtHand DEF RestoringInv
  <2>4. /\ \A p \in Paths \ {Target} : rows'[p] = rows[p]
        /\ rows'[Target].doc = (IF RestoreDocument THEN Current.doc ELSE rows[Target].doc)
    BY <1>5, <2>1, Stages DEF RestoreRow, RestoreDocument, RestoreHash, Upserted, WithDocumentId,
       WithSyncedHash, MappingInv, TypeOK, Row, AtDocument
  <2>5. \A d : IsListed(d)' <=> IsListed(d)
    BY <2>1 DEF IsListed
  <2>6. rebuild'.pc \in {"hash", "state"} => rows'[Target].doc = Current.doc
    BY <2>1, <2>4 DEF RestoringInv
  <2>7. ASSUME NEW p \in Paths, NEW d \in Existing, links[p] = p, disk[p] # NoContent, docs[d].path = p
        PROVE  (rows'[p].doc # NoDoc /\ Exists(docs[rows'[p].doc])) \/ IsListed(d)
    <3>1. (rows[p].doc # NoDoc /\ Exists(docs[rows[p].doc])) \/ IsListed(d)
      BY <2>1, <2>7 DEF RestoringInv
    <3> QED BY <2>1, <2>3, <2>4, <3>1, NoDocAssumption
  <2> QED BY <2>1, <2>2, <2>5, <2>6, <2>7 DEF RestoringInv, Current
<1>6. ~SkipUnreadable
  BY DEF SkipUnreadable, Mishap
<1> QED BY <1>1, <1>2, <1>3, <1>4, <1>5, <1>6 DEF JobStep, RebuildStep

\* At every statement of a rebuild each file has a document back, or its own is to come.
THEOREM RestoringInvAlways ==
  ASSUME Undisturbed, "unreadable" \notin Faults
  PROVE  RecoverySpec => []RestoringInv
<1>1. RecoveryInit => RestoringInv
  BY DEF RecoveryInit, NoRebuild, RestoringInv, ListedExist, Rebuilding, Reading, Restoring
<1>2. RecoverySpec => []ListingInv
  BY ListingInvAlways DEF Undisturbed
<1>3. MappingInv /\ ListingInv /\ RestoringInv /\ [RecoveryNext]_allVars => RestoringInv'
  BY NextRestoring
<1> QED
  BY <1>1, <1>2, <1>3, MappingInvAlways, PTL DEF RecoverySpec

\* A rebuild that could read every file, and during which nobody edits or deletes, gives
\* every file of the tree that has a living document one that leads to it again.
THEOREM RebuildRestoresMappingAlways ==
  ASSUME Undisturbed, "unreadable" \notin Faults
  PROVE  RecoverySpec => RebuildRestoresMapping
<1>1. ASSUME MappingInv, RestoringInv, [RecoveryNext]_allVars,
             rebuild.pc = "next", rebuild'.pc = "off"
      PROVE  \A p \in Paths :
               /\ links[p] = p /\ disk[p] # NoContent
               /\ \E d \in DocIds : Exists(docs[d]) /\ docs[d].path = p
               => /\ rows[p].doc # NoDoc
                  /\ Exists(docs[rows[p].doc]) /\ links[docs[rows[p].doc].path] = p
  <2>1. rebuild.listed = <<>>
    <3>1. JobStep
      BY <1>1, RecoverySteps DEF jobVars
    <3> QED BY <1>1, <3>1, Stages DEF JobStep, RebuildStep, EndRebuild, ListPage, MappingInv
  <2>2. \A d : ~IsListed(d)
    BY <2>1 DEF IsListed
  <2>3. \A p \in Paths : rows[p].doc # NoDoc => Leads(rows[p].doc, p)
    BY <1>1 DEF MappingInv, LeadsHome
  <2> QED BY <1>1, <2>2, <2>3 DEF RestoringInv, Reading, Existing, Leads
<1>2. MappingInv /\ RestoringInv /\ [RecoveryNext]_allVars =>
        [rebuild.pc = "next" /\ rebuild'.pc = "off" /\ mishaps' = mishaps
           => \A p \in Paths :
                /\ links[p] = p /\ disk[p] # NoContent
                /\ \E d \in DocIds : Exists(docs[d]) /\ docs[d].path = p
                => /\ rows[p].doc # NoDoc
                   /\ Exists(docs[rows[p].doc]) /\ links[docs[rows[p].doc].path] = p]_allVars
  BY <1>1
<1>3. RecoverySpec => []RestoringInv
  BY RestoringInvAlways
<1> QED
  BY <1>2, <1>3, MappingInvAlways, PTL DEF RecoverySpec, RebuildRestoresMapping

-----------------------------------------------------------------------------
(* The operator who waits for the corpus, and rebuilds before the next sync *)

\* A corpus that has settled only loses documents, and only to other hands.
LEMMA SettledCorpus ==
  ASSUME MappingInv, Calm, CorpusStep
  PROVE  /\ \E d \in DocIds : docs'[d].status = "DELETED" /\ "backoffice" \in Faults
         /\ \A d \in DocIds : docs'[d] = docs[d] \/ docs'[d].status = "DELETED"
         /\ phase' = phase
<1>1. PICK d \in DocIds : BackofficeDelete(d)
  BY DEF CorpusStep, Ingest, IngestFails, Calm
<1>2. \A e \in DocIds \ {d} : docs'[e] = docs[e]
  BY <1>1 DEF BackofficeDelete, MappingInv, TypeOK
<1>3. docs'[d].status = "DELETED"
  BY <1>1 DEF BackofficeDelete, MappingInv, TypeOK, Deleted, Document
<1> QED BY <1>1, <1>2, <1>3 DEF BackofficeDelete, Mishap, planVars

\* While a loss is being made good, nothing but the rebuild touches a row.
LEMMA NobodySyncs ==
  ASSUME Careful, CarefulInv, rebuild.pc # "off", ~JobStep, [RecoveryNext]_allVars
  PROVE  /\ UNCHANGED <<rows, task, phase, rebuild>>
         /\ Calm'
         /\ \A d \in DocIds : docs'[d] = docs[d] \/ docs'[d].status = "DELETED"
         /\ NoDeletions => docs' = docs
         /\ \A d \in DocIds : docs'[d].path = docs[d].path
<1>1. CorpusStep \/ UNCHANGED vars \/ \E p \in Paths : Edit(p)
  BY Around
<1>2. rebuild' = rebuild
  BY RecoverySteps DEF jobVars
<1>3. Calm /\ MappingInv /\ TypeOK
  BY DEF CarefulInv, MappingInv
<1>4. CASE CorpusStep
  BY <1>2, <1>3, <1>4, SettledCorpus, CorpusTable, CorpusKeepsPaths DEF Calm, NoDeletions
<1>5. CASE UNCHANGED vars \/ \E p \in Paths : Edit(p)
  BY <1>2, <1>3, <1>5 DEF Calm, vars, Edit, planVars
<1> QED BY <1>1, <1>4, <1>5

\* After a step of the rebuild rows claim nothing that is in flight,
LEMMA JobIsCalm ==
  ASSUME Careful, CarefulInv, JobStep
  PROVE  Calm'
<1>1. UNCHANGED <<docs, phase>> /\ phase = "idle"
  BY JobFrame DEF CarefulInv, MappingInv, planVars
<1>2. CASE LoseDatabase
  <2>1. \A d \in DocIds : docs[d].status \in {"UNUSED", "READY", "DELETED"}
    BY <1>2 DEF LoseDatabase, Quiet
  <2> QED BY <1>1, <1>2, <2>1 DEF LoseDatabase, Calm, NoRow
<1>3. CASE ~LoseDatabase
  <2>1. rebuild.pc # "off"
    BY <1>3 DEF JobStep, StartRebuild, RebuildStep, ListPage, SkipOutside, SkipMissing, SkipUnreadable,
       RestoreRow, RestoreDocument, RestoreRefused, RestoreHash, RestoreState, EndRebuild, AtDocument,
       RebuildDies, Rebuilding
  <2>2. Calm
    BY <2>1 DEF CarefulInv
  <2>3. CASE rows' = rows
    BY <1>1, <2>2, <2>3 DEF Calm
  <2>4. ASSUME rebuild.listed # <<>>, Target \in Paths, NEW row \in Restored(rows[Target]),
               rows' = [rows EXCEPT ![Target] = row]
        PROVE  Calm'
    <3>1. Target \in Paths /\ rows \in [Paths -> Row]
      BY <2>4 DEF CarefulInv, MappingInv, TypeOK
    <3>2. row.state \in {"ABSENT", "NEW", "SYNCED"}
      BY <2>2, <2>4, <3>1 DEF Restored, Upserted, WithDocumentId, WithSyncedHash, WithSyncState, Row, Calm
    <3> QED BY <1>1, <2>2, <2>4, <3>1, <3>2 DEF Calm
  <2> QED BY <1>3, <2>3, <2>4, RowTable DEF CarefulInv
<1> QED BY <1>2, <1>3

\* and the document it has a hash for is one that has a row.
LEMMA JobIsTidy ==
  ASSUME Careful, CarefulInv, JobStep
  PROVE  /\ \A p \in Paths : NothingSent(p)'
         /\ Restoring' => rows'[Target'].state # "ABSENT"
         /\ rebuild'.pc \in {"hash", "state"} => rows'[Target'].doc = Current'.doc
<1> USE DEF Restoring
<1>1. /\ MappingInv /\ RebuildType /\ RebuildIsAlone /\ rows \in [Paths -> Row]
      /\ \A p \in Paths : NothingSent(p) /\ rows[p] \in Row
  BY DEF CarefulInv, MappingInv, TypeOK, Steady
<1>2. docs' = docs /\ links' = links
  BY <1>1, JobFrame DEF MappingInv
<1>3. \A p \in Paths : rows'[p].state # "PENDING_UPLOAD" /\ task'[p].pc = "none"
  <2>1. \A p \in Paths : rows'[p].state # "PENDING_UPLOAD"
    BY JobIsCalm DEF Calm
  <2>2. \A p \in Paths : task[p].pc = "none"
    BY <1>1, JobFrame DEF MappingInv, Due, DeletionIsDue
  <2> QED BY <1>1, <2>1, <2>2, JobFrame DEF MappingInv
<1>4. CASE LoseDatabase
  BY <1>1, <1>3, <1>4, Stages DEF LoseDatabase, NothingSent, NoRow
<1>5. CASE StartRebuild \/ RebuildDies \/ RestoreRefused \/ EndRebuild \/ ListPage
           \/ SkipOutside \/ SkipMissing \/ SkipUnreadable
  <2>1. rows' = rows /\ ~Restoring'
    <3>1. ListPage => rebuild'.pc \in {"list", "next"}
      <4>1. ListPage => \E a, n : \E pc \in {"list", "next"} :
              rebuild' = [rebuild EXCEPT !.listed = a, !.page = n, !.pc = pc]
        BY DEF ListPage
      <4> QED BY <1>1, <4>1 DEF RebuildType
    <3> QED BY <1>1, <1>5, <3>1, Stages DEF StartRebuild, RebuildDies, RestoreRefused, EndRebuild,
             ListPage, SkipOutside, SkipMissing, SkipUnreadable, vars
  <2> QED BY <1>1, <1>3, <2>1 DEF NothingSent
<1>6. CASE RestoreRow \/ RestoreDocument \/ RestoreHash \/ RestoreState
  <2>1. rebuild.listed # <<>> /\ Target \in Paths
    BY <1>1, <1>6, RestoresInside DEF Restores
  <2>2. Target \in Paths /\ Current.doc \in DocIds /\ Current.doc # NoDoc
    BY <1>1, <2>1, AtHand, NoDocAssumption
  <2>3. rows[Target].state = "ABSENT" \/ rows[Target].doc = NoDoc => rows[Target].synced = NoContent
    BY <1>1, <2>2 DEF NothingSent
  <2>4. ASSUME NEW row, rows' = [rows EXCEPT ![Target] = row],
               row.state = "ABSENT" \/ row.doc = NoDoc => row.synced = NoContent
        PROVE  \A p \in Paths : NothingSent(p)'
    BY <1>1, <1>3, <2>2, <2>4 DEF NothingSent
  <2>5. CASE RestoreRow
    <3>1. /\ Upserted(rows[Target]).state # "ABSENT" /\ Upserted(rows[Target]).doc = rows[Target].doc
          /\ Upserted(rows[Target]).synced = rows[Target].synced
      BY <1>1, <2>2 DEF Upserted, Row
    <3>2. rebuild'.pc = "document" /\ Target' = Target /\ rows'[Target] = Upserted(rows[Target])
      BY <1>1, <1>2, <2>2, <2>5, Stages DEF RestoreRow, Target, FullPath, Current
    <3> QED BY <2>3, <2>4, <2>5, <3>1, <3>2 DEF RestoreRow
  <2>6. CASE RestoreDocument
    <3> DEFINE row == WithDocumentId(rows[Target], Current.doc)
    <3>1. /\ row.state = rows[Target].state /\ row.doc = Current.doc
          /\ row.state # "ABSENT"
      BY <1>1, <2>2, <2>6 DEF WithDocumentId, Row, RestoreDocument, CarefulInv
    <3>2. /\ rebuild'.pc = "hash" /\ Target' = Target /\ rows'[Target] = row /\ Current' = Current
          /\ rows' = [rows EXCEPT ![Target] = row]
      BY <1>1, <1>2, <2>2, <2>6, Stages DEF RestoreDocument, Target, FullPath, Current
    <3> HIDE DEF row
    <3> QED BY <2>2, <2>4, <3>1, <3>2
  <2>7. CASE RestoreHash
    <3> DEFINE row == WithSyncedHash(rows[Target], IF SizeMatches THEN rebuild.hash ELSE NoContent)
    <3>1. /\ row.state = rows[Target].state /\ row.doc = rows[Target].doc
          /\ row.state # "ABSENT" /\ row.doc = Current.doc
      BY <1>1, <2>2, <2>7 DEF WithSyncedHash, Row, RestoreHash, CarefulInv
    <3>2. /\ rebuild'.pc = "state" /\ Target' = Target /\ rows'[Target] = row /\ Current' = Current
          /\ rows' = [rows EXCEPT ![Target] = row]
      BY <1>1, <1>2, <2>2, <2>7, Stages DEF RestoreHash, Target, FullPath, Current
    <3> HIDE DEF row
    <3> QED BY <2>2, <2>4, <3>1, <3>2
  <2>8. CASE RestoreState
    <3> DEFINE row == WithSyncState(rows[Target], IF SizeMatches THEN "SYNCED" ELSE "NEW")
    <3>1. row.state # "ABSENT" /\ row.doc = Current.doc
      BY <1>1, <2>2, <2>8 DEF WithSyncState, Row, RestoreState, CarefulInv
    <3>2. rebuild'.pc = "next" /\ rows' = [rows EXCEPT ![Target] = row]
      BY <1>1, <2>8, Stages DEF RestoreState
    <3> HIDE DEF row
    <3> QED BY <2>2, <2>4, <3>1, <3>2
  <2> QED BY <1>6, <2>5, <2>6, <2>7, <2>8
<1> QED BY <1>4, <1>5, <1>6 DEF JobStep, RebuildStep

LEMMA InitCareful == ASSUME RecoveryInit PROVE CarefulInv
<1>1. rebuild.pc = "off"
  BY DEF RecoveryInit, NoRebuild
<1> QED
  BY <1>1, InitMapping, InitOwned, InitSteady DEF RecoveryInit, CarefulInv, Restoring

LEMMA NextCareful ==
  ASSUME Careful, NoAliases, CarefulInv, [RecoveryNext]_allVars
  PROVE  CarefulInv'
<1>1. MappingInv' /\ MappingInv /\ TypeOK /\ Owned /\ Due /\ Steady
  BY NextMapping DEF CarefulInv, MappingInv
<1>2. CASE ~JobStep
  <2>1. Owned' /\ Steady' /\ rebuild' = rebuild /\ links' = links
    BY <1>1, <1>2, RecoverySteps, NextOwned, NextSteady DEF jobVars
  <2>2. CASE rebuild.pc = "off"
    BY <1>1, <2>1, <2>2 DEF CarefulInv, Restoring
  <2>3. CASE rebuild.pc # "off"
    <3>1. rows' = rows /\ Calm' /\ \A d \in DocIds : docs'[d].path = docs[d].path
      BY <1>2, <2>3, NobodySyncs
    <3>2. Restoring => Target' = Target /\ Current' = Current
      BY <1>1, <2>1, <3>1, AtHand DEF Target, FullPath, Current, MappingInv, RebuildIsAlone, Restoring
    <3> QED BY <1>1, <2>1, <3>1, <3>2 DEF CarefulInv, Restoring
  <2> QED BY <2>2, <2>3
<1>3. CASE JobStep
  <2>1. /\ Calm' /\ \A p \in Paths : NothingSent(p)'
        /\ Restoring' => rows'[Target'].state # "ABSENT"
        /\ rebuild'.pc \in {"hash", "state"} => rows'[Target'].doc = Current'.doc
    BY <1>3, JobIsCalm, JobIsTidy
  <2>2. UNCHANGED <<docs, task>> /\ \A p \in Paths : task[p].pc = "none"
    BY <1>1, <1>3, JobFrame DEF MappingInv, Due, DeletionIsDue
  <2>3. Owned'
    <3>1. ASSUME NEW p \in Paths PROVE PathInv(p)'
      <4>1. (OwnsDocument(p) /\ PlanFits(p))'
        <5>1. \A d \in {rows'[p].doc, task'[p].doc} \ {NoDoc} : docs'[d].path = p
          BY <1>1, LinksAssumption DEF MappingInv, LeadsHome, Leads, NoAliases
        <5>2. task'[p].pc = "none"
          BY <2>2
        <5> QED BY <5>1, <5>2 DEF OwnsDocument, PlanFits, WithDocument, Bound
      <4>2. RowIsBacked(p)' /\ HandlerIsBacked(p)'
        BY <2>1, <2>2 DEF Calm, RowIsBacked, HandlerIsBacked, InFlightStates, Emptying
      <4> QED BY <4>1, <4>2 DEF PathInv
    <3> QED BY <1>1, <3>1 DEF Owned, MappingInv, FreshIdsAreUnbound, IdsAreNamed
  <2>4. Steady'
    BY <1>1, <2>1, <2>2 DEF Steady, ContentIsSent, RowAtStep
  <2> QED BY <1>1, <2>1, <2>3, <2>4 DEF CarefulInv
<1> QED BY <1>2, <1>3

\* Where no path leads to another, rows and documents stay in step across a loss and its
\* rebuilds, whatever fails.
THEOREM CarefulInvAlways == ASSUME Careful, NoAliases PROVE RecoverySpec => []CarefulInv
  BY InitCareful, NextCareful, PTL DEF RecoverySpec

-----------------------------------------------------------------------------
(* What a NOOP means after a rebuild *)

\* The operator is careful in an honest environment, every file can be read, and no path
\* leads to another.  Two contents may well have the same size.
HonestRecovery ==
  /\ Careful /\ HonestEnvironment
  /\ "unreadable" \notin Faults
  /\ NoAliases

\* The document at hand, when it leads anywhere in the tree, is one of the row's own path.
LEMMA AtItsOwnPath ==
  ASSUME NoAliases, MappingInv, rebuild.listed # <<>>, Target # Outside
  PROVE  Target = FullPath /\ FullPath \in Paths /\ docs[Current.doc].path = Target
         /\ links[Target] = Target
  BY AtHand DEF MappingInv, NoAliases

\* A size that agrees with the corpus is the size of what it serves.
LEMMA SizeTells ==
  ASSUME TypeOK, ContentIsSent, NEW d \in DocIds, docs[d].status = "READY",
         NEW hash \in Contents, ReportedSize(docs[d]) \in {NoSize, SizeOf[hash]}
  PROVE  ServesAlike(docs[d], hash)
<1>1. docs[d].content \in Contents
  BY DEF TypeOK, Document, MaybeContent, ContentIsSent, Ingested
<1>2. SizeOf[docs[d].content] # NoSize
  BY <1>1, SizeAssumption DEF Range
<1> QED BY <1>2 DEF ReportedSize, ServesAlike

\* The file at hand is left alone by the next run only if the corpus has its size.
LEMMA RestoredHonestly ==
  ASSUME HonestRecovery, HonestRecoveryInv, RestoreState, NEW p \in Paths, p = Target, WouldSkip(p)'
  PROVE  ServesAlike(docs[rows'[p].doc], disk[p])
<1>1. /\ CarefulInv /\ MappingInv /\ TypeOK /\ rebuild.listed # <<>> /\ rebuild.pc = "state"
      /\ Calm /\ ContentIsSent /\ Rebuilding
  BY DEF HonestRecoveryInv, CarefulInv, MappingInv, RestoreState, Restoring, RebuildIsAlone,
     Steady, Rebuilding
<1>2. /\ Current.doc \in DocIds /\ rows[p] \in Row
      /\ 1 \in DOMAIN rebuild.listed /\ Current = rebuild.listed[1]
  BY <1>1, AtHand DEF TypeOK
<1>3. rows'[p].doc = Current.doc /\ rows'[p].synced = rows[p].synced /\ disk' = disk
  <2>1. rows'[p] = WithSyncState(rows[p], IF SizeMatches THEN "SYNCED" ELSE "NEW")
    BY <1>1, <1>2 DEF RestoreState, TypeOK
  <2> QED BY <1>1, <1>2, <2>1 DEF RestoreState, CarefulInv, WithSyncState, Row, environment
<1>4. /\ rows[p].synced = (IF SizeMatches THEN rebuild.hash ELSE NoContent)
      /\ rebuild.hash = disk[p]
      /\ Current.size = ReportedSize(docs[Current.doc]) /\ Exists(docs[Current.doc])
  BY <1>1, <1>2 DEF HonestRecoveryInv, Truthful, RestoredExactly, Restoring
<1>5. rows'[p].synced = disk[p] /\ disk[p] \in Contents
  <2>1. disk'[p] \in Accepted /\ Classify(rows'[p], disk'[p]) = "NOOP"
    BY DEF WouldSkip, Classify
  <2>2. rows'[p].synced = disk'[p]
    BY <2>1, NoopMeans
  <2> QED BY <1>3, <2>1, <2>2, AcceptedAssumption
<1>6. SizeMatches
  BY <1>3, <1>4, <1>5, NoContentAssumption
<1>7. docs[Current.doc].status = "READY"
  BY <1>1, <1>2, <1>4 DEF Calm, Exists
<1>8. ReportedSize(docs[Current.doc]) \in {NoSize, SizeOf[disk[p]]}
  BY <1>4, <1>6 DEF SizeMatches
<1> QED BY <1>1, <1>2, <1>3, <1>5, <1>7, <1>8, SizeTells

\* While a loss is being made good the corpus stands still, and in a rebuild the tree too.
LEMMA StandsStill ==
  ASSUME HonestRecovery, CarefulInv, rebuild.pc # "off", ~JobStep, [RecoveryNext]_allVars
  PROVE  /\ UNCHANGED <<rows, docs, rebuild, links>>
         /\ Rebuilding => disk' = disk
<1>1. UNCHANGED <<rows, docs, rebuild, links>>
  BY NobodySyncs, RecoverySteps DEF HonestRecovery, HonestEnvironment, NoDeletions, jobVars
<1>2. Rebuilding => disk' = disk
  BY NothingElseMoves DEF CarefulInv, Undisturbed, NoDeletions, HonestRecovery, HonestEnvironment
<1> QED BY <1>1, <1>2

\* A step that restores a document writes the row of its path only.
LEMMA AtTarget ==
  ASSUME NoAliases, CarefulInv, Restores
  PROVE  /\ rebuild.listed # <<>> /\ Target \in Paths /\ Current.doc \in DocIds
         /\ 1 \in DOMAIN rebuild.listed /\ Current = rebuild.listed[1]
         /\ docs[Current.doc].path = Target /\ FullPath = Target /\ links[Target] = Target
         /\ \A p \in Paths \ {Target} : rows'[p] = rows[p]
         /\ rows'[Target].doc \in {rows[Target].doc, Current.doc}
         /\ docs' = docs /\ disk' = disk /\ links' = links
<1>1. MappingInv /\ rows \in [Paths -> Row] /\ rebuild.listed # <<>> /\ Target \in Paths
  BY RestoresInside DEF CarefulInv, MappingInv, TypeOK
<1>2. /\ Current.doc \in DocIds
      /\ 1 \in DOMAIN rebuild.listed /\ Current = rebuild.listed[1]
  BY <1>1, AtHand
<1>3. docs[Current.doc].path = Target /\ FullPath = Target /\ links[Target] = Target
  BY <1>1, AtItsOwnPath, LinksAssumption
<1>4. docs' = docs /\ disk' = disk /\ links' = links
  BY DEF Restores, RestoreRow, RestoreDocument, RestoreHash, RestoreState, environment
<1>5. PICK row \in Restored(rows[Target]) : rows' = [rows EXCEPT ![Target] = row]
  BY DEF Restores, RestoreRow, RestoreDocument, RestoreHash, RestoreState, Restored
<1>6. row.doc \in {rows[Target].doc, Current.doc}
  BY <1>1, <1>2, <1>5 DEF Restored, Upserted, WithDocumentId, WithSyncedHash, WithSyncState, Row
<1> QED BY <1>1, <1>2, <1>3, <1>4, <1>5, <1>6

\* Nobody takes a document from under a row or a listing.
LEMMA NextTruthful ==
  ASSUME HonestRecovery, CarefulInv, Truthful, [RecoveryNext]_allVars
  PROVE  Truthful'
<1> USE DEF Rebuilding, Truthful
<1>1. MappingInv /\ RebuildType /\ TypeOK
  BY DEF CarefulInv, MappingInv
<1>2. CASE ~JobStep
  BY <1>2, StandsStill, RecoverySteps DEF jobVars
<1>3. CASE LoseDatabase \/ StartRebuild \/ RebuildDies \/ RestoreRefused \/ EndRebuild
  <2>1. docs' = docs /\ links' = links
    BY <1>3 DEF LoseDatabase, StartRebuild, RebuildDies, RestoreRefused, EndRebuild, vars
  <2>2. LoseDatabase => \A p \in Paths : rows'[p].doc = NoDoc
    BY DEF LoseDatabase, NoRow
  <2>3. StartRebuild \/ RebuildDies \/ RestoreRefused => rows' = rows /\ rebuild.pc # "off"
    BY DEF StartRebuild, RebuildDies, RestoreRefused, vars, HonestRecovery
  <2> QED BY <1>1, <1>3, <2>1, <2>2, <2>3, Stages
<1>4. CASE ListPage
  <2> DEFINE page == Page(rebuild.page)
  <2>1. docs' = docs /\ rows' = rows /\ links' = links /\ rebuild.pc = "list"
    BY <1>4 DEF ListPage, vars
  <2>2. rebuild'.listed = rebuild.listed \o page /\ rebuild'.pc \in {"list", "next"}
    <3>1. \E pc \in {"list", "next"} :
            rebuild' = [rebuild EXCEPT !.listed = @ \o page, !.page = @ + 1, !.pc = pc]
      BY <1>4 DEF ListPage
    <3> HIDE DEF page
    <3> QED BY <1>1, <3>1 DEF RebuildType
  <2>3. \A i \in DOMAIN page :
          Exists(docs[page[i].doc]) /\ page[i].size = ReportedSize(docs[page[i].doc])
    <3>1. rebuild.page \in Nat
      BY <1>1 DEF RebuildType
    <3> QED BY <1>1, <3>1, PageHolds DEF Existing
  <2>4. \A i \in DOMAIN (rebuild.listed \o page) :
          \/ i \in DOMAIN rebuild.listed /\ (rebuild.listed \o page)[i] = rebuild.listed[i]
          \/ \E j \in DOMAIN page : (rebuild.listed \o page)[i] = page[j]
    BY <1>1, OnePageMore
  <2> HIDE DEF page
  <2> QED BY <2>1, <2>2, <2>3, <2>4
<1>5. CASE SkipOutside \/ SkipMissing \/ SkipUnreadable
  <2>1. /\ docs' = docs /\ rows' = rows /\ links' = links /\ rebuild.listed # <<>>
        /\ rebuild.pc = "next" /\ rebuild'.listed = Tail(rebuild.listed)
    BY <1>1, <1>5, Stages DEF SkipOutside, SkipMissing, SkipUnreadable, AtDocument, vars
  <2> QED BY <1>1, <2>1, ListedApart
<1>6. CASE Restores
  <2>1. rebuild.pc \in {"next", "document", "hash", "state"}
    BY <1>6 DEF Restores, RestoreRow, RestoreDocument, RestoreHash, RestoreState, AtDocument
  <2>2. /\ Exists(docs[Current.doc]) /\ docs' = docs /\ links' = links
        /\ Target \in Paths /\ links[Target] = Target
        /\ \A p \in Paths \ {Target} : rows'[p] = rows[p]
        /\ rows'[Target].doc \in {rows[Target].doc, Current.doc}
    BY <1>6, <2>1, AtTarget DEF HonestRecovery
  <2>3. \A i \in DOMAIN rebuild'.listed :
          \E j \in DOMAIN rebuild.listed : rebuild'.listed[i] = rebuild.listed[j]
    <3>1. CASE RestoreState
      BY <1>1, <1>6, <3>1, RestoresInside, Stages, ListedApart
    <3>2. CASE ~RestoreState
      BY <1>1, <1>6, <3>2, Stages DEF Restores
    <3> QED BY <3>1, <3>2
  <2>4. \A p \in Paths : rows'[p].doc # NoDoc => Exists(docs[rows'[p].doc]) /\ links[p] = p
    BY <2>1, <2>2
  <2> QED BY <2>1, <2>2, <2>3, <2>4
<1> QED BY <1>2, <1>3, <1>4, <1>5, <1>6 DEF JobStep, RebuildStep, Restores

\* When the listing has come to its end, everything a row names is still to be restored;
LEMMA ListedAgain ==
  ASSUME HonestRecovery, HonestRecoveryInv, ListPage, rebuild'.pc = "next"
  PROVE  RestoredExactly'
<1>1. /\ MappingInv /\ docs' = docs /\ rows' = rows /\ disk' = disk /\ rebuild.pc = "list"
      /\ rows \in [Paths -> Row]
  BY DEF ListPage, vars, HonestRecoveryInv, CarefulInv, MappingInv, TypeOK
<1>2. \A d \in Existing : \E i \in DOMAIN rebuild'.listed : rebuild'.listed[i].doc = d
  BY <1>1, PagesSoFar DEF HonestRecoveryInv, IsListed
<1>3. ASSUME NEW p \in Paths, WouldSkip(p)
      PROVE  \E i \in DOMAIN rebuild'.listed : docs[rebuild'.listed[i].doc].path = p
  <2>1. rows[p].doc # NoDoc /\ rows[p].doc \in DocIds
    BY <1>1, <1>3, NoopMeans DEF WouldSkip, Row, MaybeDoc
  <2>2. rows[p].doc \in Existing /\ docs[rows[p].doc].path = p
    BY <1>1, <2>1 DEF HonestRecoveryInv, CarefulInv, Truthful, Existing, Owned, PathInv, OwnsDocument
  <2> QED BY <1>2, <2>2
<1> QED BY <1>1, <1>3 DEF RestoredExactly, Restoring, Reading, WouldSkip

\* a document that is done with leaves an honest row behind,
LEMMA RestoredOne ==
  ASSUME HonestRecovery, HonestRecoveryInv, SkipOutside \/ SkipMissing \/ RestoreState
  PROVE  RestoredExactly'
<1> USE DEF Reading, Restoring
<1>1. MappingInv /\ RebuildType /\ CarefulInv /\ NoAliases
  BY DEF HonestRecoveryInv, CarefulInv, MappingInv, HonestRecovery
<1>2. /\ rebuild.listed # <<>> /\ docs' = docs /\ disk' = disk /\ Reading
      /\ rebuild'.pc = "next" /\ rebuild'.listed = Tail(rebuild.listed)
      /\ \A p \in Paths \ {Target} : rows'[p] = rows[p]
  <2>1. CASE SkipOutside \/ SkipMissing
    BY <1>1, <2>1, Stages DEF SkipOutside, SkipMissing, AtDocument, vars, environment
  <2>2. CASE RestoreState
    BY <1>1, <2>2, Stages, AtTarget DEF Restores, RestoreState
  <2> QED BY <2>1, <2>2
<1>3. ASSUME NEW p \in Paths, WouldSkip(p)', ~ServesAlike(docs[rows'[p].doc], disk[p])
      PROVE  \E i \in DOMAIN rebuild'.listed : docs[rebuild'.listed[i].doc].path = p
  <2>1. p # docs[Current.doc].path /\ (RestoreState => p # Target)
    <3>1. CASE SkipOutside
      <4>1. rows[p].doc # NoDoc /\ rows' = rows
        BY <1>3, <3>1, NoopMeans DEF SkipOutside, WouldSkip, vars
      <4>2. links[p] = p
        BY <1>2, <4>1 DEF HonestRecoveryInv, Truthful
      <4> QED BY <1>1, <1>2, <3>1, <4>2, AtHand, LinksAssumption DEF SkipOutside, RestoreState, AtDocument
    <3>2. CASE SkipMissing
      BY <1>1, <1>2, <1>3, <3>2, AtHand, AcceptedAssumption, NoContentAssumption
      DEF SkipMissing, WouldSkip, RestoreState, AtDocument
    <3>3. CASE RestoreState
      BY <1>1, <1>3, <3>3, RestoredHonestly, AtTarget DEF Restores
    <3> QED BY <3>1, <3>2, <3>3
  <2>2. WouldSkip(p) /\ ~ServesAlike(docs[rows[p].doc], disk[p])
    <3>1. rows'[p] = rows[p]
      BY <1>2, <2>1 DEF SkipOutside, SkipMissing, vars
    <3> QED BY <1>2, <1>3, <3>1 DEF WouldSkip
  <2>3. PICK i \in DOMAIN rebuild.listed : docs[rebuild.listed[i].doc].path = p
    BY <1>2, <2>2 DEF HonestRecoveryInv, RestoredExactly
  <2>4. i # 1
    BY <1>1, <1>2, <2>1, <2>3, AtHand
  <2>5. i - 1 \in DOMAIN rebuild'.listed /\ rebuild'.listed[i - 1] = rebuild.listed[i]
    BY <1>1, <1>2, <2>4, LeftOver
  <2> QED BY <2>3, <2>5
<1> QED BY <1>2, <1>3 DEF RestoredExactly, WouldSkip

\* and one that is being restored is still listed.
LEMMA RestoringOne ==
  ASSUME HonestRecovery, HonestRecoveryInv, RestoreRow \/ RestoreDocument \/ RestoreHash
  PROVE  RestoredExactly'
<1> USE DEF Reading, Restoring
<1>1. MappingInv /\ RebuildType /\ CarefulInv /\ NoAliases /\ Restores /\ rows \in [Paths -> Row]
  BY DEF HonestRecoveryInv, CarefulInv, MappingInv, TypeOK, HonestRecovery, Restores
<1>2. /\ rebuild.listed # <<>> /\ Target \in Paths /\ docs' = docs /\ disk' = disk
      /\ FullPath = Target /\ links' = links
      /\ 1 \in DOMAIN rebuild.listed /\ docs[rebuild.listed[1].doc].path = Target
      /\ \A p \in Paths \ {Target} : rows'[p] = rows[p]
  BY <1>1, AtTarget
<1>3. /\ rebuild'.listed = rebuild.listed /\ Reading
      /\ rebuild'.pc = "document" => RestoreRow
      /\ rebuild'.pc = "state" => RestoreHash
      /\ rebuild'.pc # "next"
  BY <1>1, Stages DEF RestoreRow, RestoreDocument, RestoreHash, AtDocument
<1>4. Current' = Current /\ Target' = Target
  BY <1>2, <1>3 DEF Current, FullPath, Target
<1>5. rebuild'.hash = disk[Target]
  BY <1>1, <1>2, <1>3, Stages DEF HonestRecoveryInv, RestoredExactly, RestoreDocument, RestoreHash
<1>6. RestoreHash => /\ rows'[Target].synced = (IF SizeMatches THEN rebuild.hash ELSE NoContent)
                     /\ rebuild'.hash = rebuild.hash
  <2>1. ASSUME RestoreHash, NEW h
        PROVE  rows' = [rows EXCEPT ![Target] = WithSyncedHash(@, h)] => rows'[Target].synced = h
    BY <1>1, <1>2, <2>1 DEF WithSyncedHash, Row
  <2> QED BY <1>1, <2>1, Stages DEF RestoreHash
<1>7. RestoreHash => SizeMatches' = SizeMatches
  BY <1>4, <1>6 DEF SizeMatches
<1>8. ASSUME NEW p \in Paths, WouldSkip(p)', ~ServesAlike(docs[rows'[p].doc], disk[p])
      PROVE  \E i \in DOMAIN rebuild.listed : docs[rebuild.listed[i].doc].path = p
  <2>1. CASE p = Target
    BY <1>2, <2>1
  <2>2. CASE p # Target
    BY <1>2, <1>3, <1>8, <2>2 DEF HonestRecoveryInv, RestoredExactly, WouldSkip
  <2> QED BY <2>1, <2>2
<1>9. rebuild'.pc = "state" =>
        rows'[Target].synced = (IF SizeMatches' THEN rebuild'.hash ELSE NoContent)
  BY <1>3, <1>6, <1>7
<1> QED BY <1>2, <1>3, <1>4, <1>5, <1>8, <1>9 DEF RestoredExactly, WouldSkip

\* With nothing left to restore, every row is exact but for a size that misled.
LEMMA RestoredAll ==
  ASSUME HonestRecoveryInv, EndRebuild
  PROVE  \A p \in Paths : Exact(p)' \/ Misled(p)'
<1>1. /\ UNCHANGED vars /\ rebuild.pc = "next" /\ DOMAIN rebuild.listed = {}
      /\ Calm /\ \A p \in Paths : task[p].pc = "none"
  BY DEF EndRebuild, HonestRecoveryInv, CarefulInv, MappingInv, Due, DeletionIsDue, Calm
<1>2. \A p \in Paths : WouldSkip(p) => ServesAlike(docs[rows[p].doc], disk[p])
  BY <1>1 DEF HonestRecoveryInv, RestoredExactly, Reading
<1>3. \A p \in Paths : Exact(p) \/ Misled(p)
  BY <1>1, <1>2 DEF Exact, TaskIsExact, RowIsExact, StepIsExact, Calm, Emptying, Misled
<1> QED BY <1>1, <1>3 DEF vars, Exact, TaskIsExact, RowIsExact, StepIsExact, WouldSkip, Misled

\* No run touches a file whose size misled; once it is edited it is exact again.
LEMMA NextMisled ==
  ASSUME TypeOK, Owned, Due, HonestEnvironment, NEW p \in Paths, Misled(p), [Next]_vars
  PROVE  Exact(p)' \/ Misled(p)'
<1>1. rows[p].doc # NoDoc /\ rows[p].doc \in DocIds
  BY NoopMeans DEF Misled, WouldSkip, TypeOK, Row, MaybeDoc
<1>2. ASSUME rows'[p] = rows[p], disk'[p] = disk[p], task'[p].pc = "none",
             docs'[rows[p].doc] = docs[rows[p].doc]
      PROVE  Misled(p)'
  BY <1>2 DEF Misled, WouldSkip
<1>3. ASSUME NEW q \in Paths, Work(q) \/ CallFails(q) \/ CallRetried(q)
      PROVE  Misled(p)'
  <2>1. q # p
    BY <1>3 DEF Misled, Work, Start, StartUpload, StartReplace, StartResume, StartDelete, Dequeue,
       Call, InitUpload, ReinitUpload, ReinitRefused, Push, PushFails, CommitDocument,
       CommitDuplicate, CommitFails, Finalise, PollReady, PollTimesOut, PollFails, DeleteDocument,
       Store, StoreDocument, StorePending, StoreUploaded, StoreCommitted, StoreSyncedHash,
       MarkHash, MarkState, ForgetRow, Write, CallFails, CallRetried, RemoteCalls
  <2>2. disk' = disk /\ Same(p)
    BY <1>3, <2>1, HandlerConfined, OwnedIsMapped, Apart
  <2> QED BY <1>1, <1>2, <2>2 DEF Same, Misled
<1>4. CASE PlanStep
  <2>1. UNCHANGED <<rows, docs, disk>> /\ Replans(p)
    BY <1>4, PlanTable
  <2>2. disk[p] \in Accepted /\ Planned(p, disk[p]) = NoTask
    BY PlannedTask DEF Misled, WouldSkip
  <2>3. task'[p].pc = "none"
    BY <2>1, <2>2, AcceptedAssumption, NoContentAssumption DEF Replans, NoTask, Misled
  <2> QED BY <1>2, <2>1, <2>3
<1>5. ASSUME NEW q \in Paths, Edit(q) PROVE Exact(p)' \/ Misled(p)'
  <2>1. UNCHANGED <<rows, docs, task>> /\ phase = "idle" /\ MayEdit(q)
    BY <1>5 DEF Edit, MayEdit, HonestEnvironment
  <2>2. CASE disk'[p] = disk[p]
    BY <1>2, <2>1, <2>2 DEF Misled
  <2>3. CASE disk'[p] # disk[p]
    <3>1. /\ q = p /\ (disk'[p] = NoContent \/ disk'[p] # rows[p].synced)
          /\ rows[p].state \notin {"UPLOADED", "COMMITTED"}
      BY <1>5, <2>3 DEF Edit, MayEdit, TypeOK, HonestEnvironment
    <3>2. ~WouldSkip(p)'
      BY <2>1, <3>1, NoopMeans, AcceptedAssumption, NoContentAssumption DEF WouldSkip
    <3> QED BY <2>1, <3>1, <3>2 DEF Misled, Exact, TaskIsExact, RowIsExact, StepIsExact
  <2> QED BY <2>2, <2>3
<1>6. CASE CorpusStep
  BY <1>1, <1>2, <1>6, CorpusTable DEF HonestEnvironment, Misled, ServesAlike
<1>7. CASE UNCHANGED vars
  BY <1>2, <1>7 DEF vars, Misled
<1> QED
  BY <1>3, <1>4, <1>5, <1>6, <1>7, Steps

LEMMA InitHonestRecovery == ASSUME RecoveryInit PROVE HonestRecoveryInv
<1>1. rebuild.pc = "off"
  BY DEF RecoveryInit, NoRebuild
<1>2. \A p \in Paths : Exact(p)
  BY InitExact DEF RecoveryInit
<1> QED
  BY <1>1, <1>2, InitCareful, InitListing DEF HonestRecoveryInv, Truthful, RestoredExactly,
     Rebuilding, Restoring, Reading

LEMMA NextHonestRecovery ==
  ASSUME HonestRecovery, HonestRecoveryInv, [RecoveryNext]_allVars
  PROVE  HonestRecoveryInv'
<1> USE DEF Rebuilding, Reading, Restoring
<1>1. /\ CarefulInv' /\ Truthful' /\ ListingInv'
      /\ CarefulInv /\ MappingInv /\ RebuildType /\ TypeOK /\ Owned /\ Due /\ Steady
  BY NextCareful, NextTruthful, NextListing DEF HonestRecoveryInv, CarefulInv, MappingInv,
     HonestRecovery, HonestEnvironment, NoDeletions
<1>2. CASE ~JobStep
  <2>1. rebuild' = rebuild /\ [Next]_vars
    BY <1>2, RecoverySteps DEF jobVars
  <2>2. CASE rebuild.pc = "off"
    <3>1. \A p \in Paths : Exact(p)' \/ Misled(p)'
      BY <1>1, <2>1, <2>2, NextExact, NextMisled DEF HonestRecoveryInv, HonestRecovery
    <3> QED BY <1>1, <2>1, <2>2, <3>1 DEF HonestRecoveryInv, RestoredExactly
  <2>3. CASE rebuild.pc # "off"
    <3>1. rows' = rows /\ docs' = docs /\ links' = links /\ (Rebuilding => disk' = disk)
      BY <1>1, <1>2, <2>3, StandsStill
    <3>2. RestoredExactly'
      BY <2>1, <3>1 DEF HonestRecoveryInv, RestoredExactly, WouldSkip, SizeMatches, Target, FullPath,
         Current
    <3> QED BY <1>1, <2>1, <2>3, <3>2 DEF HonestRecoveryInv
  <2> QED BY <2>2, <2>3
<1>3. CASE LoseDatabase \/ StartRebuild \/ RebuildDies \/ RestoreRefused
  BY <1>1, <1>3, Stages DEF HonestRecoveryInv, RestoredExactly
<1>4. CASE EndRebuild
  BY <1>1, <1>4, Stages, RestoredAll DEF HonestRecoveryInv, RestoredExactly
<1>5. CASE ListPage
  <2>1. rebuild'.pc \in {"list", "next"}
    <3>1. \E a, n : \E pc \in {"list", "next"} :
            rebuild' = [rebuild EXCEPT !.listed = a, !.page = n, !.pc = pc]
      BY <1>5 DEF ListPage
    <3> QED BY <1>1, <3>1 DEF RebuildType
  <2>2. RestoredExactly'
    BY <1>5, <2>1, ListedAgain DEF RestoredExactly
  <2> QED BY <1>1, <2>1, <2>2 DEF HonestRecoveryInv
<1>6. CASE SkipOutside \/ SkipMissing \/ RestoreState
  BY <1>1, <1>6, Stages, RestoredOne DEF HonestRecoveryInv
<1>7. CASE RestoreRow \/ RestoreDocument \/ RestoreHash
  BY <1>1, <1>7, Stages, RestoringOne DEF HonestRecoveryInv
<1>8. ~SkipUnreadable
  BY DEF SkipUnreadable, Mishap, HonestRecovery
<1> QED BY <1>2, <1>3, <1>4, <1>5, <1>6, <1>7, <1>8 DEF JobStep, RebuildStep

\* At every statement between a loss and the end of a rebuild, a row that a run would
\* leave alone is true or about to be written again.
THEOREM HonestRecoveryInvAlways == ASSUME HonestRecovery PROVE RecoverySpec => []HonestRecoveryInv
  BY InitHonestRecovery, NextHonestRecovery, PTL DEF RecoverySpec

\* Whatever losses there were, and however often a rebuild was killed and taken up again,
\* a file that the next sync would leave alone is one of whose size the corpus serves a
\* content, its own or another that was written over it before the rebuild.
THEOREM HonestAfterRecoveryAlways ==
  ASSUME HonestRecovery PROVE RecoverySpec => []HonestAfterRecovery
<1>1. HonestRecoveryInv => HonestAfterRecovery
  BY DEF HonestRecoveryInv, Exact, RowIsExact, Misled, WouldSkip, HonestAfterRecovery, Serves,
     ServesAlike
<1> QED
  BY <1>1, HonestRecoveryInvAlways, PTL
=============================================================================
