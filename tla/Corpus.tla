------------------------------- MODULE Corpus -------------------------------
(***************************************************************************)
(* The remote corpus as sync/engine.py uses it through api/documents.py.    *)
(* The server itself is not in the repository: what a document may do is    *)
(* taken from the DocumentsApi docstrings and from the FakeBackend of       *)
(* tests/conftest.py.  Everything here is an operator on one document       *)
(* record; the map from document ids to records is a variable of the        *)
(* modules that use the corpus.                                             *)
(*                                                                          *)
(*   blob     the bytes PUT to the document's current presigned URL         *)
(*   content  the bytes its last accepted commit handed to ingestion        *)
(*   path     the sync_fullpath metadata given at init                      *)
(***************************************************************************)

CONSTANTS Paths,      \* relative paths under source.root_dir
          Contents,   \* the contents a file can have; SHA-256 is taken to be injective
          NoContent,  \* no file, no bytes or a NULL hash, depending on the field
          NoPath      \* the path of a document id the server has not handed out

ASSUME NoContentAssumption == NoContent \notin Contents
ASSUME NoPathAssumption == NoPath \notin Paths

MaybeContent == Contents \cup {NoContent}

\* PENDING (queued) and PROCESSING are one status here: no code under src/ tells them apart.
DocumentStatus ==
  {"UNUSED", "AWAITING_UPLOAD", "PROCESSING", "READY", "FAILED", "DELETED"}

Document ==
  [status: DocumentStatus, path: Paths \cup {NoPath},
   blob: MaybeContent, content: MaybeContent]

UnusedDocument ==
  [status |-> "UNUSED", path |-> NoPath, blob |-> NoContent, content |-> NoContent]

\* The document can be found: every call about any other one is answered 404.
Exists(doc) == doc.status \notin {"UNUSED", "DELETED"}

\* An init that leaves the sync_fullpath metadata out (used as a mutant).
InitialisedUnnamed(p) ==
  [status |-> "AWAITING_UPLOAD", path |-> NoPath, blob |-> NoContent, content |-> NoContent]

\* POST /v1/doc/init: a new document for the file at path p.
Initialised(p) ==
  [status |-> "AWAITING_UPLOAD", path |-> p, blob |-> NoContent, content |-> NoContent]

\* PUT /v1/doc/{id}/init answers 409 unless the document is READY or FAILED.
Replaceable(doc) == doc.status \in {"READY", "FAILED"}

\* The same document again, on a fresh URL to which nothing has been PUT.
Reinitialised(doc) == [doc EXCEPT !.status = "AWAITING_UPLOAD", !.blob = NoContent]

\* The storage knows nothing of a document that was deleted meanwhile.
WithBytes(doc, bytes) == IF Exists(doc) THEN [doc EXCEPT !.blob = bytes] ELSE doc

\* A commit is idempotent from the moment ingestion has the bytes.
AlreadyCommitted(doc) == doc.status \in {"PROCESSING", "READY"}

Committable(doc) == /\ Exists(doc)
                    /\ doc.blob # NoContent

Committed(doc) ==
  IF AlreadyCommitted(doc) THEN doc
  ELSE [doc EXCEPT !.status = "PROCESSING", !.content = doc.blob]

\* Some other document of the corpus already carries what d would commit.
IsDuplicate(docs, d) ==
  \E e \in DOMAIN docs \ {d} :
    Exists(docs[e]) /\ docs[e].content = docs[d].blob

Settled(doc, outcome) == [doc EXCEPT !.status = outcome]

Deleted(doc) ==
  [doc EXCEPT !.status = "DELETED", !.blob = NoContent, !.content = NoContent]

\* What a user of the corpus sees: the document answers queries from this content.
Serves(doc, content) == doc.status = "READY" /\ doc.content = content
=============================================================================
