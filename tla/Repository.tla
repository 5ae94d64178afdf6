----------------------------- MODULE Repository -----------------------------
(***************************************************************************)
(* The `file' table of the local database (db/schema.sql) and the writes of *)
(* db/repository.py, as operators on one row.  Each write of the code is    *)
(* one autocommitted SQL statement: one step of the modules that use it.    *)
(*                                                                          *)
(* A row keeps the columns that decide what the next run does.  Left out:   *)
(* the stat columns (size, mtime_ns, content_hash), which only save a       *)
(* re-hash; remote_status, attempts, last_error and the timestamps, which   *)
(* no decision of the code reads; and upload_url with its expiry, which     *)
(* is set with document_id and matters only in PENDING_UPLOAD.              *)
(***************************************************************************)
EXTENDS Corpus

CONSTANTS DocIds,  \* the document ids the server can hand out
          NoDoc    \* a NULL document_id

ASSUME NoDocAssumption == NoDoc \notin DocIds

MaybeDoc == DocIds \cup {NoDoc}

\* ABSENT stands for "no row".  MISSING_LOCAL exists in the schema and is never set.
SyncState ==
  {"ABSENT", "NEW", "PENDING_UPLOAD", "UPLOADED", "COMMITTED", "SYNCED", "FAILED"}

Row == [state: SyncState, doc: MaybeDoc, synced: MaybeContent]

NoRow == [state |-> "ABSENT", doc |-> NoDoc, synced |-> NoContent]

\* INSERT ... ON CONFLICT DO UPDATE: an existing row keeps its sync columns.
Upserted(row) == IF row.state = "ABSENT" THEN [row EXCEPT !.state = "NEW"] ELSE row

WithDocumentId(row, d) == [row EXCEPT !.doc = d]

WithSyncState(row, s) == [row EXCEPT !.state = s]

WithSyncedHash(row, h) == [row EXCEPT !.synced = h]

\* _record_failure returns early when there is no row to charge.
WithFailure(row) == IF row.state = "ABSENT" THEN row ELSE WithSyncState(row, "FAILED")
=============================================================================
