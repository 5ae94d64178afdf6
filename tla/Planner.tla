------------------------------- MODULE Planner -------------------------------
(***************************************************************************)
(* The decisions of sync/planner.py: what a run will do about one path,     *)
(* from its row and from what the walk saw.  Pure, like the code.           *)
(***************************************************************************)
EXTENDS Repository

InFlightStates == {"PENDING_UPLOAD", "UPLOADED", "COMMITTED"}

ActionKind == {"UPLOAD", "REPLACE", "DELETE", "RESUME", "NOOP"}

\* A REPLACE that trusts a failed row's synced hash (used as a mutant).
ClassifyTrustingFailedRows(row, hash) ==
  CASE row.doc = NoDoc -> "UPLOAD"
    [] row.doc # NoDoc /\ row.state \in InFlightStates -> "RESUME"
    [] row.doc # NoDoc /\ row.state \notin InFlightStates /\ row.synced # hash -> "REPLACE"
    [] OTHER -> "NOOP"

\* _classify, for a file whose content hashes to `hash'.
Classify(row, hash) ==
  CASE row.doc = NoDoc -> "UPLOAD"
    [] row.doc # NoDoc /\ row.state \in InFlightStates -> "RESUME"
    [] /\ row.doc # NoDoc
       /\ row.state \notin InFlightStates
       /\ row.state = "FAILED" \/ row.synced # hash -> "REPLACE"
    [] OTHER -> "NOOP"

\* A deletion that does not look at the disk again (used as a mutant).
IsGoneByTheWalkAlone(row, wasSeen, present) == row.state # "ABSENT" /\ ~wasSeen

\* _plan_deletions: a row the walk did not meet, and whose file does not exist.
\* A file that exists but is out of scope keeps its document.
IsGone(row, wasSeen, present) == row.state # "ABSENT" /\ ~wasSeen /\ ~present
=============================================================================
