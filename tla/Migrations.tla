----------------------------- MODULE Migrations -----------------------------
(***************************************************************************)
(* How an invocation brings the state database to the schema it needs:      *)
(* connect and migrate of db/migrations.py, run by every command before     *)
(* anything else, by several processes at once, and again after a crash.    *)
(*                                                                          *)
(* No transaction holds a migration together: each statement commits by     *)
(* itself, and user_version is written by one more statement at the end.    *)
(***************************************************************************)
EXTENDS Integers

CONSTANTS
  Procs,         \* invocations of the program
  ScriptLength,  \* statements of schema.sql, the first migration
  MaxDeaths      \* bound: invocations that die or find the database locked

ASSUME MigrationsAssumption == ScriptLength \in Nat \ {0} /\ MaxDeaths \in Nat

SchemaVersion == 2

VARIABLES
  db,       \* what every connection sees: version (PRAGMA user_version), created (how
            \* many statements of schema.sql have taken effect), added (by migration 002)
  durable,  \* what of it a power failure leaves
  proc,     \* proc[p]: where p stands, the version it works towards, statements done
  deaths

migrationVars == <<db, durable, proc, deaths>>

Database == [version: 0..SchemaVersion + 1, created: 0..ScriptLength,
             added: SUBSET {"synced_hash", "idx_file_synced_hash"}]

Place == {"closed", "script", "inspect", "alter", "index", "stamp", "ready", "refused", "dead"}

NoProc == [pc |-> "closed", target |-> 0, done |-> 0]

\* The objects that migrations up to v create.
HasSchema(d, v) == /\ v >= 1 => d.created = ScriptLength
                   /\ v >= 2 => d.added = {"synced_hash", "idx_file_synced_hash"}

\* A new file, or one left complete at some version by this build or by a later one.
MigrationsInit ==
  /\ db \in Database
  /\ db.created = IF db.version >= 1 THEN ScriptLength ELSE 0
  /\ db.added = IF db.version >= 2 THEN {"synced_hash", "idx_file_synced_hash"} ELSE {}
  /\ durable = db
  /\ proc = [p \in Procs |-> NoProc]
  /\ deaths = 0

Goto(p, pc) == proc' = [proc EXCEPT ![p].pc = pc]

\* The first statement of migration v.
Apply(p, v) ==
  proc' = [proc EXCEPT ![p] =
             [pc |-> IF v = 1 THEN "script" ELSE "inspect", target |-> v, done |-> 0]]

\* A database taken for current as soon as it has any version (used as a mutant).
OpenTrustingAnyVersion(p) ==
  /\ proc[p].pc = "closed"
  /\ \/ db.version > SchemaVersion /\ Goto(p, "refused")
     \/ db.version \in 1..SchemaVersion /\ Goto(p, "ready")
     \/ db.version = 0 /\ Apply(p, db.version + 1)
  /\ UNCHANGED <<db, durable, deaths>>

\* connect, schema_version and the two early exits of migrate.
Open(p) ==
  /\ proc[p].pc = "closed"
  /\ \/ db.version > SchemaVersion /\ Goto(p, "refused")
     \/ db.version = SchemaVersion /\ Goto(p, "ready")
     \/ db.version < SchemaVersion /\ Apply(p, db.version + 1)
  /\ UNCHANGED <<db, durable, deaths>>

\* A script that is left one statement too early (used as a mutant).
RunScriptShort(p) ==
  LET next == proc[p].done + 1 IN
  /\ proc[p].pc = "script"
  /\ db' = [db EXCEPT !.created = IF next > @ THEN next ELSE @]
  /\ proc' = [proc EXCEPT ![p].done = next,
                          ![p].pc = IF next + 1 = ScriptLength THEN "stamp" ELSE "script"]
  /\ UNCHANGED <<durable, deaths>>

\* 001: the next CREATE ... IF NOT EXISTS of the script.
RunScript(p) ==
  LET next == proc[p].done + 1 IN
  /\ proc[p].pc = "script"
  /\ db' = [db EXCEPT !.created = IF next > @ THEN next ELSE @]
  /\ proc' = [proc EXCEPT ![p].done = next,
                          ![p].pc = IF next = ScriptLength THEN "stamp" ELSE "script"]
  /\ UNCHANGED <<durable, deaths>>

\* 002 without the look at the columns (used as a mutant).
InspectNothing(p) ==
  /\ proc[p].pc = "inspect"
  /\ Goto(p, "alter")
  /\ UNCHANGED <<db, durable, deaths>>

\* 002: PRAGMA table_info(file),
Inspect(p) ==
  /\ proc[p].pc = "inspect"
  /\ Goto(p, IF "synced_hash" \in db.added THEN "index" ELSE "alter")
  /\ UNCHANGED <<db, durable, deaths>>

\* then ALTER TABLE,
AddColumn(p) ==
  /\ proc[p].pc = "alter"
  /\ "synced_hash" \notin db.added
  /\ db' = [db EXCEPT !.added = @ \cup {"synced_hash"}]
  /\ Goto(p, "index")
  /\ UNCHANGED <<durable, deaths>>

\* which fails if another process was faster: DbError,
AddColumnTwice(p) ==
  /\ proc[p].pc = "alter"
  /\ "synced_hash" \in db.added
  /\ Goto(p, "dead")
  /\ UNCHANGED <<db, durable, deaths>>

\* and CREATE INDEX IF NOT EXISTS.
CreateIndex(p) ==
  /\ proc[p].pc = "index"
  /\ db' = [db EXCEPT !.added = @ \cup {"idx_file_synced_hash"}]
  /\ Goto(p, "stamp")
  /\ UNCHANGED <<durable, deaths>>

\* A loop that stamps the last version at once (used as a mutant).
StampLastVersion(p) ==
  /\ proc[p].pc = "stamp"
  /\ db' = [db EXCEPT !.version = SchemaVersion]
  /\ IF proc[p].target = SchemaVersion
     THEN Goto(p, "ready")
     ELSE Apply(p, proc[p].target + 1)
  /\ UNCHANGED <<durable, deaths>>

\* PRAGMA user_version: it may take the version back below what another process wrote.
Stamp(p) ==
  /\ proc[p].pc = "stamp"
  /\ db' = [db EXCEPT !.version = proc[p].target]
  /\ IF proc[p].target = SchemaVersion
     THEN Goto(p, "ready")
     ELSE Apply(p, proc[p].target + 1)
  /\ UNCHANGED <<durable, deaths>>

\* A crash between two statements, or a lock that outlasts busy_timeout.
Dies(p) ==
  /\ deaths < MaxDeaths
  /\ proc[p].pc \notin {"closed", "ready", "refused", "dead"}
  /\ deaths' = deaths + 1
  /\ Goto(p, "dead")
  /\ UNCHANGED <<db, durable>>

\* Cron invokes the program again.
Again(p) ==
  /\ proc[p].pc = "dead"
  /\ proc' = [proc EXCEPT ![p] = NoProc]
  /\ UNCHANGED <<db, durable, deaths>>

\* The write-ahead log reaches the disk, now and then (synchronous = NORMAL).
Checkpoint ==
  /\ durable' = db
  /\ UNCHANGED <<db, proc, deaths>>

\* Power fails: every process dies, and what the log had not got to is undone.
PowerFailure ==
  /\ deaths < MaxDeaths
  /\ deaths' = deaths + 1
  /\ db' = durable
  /\ proc' = [p \in Procs |-> NoProc]
  /\ UNCHANGED durable

Migrate(p) ==
  \/ Open(p) \/ RunScript(p)
  \/ Inspect(p) \/ AddColumn(p) \/ AddColumnTwice(p) \/ CreateIndex(p)
  \/ Stamp(p) \/ Again(p)

MigrationsNext == \/ \E p \in Procs : Migrate(p) \/ Dies(p)
                  \/ Checkpoint \/ PowerFailure

MigrationsSpec == MigrationsInit /\ [][MigrationsNext]_migrationVars

\* A live process executes its next statement, and cron starts it again if it died.
FairMigrationsSpec == MigrationsSpec /\ \A p \in Procs : WF_migrationVars(Migrate(p))

-----------------------------------------------------------------------------
(* Promises *)

MigrationsTypeOK ==
  /\ db \in Database
  /\ durable \in Database
  /\ proc \in [Procs -> [pc: Place, target: 0..SchemaVersion, done: 0..ScriptLength]]
  /\ deaths \in 0..MaxDeaths

\* user_version never claims a migration whose objects are not all there, although
\* it is written without a transaction, by processes that crash, backwards, and undone
\* by a power failure: the next invocation skips exactly what it claims.
VersionIsEarned == HasSchema(db, db.version)

\* A command that got past migrate() finds every object it will query.
ReadyIsComplete == \A p \in Procs : proc[p].pc = "ready" => HasSchema(db, SchemaVersion)

\* "A crash part-way leaves user_version untouched and the next run replays the
\* migration": every invocation gets through in the end, or the database was newer.
EveryoneGetsReady == \A p \in Procs : <>[](proc[p].pc \in {"ready", "refused"})

\* What a process at its place knows of the database.
Knows(p) ==
  LET q == proc[p] IN
  /\ q.pc \in {"script", "inspect", "alter", "index", "stamp"} => q.target \in {1, 2}
  /\ q.pc = "script" => q.target = 1 /\ q.done <= db.created /\ q.done < ScriptLength
  /\ q.pc \in {"inspect", "alter", "index"} => q.target = 2 /\ HasSchema(db, 1)
  /\ q.pc = "index" => "synced_hash" \in db.added
  /\ q.pc = "stamp" => HasSchema(db, q.target)
  /\ q.pc = "ready" => HasSchema(db, SchemaVersion)

\* The inductive invariant: a process has what it knows from the statements it executed,
\* and no statement of another one takes it away.
MigrationsInv ==
  /\ MigrationsTypeOK
  /\ VersionIsEarned
  /\ HasSchema(durable, durable.version)
  /\ \A p \in Procs : Knows(p)
=============================================================================
