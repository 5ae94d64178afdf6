-------------------------- MODULE MigrationsProofs --------------------------
(***************************************************************************)
(* VersionIsEarned and ReadyIsComplete for any number of processes, any     *)
(* length of the script and any number of deaths.  A process carries the    *)
(* proof with it: at each of its places the statements it has executed      *)
(* have taken effect; nothing is dropped while it lives, and a power        *)
(* failure that undoes them takes the process and the version with it.      *)
(***************************************************************************)
EXTENDS Migrations, TLAPS

\* Nothing that exists is dropped while power stays on.
Grows == /\ db' \in Database
         /\ db.created <= db'.created
         /\ db.added \subseteq db'.added
         /\ durable' \in {db, durable}

\* A process that does not move knows what it knew.
LEMMA StillKnows ==
  ASSUME MigrationsInv, Grows, NEW p \in Procs, proc'[p] = proc[p]
  PROVE  Knows(p)'
BY MigrationsAssumption
   DEF MigrationsInv, MigrationsTypeOK, Database, Knows, HasSchema, Grows, SchemaVersion

\* The database's own claim survives a step that leaves the version alone.
LEMMA StillEarned ==
  ASSUME MigrationsInv, Grows, db'.version = db.version
  PROVE  VersionIsEarned' /\ HasSchema(durable, durable.version)'
BY MigrationsAssumption
   DEF MigrationsInv, MigrationsTypeOK, Database, VersionIsEarned, HasSchema, Grows, SchemaVersion

LEMMA MigrationsInitInv == MigrationsInit => MigrationsInv
<1> SUFFICES ASSUME MigrationsInit PROVE MigrationsInv
  OBVIOUS
<1> USE MigrationsAssumption
<1>1. MigrationsTypeOK
  BY DEF MigrationsInit, MigrationsTypeOK, NoProc, Place, SchemaVersion
<1>2. VersionIsEarned /\ HasSchema(durable, durable.version)
  BY DEF MigrationsInit, Database, VersionIsEarned, HasSchema, SchemaVersion
<1>3. \A p \in Procs : Knows(p)
  BY DEF MigrationsInit, Knows, NoProc
<1> QED
  BY <1>1, <1>2, <1>3 DEF MigrationsInv

\* The statements of a process, other than the one that writes the version.
Statement(p) ==
  Open(p) \/ RunScript(p) \/ Inspect(p) \/ AddColumn(p) \/ AddColumnTwice(p) \/ CreateIndex(p)

LEMMA StatementTypeOK ==
  ASSUME MigrationsInv, NEW p \in Procs, Statement(p) \/ Stamp(p) \/ Again(p) \/ Dies(p)
  PROVE  MigrationsTypeOK'
<1> USE MigrationsAssumption
<1> DEFINE Proc == [pc: Place, target: 0..SchemaVersion, done: 0..ScriptLength]
<1>1. db \in Database /\ durable \in Database /\ proc \in [Procs -> Proc] /\ proc[p] \in Proc
  BY DEF MigrationsInv, MigrationsTypeOK
<1>2. CASE RunScript(p)
  <2> DEFINE next == proc[p].done + 1
             pc == IF next = ScriptLength THEN "stamp" ELSE "script"
  <2>1. proc[p].done < ScriptLength
    BY <1>2 DEF RunScript, MigrationsInv, Knows
  <2>2. next \in 0..ScriptLength /\ pc \in Place
    BY <1>1, <2>1 DEF Place
  <2>3. /\ proc' = [proc EXCEPT ![p].done = next, ![p].pc = pc]
        /\ db' = [db EXCEPT !.created = IF next > @ THEN next ELSE @]
        /\ durable' = durable /\ deaths' = deaths
    BY <1>2 DEF RunScript
  <2> HIDE DEF next, pc
  <2>4. proc' \in [Procs -> Proc] /\ db' \in Database
    BY <1>1, <2>2, <2>3 DEF Database
  <2> QED
    BY <1>1, <2>3, <2>4 DEF MigrationsInv, MigrationsTypeOK
<1>3. CASE Open(p)
  BY <1>1, <1>3 DEF Open, Apply, Goto, MigrationsInv, MigrationsTypeOK, Database, Place, SchemaVersion
<1>4. CASE Inspect(p) \/ AddColumn(p) \/ AddColumnTwice(p) \/ CreateIndex(p)
  BY <1>1, <1>4 DEF Inspect, AddColumn, AddColumnTwice, CreateIndex, Goto, MigrationsInv,
                    MigrationsTypeOK, Database, Place
<1>5. CASE Stamp(p)
  BY <1>1, <1>5 DEF Stamp, Apply, Goto, MigrationsInv, MigrationsTypeOK, Database, Place,
                    SchemaVersion
<1>6. CASE Again(p) \/ Dies(p)
  BY <1>1, <1>6 DEF Again, Dies, Goto, NoProc, MigrationsInv, MigrationsTypeOK, Place, SchemaVersion
<1> QED
  BY <1>2, <1>3, <1>4, <1>5, <1>6 DEF Statement

LEMMA StatementStepInv ==
  ASSUME MigrationsInv, NEW p \in Procs, Statement(p) \/ Stamp(p) \/ Again(p) \/ Dies(p)
  PROVE  MigrationsInv'
<1> USE MigrationsAssumption
<1>1. \A q \in Procs \ {p} : proc'[q] = proc[q]
  BY DEF Statement, Dies, Open, RunScript, Inspect, AddColumn, AddColumnTwice, CreateIndex,
         Stamp, Again, Goto, Apply, MigrationsInv, MigrationsTypeOK
<1>2. MigrationsTypeOK'
  BY StatementTypeOK
<1>3. Grows
  BY <1>2 DEF Statement, Dies, Open, RunScript, Inspect, AddColumn, AddColumnTwice, CreateIndex,
              Stamp, Again, Grows, MigrationsInv, MigrationsTypeOK, Database
<1>4. \A q \in Procs \ {p} : Knows(q)'
  BY <1>1, <1>3, StillKnows
<1>5. SUFFICES VersionIsEarned' /\ HasSchema(durable, durable.version)' /\ Knows(p)'
  BY <1>2, <1>4 DEF MigrationsInv
<1>6. db'.version = db.version \/ Stamp(p)
  BY DEF Statement, Dies, Open, RunScript, Inspect, AddColumn, AddColumnTwice, CreateIndex, Again,
         MigrationsInv, MigrationsTypeOK, Database
<1>7. CASE Stamp(p)
  <2>1. db.created = ScriptLength /\ HasSchema(db, proc[p].target) /\ proc[p].target \in {1, 2}
    BY <1>7 DEF Stamp, MigrationsInv, Knows, HasSchema
  <2>2. durable' = durable /\ db' = [db EXCEPT !.version = proc[p].target]
    BY <1>7 DEF Stamp
  <2>3. VersionIsEarned' /\ HasSchema(durable, durable.version)'
    BY <2>1, <2>2 DEF MigrationsInv, MigrationsTypeOK, Database, VersionIsEarned, HasSchema
  <2>4. Knows(p)'
    BY <1>7, <2>1, <2>2 DEF Stamp, Apply, Goto, MigrationsInv, MigrationsTypeOK, Database, Knows,
                            HasSchema, SchemaVersion
  <2> QED
    BY <2>3, <2>4
<1>8. CASE ~Stamp(p)
  <2>1. VersionIsEarned' /\ HasSchema(durable, durable.version)'
    BY <1>3, <1>6, <1>8, StillEarned
  <2>2. CASE Open(p)
    BY <2>1, <2>2 DEF Open, Apply, Goto, MigrationsInv, MigrationsTypeOK, Database,
                      VersionIsEarned, Knows, HasSchema, SchemaVersion
  <2>3. CASE RunScript(p)
    BY <2>1, <2>3 DEF RunScript, MigrationsInv, MigrationsTypeOK, Database, Knows, HasSchema
  <2>4. CASE Inspect(p) \/ AddColumn(p) \/ AddColumnTwice(p)
    BY <2>1, <2>4 DEF Inspect, AddColumn, AddColumnTwice, Goto, MigrationsInv, MigrationsTypeOK,
                      Database, Knows, HasSchema
  <2>5. CASE CreateIndex(p)
    <3>1. db.added \cup {"idx_file_synced_hash"} = {"synced_hash", "idx_file_synced_hash"}
      BY <2>5 DEF CreateIndex, MigrationsInv, MigrationsTypeOK, Database, Knows
    <3> QED
      BY <2>1, <2>5, <3>1 DEF CreateIndex, Goto, MigrationsInv, MigrationsTypeOK, Database, Knows,
                              HasSchema
  <2>6. CASE Again(p) \/ Dies(p)
    BY <2>1, <2>6 DEF Again, Dies, Goto, NoProc, MigrationsInv, MigrationsTypeOK, Knows, HasSchema
  <2> QED
    BY <1>8, <2>1, <2>2, <2>3, <2>4, <2>5, <2>6 DEF Statement
<1> QED
  BY <1>7, <1>8

LEMMA MigrationsStepInv ==
  ASSUME MigrationsInv, MigrationsNext
  PROVE  MigrationsInv'
<1>1. CASE \E p \in Procs : Migrate(p) \/ Dies(p)
  BY <1>1, StatementStepInv DEF Migrate, Statement
<1>2. CASE Checkpoint
  BY <1>2 DEF Checkpoint, MigrationsInv, MigrationsTypeOK, VersionIsEarned, Knows, HasSchema
<1>3. CASE PowerFailure
  BY <1>3, MigrationsAssumption
     DEF PowerFailure, NoProc, MigrationsInv, MigrationsTypeOK, VersionIsEarned, Knows, HasSchema,
         Place, SchemaVersion
<1> QED
  BY <1>1, <1>2, <1>3 DEF MigrationsNext

\* The inductive invariant holds in every reachable state.
THEOREM MigrationsInvAlways == MigrationsSpec => []MigrationsInv
<1>1. MigrationsInv /\ [MigrationsNext]_migrationVars => MigrationsInv'
  <2>1. MigrationsInv /\ UNCHANGED migrationVars => MigrationsInv'
    BY DEF migrationVars, MigrationsInv, MigrationsTypeOK, VersionIsEarned, Knows, HasSchema
  <2> QED
    BY <2>1, MigrationsStepInv
<1> QED
  BY <1>1, MigrationsInitInv, PTL DEF MigrationsSpec

\* Whatever processes do to a database at once and wherever they die, its version
\* claims only migrations whose objects are all there (migrate() skips what it claims).
THEOREM VersionIsEarnedAlways == MigrationsSpec => []VersionIsEarned
<1>1. MigrationsInv => VersionIsEarned
  BY DEF MigrationsInv
<1> QED
  BY <1>1, MigrationsInvAlways, PTL

\* No command gets past migrate() on an incomplete schema.
THEOREM ReadyIsCompleteAlways == MigrationsSpec => []ReadyIsComplete
<1>1. MigrationsInv => ReadyIsComplete
  BY DEF MigrationsInv, ReadyIsComplete, Knows
<1> QED
  BY <1>1, MigrationsInvAlways, PTL
=============================================================================
