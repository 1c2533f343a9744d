------------------------------ MODULE MigrateDev ------------------------------
(***************************************************************************)
(* The authoring half of the migration engine: `ferriorm migrate dev`      *)
(* diffs schema.ferriorm against what the migrations directory stands for, *)
(* writes a numbered migration directory file by file, applies what is     *)
(* pending and regenerates the client.  `ferriorm migrate deploy` runs in  *)
(* the same model as the command that only applies.                        *)
(*                                                                         *)
(* Between and during the commands the developer edits the schema, a       *)
(* migration.sql (development.md:46), deletes a directory or resets the    *)
(* database.                                                               *)
(*                                                                         *)
(* A schema is the set of its tables, and a migration.sql the tables it    *)
(* creates and drops.  A database takes a migration as a whole here;       *)
(* MigrationRunner takes that step apart.                                  *)
(***************************************************************************)
EXTENDS Integers, FiniteSets

CONSTANTS
  Proc,       \* processes that run the command in one project
  Table,      \* tables a schema may have
  Label,      \* what --name may be, by rank in sorted order
  MaxSeq,     \* bound on the sequence number of a directory
  Strategies, \* how `migrate dev` may be invoked: plain, with --snapshot
  Absent,     \* "there is no such file"
  Refused,    \* the outcome of a replay that the database refuses
  MaxCrashes, \* bound on crashes
  MaxEdits,   \* bound on changes of schema.ferriorm
  MaxRewrites, \* bound on migration.sql files edited by hand
  MaxDeletes, \* bound on migration directories deleted by hand
  MaxResets   \* bound on databases dropped and recreated by hand

ASSUME LabelAssumption == Label \subseteq Nat
ASSUME StrategyAssumption == Strategies \subseteq {"shadow", "snapshot"}
\* No schema, migration or directory name is one of the two markers.
ASSUME MarkersAssumption ==
  /\ \A tables \in SUBSET Table : tables # Refused /\ tables # Absent
  /\ \A create, drop \in SUBSET Table : [create |-> create, drop |-> drop] # Absent
  /\ \A n \in (1..MaxSeq) \X Label : n # Absent
ASSUME DevBounds ==
  /\ MaxSeq \in Nat /\ MaxCrashes \in Nat /\ MaxEdits \in Nat
  /\ MaxRewrites \in Nat /\ MaxDeletes \in Nat /\ MaxResets \in Nat

VARIABLES
  schema,     \* schema.ferriorm
  sqlFile,    \* migrations/<name>/migration.sql
  snapshot,   \* migrations/<name>/_schema_snapshot.json
  database,   \* the tables of the development database
  ledger,     \* the rows of its _ferriorm_migrations
  client,     \* the schema that src/generated was generated from
  pc,         \* how far each process is
  command,    \* what it runs: deploy, or dev with which strategy
  target,     \* the schema it parsed
  plan,       \* the migration it is about to write
  newName,    \* the directory it writes to
  captured, todo,  \* apply_pending: the rows it read, the names left
  text,       \* the migration.sql it read and executed
  budget      \* how much of each bound is left

\* An auxiliary variable: a migration.sql was edited by hand and no shadow
\* run has started a migration from the edited files since.
VARIABLE edited

fileVars  == <<sqlFile, snapshot>>
dbVars    == <<database, ledger>>
applyVars == <<captured, todo, text>>
envVars   == <<budget, edited>>
vars == <<schema, fileVars, dbVars, client, pc, command, target, plan, newName,
          applyVars, envVars>>

\* A directory name is "{seq:04}_{label}"; names sort by number, then label.
DirName == (1..MaxSeq) \X Label

Before(a, b) == a[1] < b[1] \/ (a[1] = b[1] /\ a[2] < b[2])

Sql == [create : SUBSET Table, drop : SUBSET Table]

NoPlan == [create |-> {}, drop |-> {}]

\* Directories that contain a migration.sql; the others are not listed.
Listed == {n \in DirName : sqlFile[n] # Absent}

\* What a database with these tables makes of a migration.
Accepts(tables, sql) == sql.create \cap tables = {} /\ sql.drop \subseteq tables

After(tables, sql) == (tables \cup sql.create) \ sql.drop

Earlier(names, n) == {m \in names : Before(m, n)}

\* What migrations that were all accepted leave: the tables one of them
\* creates and no later one drops.
Standing(files, names) ==
  {t \in Table : \E m \in names : /\ t \in files[m].create
                                 /\ \A k \in names : Before(m, k) => t \notin files[k].drop}

\* The tables of an empty database after the named migrations, each executed
\* on what those before it leave.
ReplayOf(files, names) ==
  IF \A n \in names : Accepts(Standing(files, Earlier(names, n)), files[n])
  THEN Standing(files, names) ELSE Refused

Replay(names) == ReplayOf(sqlFile, names)

\* The newest snapshot in the directory, and an empty schema without one.
LatestSnapshot ==
  LET with == {n \in DirName : snapshot[n] # Absent}
  IN  IF with = {} THEN {}
      ELSE snapshot[CHOOSE n \in with : \A m \in with \ {n} : Before(m, n)]

\* Mutant: the shadow strategy trusts the snapshot of the last migration.
PreviousSnapshot(p) == LatestSnapshot

\* The schema the new migration starts from.
Previous(p) == IF command[p] = "shadow" THEN Replay(Listed) ELSE LatestSnapshot

\* diff_schemas, at the granularity of tables.
DiffSchemas(from, to) == [create |-> to \ from, drop |-> from \ to]

\* Mutant: the count itself.
NumberListed == Cardinality(Listed)

\* One more than the number of listed directories.
NextSequenceNumber == Cardinality(Listed) + 1

Init ==
  /\ schema \in SUBSET Table
  /\ sqlFile = [n \in DirName |-> Absent]
  /\ snapshot = [n \in DirName |-> Absent]
  /\ database = {}
  /\ ledger = {}
  /\ client = {}
  /\ pc = [p \in Proc |-> "idle"]
  /\ command = [p \in Proc |-> "deploy"]
  /\ target = [p \in Proc |-> {}]
  /\ plan = [p \in Proc |-> NoPlan]
  /\ newName = [p \in Proc |-> Absent]
  /\ captured = [p \in Proc |-> {}]
  /\ todo = [p \in Proc |-> {}]
  /\ text = [p \in Proc |-> Absent]
  /\ budget = [crashes |-> MaxCrashes, edits |-> MaxEdits, rewrites |-> MaxRewrites,
               deletes |-> MaxDeletes, resets |-> MaxResets]
  /\ edited = FALSE

-----------------------------------------------------------------------------
(* create_migration, one file operation at a time. *)

Goto(p, from, to) == pc[p] = from /\ pc' = [pc EXCEPT ![p] = to]

\* migrate dev: the schema file is parsed first.
StartDev(p, strategy) ==
  /\ Goto(p, "idle", "previous")
  /\ command' = [command EXCEPT ![p] = strategy]
  /\ target' = [target EXCEPT ![p] = schema]
  /\ UNCHANGED <<schema, fileVars, dbVars, client, plan, newName, applyVars, envVars>>

\* migrate deploy goes straight to applying.
StartDeploy(p) ==
  /\ Goto(p, "idle", "apply")
  /\ command' = [command EXCEPT ![p] = "deploy"]
  /\ UNCHANGED <<schema, fileVars, dbVars, client, target, plan, newName, applyVars, envVars>>

\* A migration in the directory does not replay: the shadow run fails.
ReplayFails(p) ==
  /\ Previous(p) = Refused
  /\ Goto(p, "previous", "failed")
  /\ UNCHANGED <<schema, fileVars, dbVars, client, command, target, plan, newName,
                 applyVars, envVars>>

\* "No schema changes detected.": the command returns at once, with
\* nothing applied and nothing generated.
NoChanges(p) ==
  /\ Previous(p) = target[p]
  /\ Goto(p, "previous", "done")
  /\ UNCHANGED <<schema, fileVars, dbVars, client, command, target, plan, newName,
                 applyVars, envVars>>

Diff(p) ==
  /\ Previous(p) \notin {Refused, target[p]}
  /\ Goto(p, "previous", "number")
  /\ plan' = [plan EXCEPT ![p] = DiffSchemas(Previous(p), target[p])]
  /\ edited' = (edited /\ command[p] # "shadow")
  /\ UNCHANGED <<schema, fileVars, dbVars, client, command, target, newName,
                 applyVars, budget>>

\* The directory is named by counting, and created unless it exists.
NumberDirectory(p, label) ==
  /\ NextSequenceNumber <= MaxSeq
  /\ Goto(p, "number", "writeSql")
  /\ newName' = [newName EXCEPT ![p] = <<NextSequenceNumber, label>>]
  /\ UNCHANGED <<schema, fileVars, dbVars, client, command, target, plan,
                 applyVars, envVars>>

WriteSql(p) ==
  /\ Goto(p, "writeSql", "writeSnapshot")
  /\ sqlFile' = [sqlFile EXCEPT ![newName[p]] = plan[p]]
  /\ UNCHANGED <<schema, snapshot, dbVars, client, command, target, plan, newName,
                 applyVars, envVars>>

\* Mutant: the schema before the migration is written.
WritePreviousSnapshot(p) ==
  /\ Goto(p, "writeSnapshot", "apply")
  /\ snapshot' = [snapshot EXCEPT ![newName[p]] = LatestSnapshot]
  /\ UNCHANGED <<schema, sqlFile, dbVars, client, command, target, plan, newName,
                 applyVars, envVars>>

WriteSnapshot(p) ==
  /\ Goto(p, "writeSnapshot", "apply")
  /\ snapshot' = [snapshot EXCEPT ![newName[p]] = target[p]]
  /\ UNCHANGED <<schema, sqlFile, dbVars, client, command, target, plan, newName,
                 applyVars, envVars>>

-----------------------------------------------------------------------------
(* apply_pending, one migration at a time, then generate. *)

\* Mutant: the list was taken before the new migration was written.
BeginWithOlder(p) ==
  /\ Goto(p, "apply", "loop")
  /\ captured' = [captured EXCEPT ![p] = ledger]
  /\ todo' = [todo EXCEPT ![p] = Listed \ {newName[p]}]
  /\ UNCHANGED <<schema, fileVars, dbVars, client, command, target, plan, newName, text,
                 envVars>>

BeginApply(p) ==
  /\ Goto(p, "apply", "loop")
  /\ captured' = [captured EXCEPT ![p] = ledger]
  /\ todo' = [todo EXCEPT ![p] = Listed]
  /\ UNCHANGED <<schema, fileVars, dbVars, client, command, target, plan, newName, text,
                 envVars>>

AtHead(p, n) == n \in todo[p] /\ \A m \in todo[p] \ {n} : Before(n, m)

\* The row of a migration with this text: its checksum stands for the text.
Row(n, sql) == [name |-> n, checksum |-> sql]

Recorded(rows) == {r.name : r \in rows}

SkipApplied(p, n) ==
  /\ AtHead(p, n)
  /\ sqlFile[n] # Absent
  /\ Row(n, sqlFile[n]) \in captured[p]
  /\ Goto(p, "loop", "loop")
  /\ todo' = [todo EXCEPT ![p] = @ \ {n}]
  /\ UNCHANGED <<schema, fileVars, dbVars, client, command, target, plan, newName,
                 captured, text, envVars>>

ExecuteMigration(p, n) ==
  /\ AtHead(p, n)
  /\ sqlFile[n] # Absent
  /\ n \notin Recorded(captured[p])
  /\ Accepts(database, sqlFile[n])
  /\ Goto(p, "loop", "mark")
  /\ database' = After(database, sqlFile[n])
  /\ text' = [text EXCEPT ![p] = sqlFile[n]]
  /\ UNCHANGED <<schema, fileVars, ledger, client, command, target, plan, newName,
                 captured, todo, envVars>>

\* Mutant: the row has the checksum of the file as it is by now.
MarkReread(p, n) ==
  /\ AtHead(p, n)
  /\ n \notin Recorded(ledger)
  /\ Goto(p, "mark", "loop")
  /\ ledger' = ledger \cup {Row(n, sqlFile[n])}
  /\ todo' = [todo EXCEPT ![p] = @ \ {n}]
  /\ text' = [text EXCEPT ![p] = Absent]
  /\ UNCHANGED <<schema, fileVars, database, client, command, target, plan, newName,
                 captured, envVars>>

\* The checksum is that of the text that was executed, whatever the file has
\* become since.
MarkApplied(p, n) ==
  /\ AtHead(p, n)
  /\ n \notin Recorded(ledger)
  /\ Goto(p, "mark", "loop")
  /\ ledger' = ledger \cup {Row(n, text[p])}
  /\ todo' = [todo EXCEPT ![p] = @ \ {n}]
  /\ text' = [text EXCEPT ![p] = Absent]
  /\ UNCHANGED <<schema, fileVars, database, client, command, target, plan, newName,
                 captured, envVars>>

\* Mutant: a refused migration is passed over.
PassOverRefused(p, n) ==
  /\ AtHead(p, n)
  /\ n \notin Recorded(captured[p])
  /\ sqlFile[n] # Absent => ~ Accepts(database, sqlFile[n])
  /\ Goto(p, "loop", "loop")
  /\ todo' = [todo EXCEPT ![p] = @ \ {n}]
  /\ UNCHANGED <<schema, fileVars, dbVars, client, command, target, plan, newName,
                 captured, text, envVars>>

\* A missing file, a checksum mismatch, a refused statement, a second row.
ApplyFails(p, n) ==
  /\ AtHead(p, n)
  /\ \/ pc[p] = "loop" /\ sqlFile[n] = Absent
     \/ pc[p] = "loop" /\ n \in Recorded(captured[p]) /\ Row(n, sqlFile[n]) \notin captured[p]
     \/ /\ pc[p] = "loop" /\ sqlFile[n] # Absent
        /\ n \notin Recorded(captured[p]) /\ ~ Accepts(database, sqlFile[n])
     \/ pc[p] = "mark" /\ n \in Recorded(ledger)
  /\ pc' = [pc EXCEPT ![p] = "failed"]
  /\ UNCHANGED <<schema, fileVars, dbVars, client, command, target, plan, newName,
                 applyVars, envVars>>

\* All applied: dev goes on to regenerate the client, deploy is done.
FinishApply(p) ==
  /\ todo[p] = {}
  /\ Goto(p, "loop", IF command[p] = "deploy" THEN "done" ELSE "generate")
  /\ UNCHANGED <<schema, fileVars, dbVars, client, command, target, plan, newName,
                 applyVars, envVars>>

\* generate::run parses schema.ferriorm a second time.
Generate(p) ==
  /\ Goto(p, "generate", "done")
  /\ client' = schema
  /\ UNCHANGED <<schema, fileVars, dbVars, command, target, plan, newName,
                 applyVars, envVars>>

ForgetLocals(p) ==
  /\ target' = [target EXCEPT ![p] = {}]
  /\ plan' = [plan EXCEPT ![p] = NoPlan]
  /\ newName' = [newName EXCEPT ![p] = Absent]
  /\ captured' = [captured EXCEPT ![p] = {}]
  /\ todo' = [todo EXCEPT ![p] = {}]
  /\ text' = [text EXCEPT ![p] = Absent]
  /\ command' = [command EXCEPT ![p] = "deploy"]

Exit(p) ==
  /\ pc[p] \in {"done", "failed"}
  /\ pc' = [pc EXCEPT ![p] = "idle"]
  /\ ForgetLocals(p)
  /\ UNCHANGED <<schema, fileVars, dbVars, client, envVars>>

-----------------------------------------------------------------------------
(* The environment. *)

Spend(what) == budget[what] > 0 /\ budget' = [budget EXCEPT ![what] = @ - 1]

Crash(p) ==
  /\ pc[p] \notin {"idle", "done", "failed"}
  /\ Spend("crashes")
  /\ pc' = [pc EXCEPT ![p] = "idle"]
  /\ ForgetLocals(p)
  /\ UNCHANGED <<schema, fileVars, dbVars, client, edited>>

EditSchema(tables) ==
  /\ tables # schema
  /\ Spend("edits")
  /\ schema' = tables
  /\ UNCHANGED <<fileVars, dbVars, client, pc, command, target, plan, newName, applyVars,
                 edited>>

\* The developer edits a migration.sql that was generated, before or after it
\* was applied, also while a command runs.
EditMigration(n, sql) ==
  /\ n \in Listed
  /\ sql # sqlFile[n]
  /\ Spend("rewrites")
  /\ sqlFile' = [sqlFile EXCEPT ![n] = sql]
  /\ edited' = TRUE
  /\ UNCHANGED <<schema, snapshot, dbVars, client, pc, command, target, plan, newName,
                 applyVars>>

\* rm -r migrations/<name>, of a migration the database has not recorded,
\* while no command runs.
DeleteDirectory(n) ==
  /\ \A p \in Proc : pc[p] = "idle"
  /\ n \in Listed \ Recorded(ledger)
  /\ Spend("deletes")
  /\ sqlFile' = [sqlFile EXCEPT ![n] = Absent]
  /\ snapshot' = [snapshot EXCEPT ![n] = Absent]
  /\ UNCHANGED <<schema, dbVars, client, pc, command, target, plan, newName, applyVars,
                 edited>>

\* The database is dropped and recreated while no command runs.
ResetDatabase ==
  /\ \A p \in Proc : pc[p] = "idle"
  /\ Spend("resets")
  /\ database' = {}
  /\ ledger' = {}
  /\ UNCHANGED <<schema, fileVars, client, pc, command, target, plan, newName, applyVars,
                 edited>>

-----------------------------------------------------------------------------
CommandStep(p) ==
  \/ ReplayFails(p) \/ NoChanges(p) \/ Diff(p)
  \/ \E label \in Label : NumberDirectory(p, label)
  \/ WriteSql(p) \/ WriteSnapshot(p)
  \/ BeginApply(p)
  \/ \E n \in DirName : SkipApplied(p, n) \/ ExecuteMigration(p, n)
                          \/ MarkApplied(p, n) \/ ApplyFails(p, n)
  \/ FinishApply(p) \/ Generate(p)

Next ==
  \/ \E p \in Proc, strategy \in Strategies : StartDev(p, strategy)
  \/ \E p \in Proc : StartDeploy(p) \/ CommandStep(p) \/ Exit(p) \/ Crash(p)
  \/ \E tables \in SUBSET Table : EditSchema(tables)
  \/ \E n \in DirName, sql \in Sql : EditMigration(n, sql)
  \/ \E n \in DirName : DeleteDirectory(n)
  \/ ResetDatabase

Spec == Init /\ [][Next]_vars

\* A command that was started runs until it returns, and the developer
\* invokes `migrate dev` again and again.
FairSpec ==
  /\ Spec
  /\ \A p \in Proc :
       /\ WF_vars(CommandStep(p))
       /\ WF_vars(Exit(p))
       /\ SF_vars(\E strategy \in Strategies : StartDev(p, strategy))

-----------------------------------------------------------------------------
(* Properties. *)

Schemas == SUBSET Table

Rows == [name : DirName, checksum : Sql \cup {Absent}]

\* Two commands never run at the same time: what one counts and diffs is
\* still there when it writes.
OneDeveloper == \A p, q \in Proc : p = q

\* No snapshot is missing where one is read: either no command is killed
\* between its two files, or nobody passes --snapshot.
SnapshotsKept == MaxCrashes = 0 \/ "snapshot" \notin Strategies

\* The types of the variables.
TypeOK ==
  /\ schema \in Schemas
  /\ sqlFile \in [DirName -> Sql \cup {Absent}]
  /\ snapshot \in [DirName -> Schemas \cup {Absent}]
  /\ database \in Schemas
  /\ ledger \subseteq Rows
  /\ client \in Schemas
  /\ pc \in [Proc -> {"idle", "previous", "number", "writeSql", "writeSnapshot",
                      "apply", "loop", "mark", "generate", "done", "failed"}]
  /\ command \in [Proc -> {"shadow", "snapshot", "deploy"}]
  /\ target \in [Proc -> Schemas]
  /\ plan \in [Proc -> Sql]
  /\ newName \in [Proc -> DirName \cup {Absent}]
  /\ captured \in [Proc -> SUBSET Rows]
  /\ todo \in [Proc -> SUBSET DirName]
  /\ text \in [Proc -> Sql \cup {Absent}]
  /\ budget \in [{"crashes", "edits", "rewrites", "deletes", "resets"} -> Nat]
  /\ edited \in BOOLEAN

\* Nobody deleted a migration directory; nobody edited a migration or reset
\* the database either, and no command was killed.
Undeleted == budget.deletes = MaxDeletes

Undisturbed ==
  /\ Undeleted
  /\ budget.rewrites = MaxRewrites
  /\ budget.resets = MaxResets
  /\ budget.crashes = MaxCrashes

\* The directory is always a history a fresh database can be built from: the
\* shadow replay of the next `migrate dev`, or a first deploy, accepts it.
\* What an edit by hand breaks is mended once a shadow run could start from it.
HistoryReplays == Undeleted /\ ~ edited => Replay(Listed) # Refused

\* A migration the command wrote moves the whole history to the schema it
\* was written for, until the next one is written: "accurate even when
\* migration.sql files are manually edited" with the shadow strategy
\* (runner.rs:28), and with snapshots as long as none is.
MigrationReachesTarget ==
  \A p \in Proc :
    Undeleted /\ ~ edited /\ pc[p] \in {"writeSnapshot", "apply"} /\ command[p] # "deploy"
      => Replay(Listed) = target[p]

\* development.md:77, the snapshot "records the schema state after the last
\* migration": between commands it agrees with a replay of the directory.  It
\* "drifts if migration.sql files are edited" (runner.rs:33), whichever
\* migrations --snapshot writes on top, and is right again with the first one
\* that a shadow run writes.
SnapshotIsReplay ==
  Undeleted /\ ~ edited /\ (\A p \in Proc : pc[p] = "idle") => LatestSnapshot = Replay(Listed)

\* The client is regenerated only when the migration just written is in the
\* database, whatever had to be applied before it.
GeneratesAfterApply ==
  \A p \in Proc : pc[p] = "generate" => newName[p] \in Recorded(ledger)

\* The texts the rows of the ledger stand for, with one more or without.
RecordedSql == [n \in Recorded(ledger) |-> (CHOOSE r \in ledger : r.name = n).checksum]

RecordedSqlAnd(n, sql) ==
  [m \in Recorded(ledger) \cup {n} |-> IF m = n THEN sql ELSE RecordedSql[m]]

\* The migration the next command will apply first.
FirstPending ==
  {n \in Listed \ Recorded(ledger) : \A m \in Listed \ Recorded(ledger) : m = n \/ Before(n, m)}

\* Texts that may be executed and not recorded: the one a command is about to
\* record, and after a crash the one that a killed command left.
InDoubt(n) ==
  {text[p] : p \in {q \in Proc : pc[q] = "mark"}}
    \cup (IF budget.crashes < MaxCrashes THEN {sqlFile[n]} ELSE {})

\* What a killed command executed is still on disk.
Traceable == budget.crashes = MaxCrashes \/ budget.rewrites = MaxRewrites

\* The database is what the texts recorded in its ledger make of an empty
\* one, whatever became of the files, or at most one migration further, the
\* one that comes next: so a checksum that matches tells what was executed.
DatabaseIsReplay ==
  Undeleted /\ Traceable =>
    \/ database = ReplayOf(RecordedSql, Recorded(ledger))
    \/ \E n \in FirstPending : \E sql \in InDoubt(n) :
         database = ReplayOf(RecordedSqlAnd(n, sql), Recorded(ledger) \cup {n})

\* Running `migrate dev` again and again after the last edit brings the
\* database in line with the schema, unless somebody interfered with the
\* commands, and however often the schema was edited while they ran.
SyncsDatabase == <>[](Undisturbed => database = schema)
=============================================================================
