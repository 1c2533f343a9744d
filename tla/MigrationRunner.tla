--------------------------- MODULE MigrationRunner ---------------------------
(***************************************************************************)
(* The applying half of ferriorm's migration engine: what                  *)
(* `ferriorm migrate deploy` (and the second half of `migrate dev`) does   *)
(* to a database through MigrationRunner::apply_pending and                *)
(* apply_pending_sqlite.                                                   *)
(*                                                                         *)
(* Each process is one invocation after another of the command.  It reads  *)
(* the ledger table _ferriorm_migrations once, lists the migrations        *)
(* directory once, and then walks the list in name order; a name it found  *)
(* in the ledger is verified by checksum, any other one is executed and    *)
(* then recorded by a separate INSERT.  No lock and no transaction spans   *)
(* two of these steps, so processes, edits of the directory, failures and  *)
(* crashes interleave between any two of them.                             *)
(*                                                                         *)
(* A migration.sql is a sequence of abstract statements, and its SHA-256   *)
(* checksum is the content itself: two contents never collide.             *)
(***************************************************************************)
EXTENDS Integers, Sequences, FiniteSets

CONSTANTS
  Proc,       \* processes that run the command against one database
  Name,       \* migration directory names; a name is its place in sorted order
  Stmt,       \* SQL statements
  Ddl,        \* statements that fail if their object exists already
  Broken,     \* statements the database always refuses
  Files,      \* the contents a migration.sql may have
  NoFile,     \* "there is no such migration.sql"
  Provider,   \* the datasource's provider
  MaxFaults,  \* bound on crashes and database errors
  MaxEdits,   \* bound on edits of the directory and resets of the database
  MaxRan      \* how often a statement took effect is counted up to this number

ASSUME NameAssumption == Name \subseteq Int
ASSUME StmtAssumption == Ddl \subseteq Stmt /\ Broken \subseteq Stmt
ASSUME FilesAssumption ==
  /\ Files \subseteq Seq(Stmt)
  /\ NoFile \notin Files
  /\ \A f \in Files : \A i, j \in DOMAIN f : f[i] = f[j] => i = j
ASSUME ProviderAssumption == Provider \in {"postgres", "sqlite"}
ASSUME BoundAssumption == MaxFaults \in Nat /\ MaxEdits \in Nat /\ MaxRan \in Nat \ {0}

VARIABLES
  disk,        \* migrations/<name>/migration.sql
  table,       \* does _ferriorm_migrations exist?
  ledger,      \* its rows
  ran,         \* how often each statement of each migration took effect
  pc,          \* where each invocation is
  captured,    \* the rows it read (`applied`)
  todo,        \* the listed names it has not dealt with yet
  file,        \* the content it is executing (`sql`)
  pos,         \* how many of that content's statements have taken effect
  appliedNew,  \* the names it will report (`applied_new`)
  dirty,       \* history: was the directory edited since the invocation began?
  faults, edits  \* how much of the two bounds is used up

dbVars    == <<table, ledger, ran>>
localVars == <<pc, captured, todo, file, pos, appliedNew>>
envVars   == <<disk, dirty, edits>>
vars      == <<disk, table, ledger, ran, pc, captured, todo, file, pos,
               appliedNew, dirty, faults, edits>>

Row == [name : Name, checksum : Files]

PcValues == {"idle", "ensure", "getApplied", "list", "loop", "exec", "mark",
             "done", "failed"}

OnDisk == {n \in Name : disk[n] # NoFile}

Names(rows) == {r.name : r \in rows}

RowOnDisk(n) == [name |-> n, checksum |-> disk[n]]

\* n is the name the loop of process p is at: the least one not dealt with.
AtHead(p, n) == n \in todo[p] /\ \A m \in todo[p] : n <= m

StatementsOf(sql) == {sql[i] : i \in DOMAIN sql}

Init ==
  /\ disk \in [Name -> Files \cup {NoFile}]
  /\ table = FALSE
  /\ ledger = {}
  /\ ran = [n \in Name |-> [s \in Stmt |-> 0]]
  /\ pc = [p \in Proc |-> "idle"]
  /\ captured = [p \in Proc |-> {}]
  /\ todo = [p \in Proc |-> {}]
  /\ file = [p \in Proc |-> NoFile]
  /\ pos = [p \in Proc |-> 0]
  /\ appliedNew = [p \in Proc |-> {}]
  /\ dirty = [p \in Proc |-> FALSE]
  /\ faults = 0
  /\ edits = 0

-----------------------------------------------------------------------------
(* Opening: connect, create the ledger table, read it, list the directory. *)

\* A process with nothing left of its previous invocation in memory.
ForgetLocals(p) ==
  /\ captured' = [captured EXCEPT ![p] = {}]
  /\ todo' = [todo EXCEPT ![p] = {}]
  /\ file' = [file EXCEPT ![p] = NoFile]
  /\ pos' = [pos EXCEPT ![p] = 0]
  /\ appliedNew' = [appliedNew EXCEPT ![p] = {}]

\* The command is invoked: deploy() resolves the url and opens a pool.
Start(p) ==
  /\ pc[p] = "idle"
  /\ pc' = [pc EXCEPT ![p] = "ensure"]
  /\ dirty' = [dirty EXCEPT ![p] = FALSE]
  /\ UNCHANGED <<dbVars, captured, todo, file, pos, appliedNew, disk, edits, faults>>

EnsureTable(p) ==
  /\ pc[p] = "ensure"
  /\ table' = TRUE
  /\ pc' = [pc EXCEPT ![p] = "getApplied"]
  /\ UNCHANGED <<ledger, ran, captured, todo, file, pos, appliedNew, envVars, faults>>

\* The one read of the ledger; everything later is decided from this copy.
GetApplied(p) ==
  /\ pc[p] = "getApplied"
  /\ table
  /\ captured' = [captured EXCEPT ![p] = ledger]
  /\ pc' = [pc EXCEPT ![p] = "list"]
  /\ UNCHANGED <<dbVars, todo, file, pos, appliedNew, envVars, faults>>

ListMigrations(p) ==
  /\ pc[p] = "list"
  /\ todo' = [todo EXCEPT ![p] = OnDisk]
  /\ pc' = [pc EXCEPT ![p] = "loop"]
  /\ UNCHANGED <<dbVars, captured, file, pos, appliedNew, envVars, faults>>

-----------------------------------------------------------------------------
(* The loop over the listed names. *)

Fail(p) ==
  /\ pc' = [pc EXCEPT ![p] = "failed"]
  /\ UNCHANGED <<dbVars, captured, todo, file, pos, appliedNew, envVars>>

\* Mutant: an applied name is skipped without comparing checksums.
SkipWithoutVerifying(p) ==
  /\ pc[p] = "loop"
  /\ \E n \in todo[p] :
       /\ AtHead(p, n)
       /\ disk[n] # NoFile
       /\ n \in Names(captured[p])
       /\ todo' = [todo EXCEPT ![p] = @ \ {n}]
  /\ UNCHANGED <<dbVars, pc, captured, file, pos, appliedNew, envVars, faults>>

\* A name found in the captured rows whose file still has that checksum.
SkipApplied(p) ==
  /\ pc[p] = "loop"
  /\ \E n \in todo[p] :
       /\ AtHead(p, n)
       /\ disk[n] # NoFile
       /\ RowOnDisk(n) \in captured[p]
       /\ todo' = [todo EXCEPT ![p] = @ \ {n}]
  /\ UNCHANGED <<dbVars, pc, captured, file, pos, appliedNew, envVars, faults>>

\* A name found in the captured rows whose file changed, or a file that
\* cannot be read any more: ChecksumMismatch and Io errors end the run.
RejectMigration(p) ==
  /\ pc[p] = "loop"
  /\ \E n \in todo[p] :
       /\ AtHead(p, n)
       /\ \/ disk[n] = NoFile
          \/ n \in Names(captured[p]) /\ RowOnDisk(n) \notin captured[p]
  /\ Fail(p)
  /\ UNCHANGED faults

\* A pending name: its content is read once, for the checksum and for
\* execution.  A content without statements has nothing to execute.
ReadPending(p) ==
  /\ pc[p] = "loop"
  /\ \E n \in todo[p] :
       /\ AtHead(p, n)
       /\ disk[n] # NoFile
       /\ n \notin Names(captured[p])
       /\ file' = [file EXCEPT ![p] = disk[n]]
       /\ pc' = [pc EXCEPT ![p] = IF disk[n] = <<>> THEN "mark" ELSE "exec"]
  /\ pos' = [pos EXCEPT ![p] = 0]
  /\ UNCHANGED <<dbVars, captured, todo, appliedNew, envVars, faults>>

\* SQLite runs the statements of one execute() call one by one, each in its
\* own implicit transaction; PostgreSQL takes the whole text as one unit.
Batch(p) == IF Provider = "sqlite" THEN {file[p][pos[p] + 1]}
                                   ELSE StatementsOf(file[p])

\* Mutant: the text counts as executed after its first statement.
TextEnd(p) == Len(file[p])

BatchEnd(p) == IF Provider = "sqlite" THEN pos[p] + 1 ELSE Len(file[p])

\* An object created by any migration, recorded or not, stays created.
Exists(s) == \E n \in Name : ran[n][s] > 0

Accepts(s) == s \notin Broken /\ ~ (s \in Ddl /\ Exists(s))

\* MaxRan stands for "MaxRan times or more".
OnceMore(k) == IF k < MaxRan THEN k + 1 ELSE k

ExecuteBatch(p) ==
  /\ pc[p] = "exec"
  /\ \A s \in Batch(p) : Accepts(s)
  /\ \E n \in todo[p] :
       /\ AtHead(p, n)
       /\ ran' = [ran EXCEPT ![n] =
                    [s \in Stmt |-> IF s \in Batch(p) THEN OnceMore(@[s]) ELSE @[s]]]
  /\ pos' = [pos EXCEPT ![p] = BatchEnd(p)]
  /\ pc' = [pc EXCEPT ![p] = IF BatchEnd(p) = Len(file[p]) THEN "mark" ELSE "exec"]
  /\ UNCHANGED <<table, ledger, captured, todo, file, appliedNew, envVars, faults>>

\* Mutant: a failed migration is passed over.
GoOnAfterRefusal(p) ==
  /\ pc[p] = "exec"
  /\ \E s \in Batch(p) : ~ Accepts(s)
  /\ todo' = [todo EXCEPT ![p] = {n \in @ : ~ AtHead(p, n)}]
  /\ pc' = [pc EXCEPT ![p] = "loop"]
  /\ UNCHANGED <<dbVars, captured, file, pos, appliedNew, envVars, faults>>

\* The database refuses a statement.  PostgreSQL may also refuse a text for
\* having several statements, because query() prepares it.
ExecuteRefused(p) ==
  /\ pc[p] = "exec"
  /\ \/ \E s \in Batch(p) : ~ Accepts(s)
     \/ Provider = "postgres" /\ Len(file[p]) > 1
  /\ Fail(p)
  /\ UNCHANGED faults

\* Mutant: the row has the checksum of the file as it is by now.
MarkReread(p) ==
  /\ pc[p] = "mark"
  /\ table
  /\ \E n \in todo[p] :
       /\ AtHead(p, n)
       /\ n \notin Names(ledger)
       /\ ledger' = ledger \cup {[name |-> n, checksum |-> disk[n]]}
       /\ appliedNew' = [appliedNew EXCEPT ![p] = @ \cup {n}]
       /\ todo' = [todo EXCEPT ![p] = @ \ {n}]
  /\ pc' = [pc EXCEPT ![p] = "loop"]
  /\ UNCHANGED <<table, ran, captured, file, pos, envVars, faults>>

\* Mutant: the column is not UNIQUE.
MarkAgain(p) ==
  /\ pc[p] = "mark"
  /\ table
  /\ \E n \in todo[p] :
       /\ AtHead(p, n)
       /\ ledger' = ledger \cup {[name |-> n, checksum |-> file[p]]}
       /\ appliedNew' = [appliedNew EXCEPT ![p] = @ \cup {n}]
       /\ todo' = [todo EXCEPT ![p] = @ \ {n}]
  /\ pc' = [pc EXCEPT ![p] = "loop"]
  /\ UNCHANGED <<table, ran, captured, file, pos, envVars, faults>>

\* Mutant: the migration is reported, but not recorded.
ReportOnly(p) ==
  /\ pc[p] = "mark"
  /\ \E n \in todo[p] :
       /\ AtHead(p, n)
       /\ appliedNew' = [appliedNew EXCEPT ![p] = @ \cup {n}]
       /\ todo' = [todo EXCEPT ![p] = @ \ {n}]
  /\ pc' = [pc EXCEPT ![p] = "loop"]
  /\ UNCHANGED <<dbVars, captured, file, pos, envVars, faults>>

\* The INSERT that records the migration; "name" is UNIQUE.
MarkApplied(p) ==
  /\ pc[p] = "mark"
  /\ table
  /\ \E n \in todo[p] :
       /\ AtHead(p, n)
       /\ n \notin Names(ledger)
       /\ ledger' = ledger \cup {[name |-> n, checksum |-> file[p]]}
       /\ appliedNew' = [appliedNew EXCEPT ![p] = @ \cup {n}]
       /\ todo' = [todo EXCEPT ![p] = @ \ {n}]
  /\ pc' = [pc EXCEPT ![p] = "loop"]
  /\ UNCHANGED <<table, ran, captured, file, pos, envVars, faults>>

\* Mutant: a refused INSERT is tried again without end.
RetryMark(p) ==
  /\ pc[p] = "mark"
  /\ \E n \in todo[p] : AtHead(p, n) /\ n \in Names(ledger)
  /\ UNCHANGED vars

MarkRefused(p) ==
  /\ pc[p] = "mark"
  /\ \E n \in todo[p] : AtHead(p, n) /\ n \in Names(ledger)
  /\ Fail(p)
  /\ UNCHANGED faults

\* The loop is over: Ok(applied_new), which the command prints.
Finish(p) ==
  /\ pc[p] = "loop"
  /\ todo[p] = {}
  /\ pc' = [pc EXCEPT ![p] = "done"]
  /\ UNCHANGED <<dbVars, captured, todo, file, pos, appliedNew, envVars, faults>>

\* The process has reported its result and exits.
Exit(p) ==
  /\ pc[p] \in {"done", "failed"}
  /\ pc' = [pc EXCEPT ![p] = "idle"]
  /\ ForgetLocals(p)
  /\ UNCHANGED <<dbVars, envVars, faults>>

-----------------------------------------------------------------------------
(* Failures and the environment. *)

\* A database call fails without having taken effect: the ? of every call
\* returns the error, and whatever earlier calls did stays done.
DatabaseError(p) ==
  /\ pc[p] \in {"ensure", "getApplied", "exec", "mark"}
  /\ faults < MaxFaults
  /\ faults' = faults + 1
  /\ Fail(p)

\* The process dies; a call in flight did or did not take effect before.
Crash(p) ==
  /\ pc[p] \notin {"idle", "done", "failed"}
  /\ faults < MaxFaults
  /\ faults' = faults + 1
  /\ pc' = [pc EXCEPT ![p] = "idle"]
  /\ ForgetLocals(p)
  /\ UNCHANGED <<dbVars, envVars>>

\* Somebody writes, changes or deletes a migration.sql (an editor, a git
\* checkout, `migrate dev` on the same directory).
EditDisk(n, f) ==
  /\ edits < MaxEdits
  /\ disk[n] # f
  /\ edits' = edits + 1
  /\ disk' = [disk EXCEPT ![n] = f]
  /\ dirty' = [p \in Proc |-> TRUE]
  /\ UNCHANGED <<dbVars, localVars, faults>>

\* The database is dropped and recreated while no command runs
\* (the reset that development.md describes).
ResetDatabase ==
  /\ edits < MaxEdits
  /\ \A p \in Proc : pc[p] = "idle"
  /\ edits' = edits + 1
  /\ table' = FALSE
  /\ ledger' = {}
  /\ ran' = [n \in Name |-> [s \in Stmt |-> 0]]
  /\ UNCHANGED <<localVars, disk, dirty, faults>>

-----------------------------------------------------------------------------
(* What an invocation does once started, without failures around it. *)
RunStep(p) ==
  \/ EnsureTable(p)
  \/ GetApplied(p)
  \/ ListMigrations(p)
  \/ SkipApplied(p)
  \/ RejectMigration(p)
  \/ ReadPending(p)
  \/ ExecuteBatch(p)
  \/ ExecuteRefused(p)
  \/ MarkApplied(p)
  \/ MarkRefused(p)
  \/ Finish(p)

Next ==
  \/ \E p \in Proc : Start(p) \/ RunStep(p) \/ Exit(p)
  \/ \E p \in Proc : DatabaseError(p) \/ Crash(p)
  \/ \E n \in Name, f \in Files \cup {NoFile} : EditDisk(n, f)
  \/ ResetDatabase

Spec == Init /\ [][Next]_vars

\* A running command is scheduled until it returns: it waits for nothing
\* but the database's answers.
RunFairness == \A p \in Proc : WF_vars(RunStep(p))

FairSpec == Spec /\ RunFairness

\* The command is also invoked again whenever it has returned, as the
\* container start-up of production.md does.
RetrySpec == FairSpec /\ \A p \in Proc : WF_vars(Start(p)) /\ WF_vars(Exit(p))

-----------------------------------------------------------------------------
(* Properties. *)

\* The types of the variables.
TypeOK ==
  /\ disk \in [Name -> Files \cup {NoFile}]
  /\ table \in BOOLEAN
  /\ ledger \subseteq Row
  /\ ran \in [Name -> [Stmt -> Nat]]
  /\ pc \in [Proc -> PcValues]
  /\ captured \in [Proc -> SUBSET Row]
  /\ todo \in [Proc -> SUBSET Name]
  /\ file \in [Proc -> Files \cup {NoFile}]
  /\ pos \in [Proc -> Nat]
  /\ appliedNew \in [Proc -> SUBSET Name]
  /\ dirty \in [Proc -> BOOLEAN]
  /\ faults \in Nat
  /\ edits \in Nat

\* A row in the ledger is the truth: every statement of the content whose
\* checksum it holds has taken effect as part of that migration, whatever
\* crashed, failed, ran beside it or was edited meanwhile.
RecordedWasExecuted ==
  \A r \in ledger : \A s \in StatementsOf(r.checksum) : ran[r.name][s] > 0

\* No two commands both report having applied the same migration.
NoDoubleReport ==
  \A p, q \in Proc : p # q => appliedNew[p] \cap appliedNew[q] = {}

\* A command that returns Ok, over a directory nobody edited while it ran,
\* leaves the ledger in agreement with the directory: every migration on
\* disk is recorded with the content it has on disk.
CleanRunVerified ==
  \A p \in Proc : pc[p] = "done" /\ ~ dirty[p] =>
    \A n \in OnDisk : RowOnDisk(n) \in ledger

\* While a command executes a migration, every migration that sorts before
\* it is recorded, with the content on disk: execution is in name order and
\* stops at the first failure or mismatch.
EarlierVerified ==
  \A p \in Proc : pc[p] \in {"exec", "mark"} /\ ~ dirty[p] =>
    \A n \in todo[p] : AtHead(p, n) =>
      \A m \in OnDisk : m < n => RowOnDisk(m) \in ledger

\* As long as the directory does not change, the recorded migrations are an
\* initial segment of the directory, whatever crashed or raced.
LedgerIsPrefix ==
  edits = 0 =>
    \A r \in ledger : \A m \in OnDisk : m < r.name => m \in Names(ledger)

\* Every invocation returns.
EveryRunEnds ==
  \A p \in Proc : pc[p] = "ensure" ~> pc[p] \in {"done", "failed", "idle"}

\* The migrations on disk can be applied one after the other at all: the
\* database refuses no statement, and no two create the same object.
Applicable ==
  \A n \in OnDisk :
    /\ StatementsOf(disk[n]) \cap Broken = {}
    /\ \A m \in OnDisk \ {n} : StatementsOf(disk[n]) \cap StatementsOf(disk[m]) \cap Ddl = {}

\* If commands keep being invoked and the migrations can be applied at all,
\* then after the last fault every one of them is recorded for good.
EventuallyUpToDate == <>[](Applicable => \A n \in OnDisk : n \in Names(ledger))

Ledger == INSTANCE MigrationLedger WITH
  Name <- Name, Stmt <- Stmt, Files <- Files, MaxRan <- MaxRan,
  ran <- ran, ledger <- ledger

\* Whatever the commands do to the database, a reader of the ledger sees
\* the promise of MigrationLedger kept.
ImplementsLedger == Ledger!Spec
=============================================================================
