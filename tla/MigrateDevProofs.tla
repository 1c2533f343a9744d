--------------------------- MODULE MigrateDevProofs ---------------------------
(***************************************************************************)
(* Proofs about MigrateDev for any tables, labels and bounds.              *)
(*                                                                         *)
(* Types and GeneratesAfterApply hold for any number of processes          *)
(* (FilesInv, ApplyingInv).  The others are about one developer at a time: *)
(* HistoryInv relates the directory to the schema the command was given,   *)
(* DatabaseInv the database to the directory.  What both rest on are the   *)
(* lemmas about Before and ReplayOf: a migration that sorts after all      *)
(* others is executed on what they leave.                                  *)
(***************************************************************************)
EXTENDS MigrateDev, FiniteSetTheorems, WellFoundedInduction, TLAPS

-----------------------------------------------------------------------------
(* The inductive invariants. *)

\* Only files that were written exist; a name that is about to be written
\* is a name, and one that was written is listed.
FilesInv ==
  /\ TypeOK
  /\ IsFiniteSet(Listed)
  /\ \A n \in DirName : snapshot[n] # Absent => n \in Listed
  /\ \A p \in Proc : pc[p] = "writeSql" => newName[p] \in DirName
  /\ \A p \in Proc : pc[p] = "writeSnapshot" => newName[p] \in Listed
  /\ \A p \in Proc :
       pc[p] \in {"previous", "number", "writeSql", "writeSnapshot"} => command[p] \in Strategies
  /\ \A p \in Proc : pc[p] = "mark" => text[p] \in Sql
  /\ budget.crashes <= MaxCrashes /\ budget.rewrites <= MaxRewrites
  /\ budget.deletes <= MaxDeletes

\* The migration a dev command wrote is ahead of it or behind it, never
\* lost, and what is behind it is recorded.
ApplyingInv ==
  \A p \in Proc :
    /\ pc[p] \in {"loop", "mark"} => captured[p] \subseteq ledger
    /\ pc[p] = "generate" => command[p] # "deploy" /\ todo[p] = {}
    /\ command[p] # "deploy" =>
         /\ pc[p] = "apply" => newName[p] \in Listed
         /\ pc[p] \in {"loop", "mark", "generate"} => newName[p] \in todo[p] \cup Recorded(ledger)

\* Directories are numbered without gaps, so a new one sorts last.
NumbersInv ==
  Undeleted =>
    /\ \A n \in Listed : n[1] <= Cardinality(Listed)
    /\ \A p \in Proc : pc[p] = "writeSql" => newName[p][1] = Cardinality(Listed) + 1
    /\ \A p \in Proc : pc[p] = "writeSnapshot" =>
         \A n \in Listed \ {newName[p]} : Before(n, newName[p])

\* A command that has not written the snapshot of its migration yet; with the
\* shadow strategy the directory may have been edited since the last one.
Unsaved(p) ==
  \/ pc[p] = "writeSnapshot"
  \/ command[p] = "shadow" /\ pc[p] \in {"number", "writeSql"}

\* What a command is about to write takes the history to its target, what
\* it has written did, and the latest snapshot is the history's.
HistoryInv ==
  Undeleted /\ ~ edited =>
    /\ Replay(Listed) # Refused
    /\ \A p \in Proc : pc[p] \in {"number", "writeSql"} =>
         plan[p] = DiffSchemas(Replay(Listed), target[p])
    /\ \A p \in Proc : pc[p] = "writeSnapshot" \/ (pc[p] = "apply" /\ command[p] # "deploy")
         => Replay(Listed) = target[p]
    /\ MaxCrashes = 0 /\ (\A p \in Proc : ~ Unsaved(p))
         => LatestSnapshot = Replay(Listed)

\* A migration that would not change anything is never written, and unless a
\* file is edited by hand none is there.
Changes(sql) == sql.create \cup sql.drop # {}

ChangesInv ==
  /\ budget.rewrites = MaxRewrites => \A n \in Listed : Changes(sqlFile[n])
  /\ \A p \in Proc : pc[p] \in {"number", "writeSql"} => Changes(plan[p])

\* A migration has one row, and the row a text.
RowsInv ==
  /\ \A r \in ledger : r.checksum \in Sql
  /\ \A r1, r2 \in ledger : r1.name = r2.name => r1 = r2

IsFirstPending(n) ==
  /\ n \in Listed \ Recorded(ledger)
  /\ \A m \in Listed \ Recorded(ledger) : m = n \/ Before(n, m)

\* The database has the recorded texts, and one more.
Reached(n, sql) == database = ReplayOf(RecordedSqlAnd(n, sql), Recorded(ledger) \cup {n})

\* The recorded migrations are an initial segment of the directory.
InitialSegment ==
  /\ Recorded(ledger) \subseteq Listed
  /\ \A n \in Recorded(ledger) : Earlier(Listed, n) \subseteq Recorded(ledger)

\* A command in the loop of apply_pending has what is left in its list, and
\* knows which of those are recorded.
Looping(p) ==
  pc[p] \in {"loop", "mark"} =>
    /\ todo[p] \subseteq Listed
    /\ Listed \ todo[p] \subseteq Recorded(ledger)
    /\ Recorded(ledger) \cap todo[p] \subseteq Recorded(captured[p])

\* One that is to record a migration has just executed it.
Marking(p) ==
  pc[p] = "mark" => \E n \in todo[p] :
    /\ AtHead(p, n) /\ IsFirstPending(n)
    /\ Traceable => Reached(n, text[p])
    /\ budget.rewrites = MaxRewrites => text[p] = sqlFile[n]

\* The database is the replay of the recorded texts, or of one more.
Explained ==
  Traceable =>
    \/ database = ReplayOf(RecordedSql, Recorded(ledger))
    \/ \E p \in Proc : pc[p] = "mark"
    \/ /\ budget.crashes < MaxCrashes
       /\ \E n \in DirName : IsFirstPending(n) /\ Reached(n, sqlFile[n])

DatabaseInv ==
  Undeleted => InitialSegment /\ (\A p \in Proc : Looping(p) /\ Marking(p)) /\ Explained

-----------------------------------------------------------------------------
(* The order of directory names. *)

LEMMA NamePair ==
  ASSUME NEW n \in DirName
  PROVE  n[1] \in Int /\ n[2] \in Int /\ n = <<n[1], n[2]>>
<1>1. n \in (1..MaxSeq) \X Label
  BY DEF DirName
<1>2. n[1] \in 1..MaxSeq /\ n[2] \in Label /\ n = <<n[1], n[2]>>
  BY <1>1
<1>3. n[1] \in Int
  BY <1>2
<1>4. n[2] \in Int
  BY <1>2, LabelAssumption
<1>5. QED
  BY <1>2, <1>3, <1>4

\* Of two names one sorts before the other.
LEMMA BeforeTotal ==
  ASSUME NEW m \in DirName, NEW n \in DirName
  PROVE  m = n \/ Before(m, n) \/ Before(n, m)
<1>1. /\ m[1] \in Int /\ n[1] \in Int /\ m[2] \in Int /\ n[2] \in Int
      /\ m = <<m[1], m[2]>> /\ n = <<n[1], n[2]>>
  BY NamePair
<1>2. m[1] = n[1] /\ m[2] = n[2] => m = n
  BY <1>1
<1>3. QED
  BY <1>1, <1>2 DEF Before

\* Never both do, and no name sorts before itself.
LEMMA BeforeAsymmetric ==
  ASSUME NEW m \in DirName, NEW n \in DirName, Before(m, n)
  PROVE  ~ Before(n, m) /\ m # n
<1>1. m[1] \in Int /\ n[1] \in Int /\ m[2] \in Int /\ n[2] \in Int
  BY NamePair
<1>2. QED
  BY <1>1 DEF Before

LEMMA BeforeTransitive ==
  ASSUME NEW k \in DirName, NEW m \in DirName, NEW n \in DirName,
         Before(k, m), Before(m, n)
  PROVE  Before(k, n)
<1>1. /\ k[1] \in Int /\ m[1] \in Int /\ n[1] \in Int
      /\ k[2] \in Int /\ m[2] \in Int /\ n[2] \in Int
  BY NamePair
<1>2. QED
  BY <1>1 DEF Before

\* Finitely many names have a last one.
LEMMA LastName ==
  ASSUME NEW S \in SUBSET DirName, IsFiniteSet(S), S # {}
  PROVE  \E n \in S : \A m \in S \ {n} : Before(m, n)
<1> DEFINE Last(T, n) == n \in T /\ \A m \in T \ {n} : Before(m, n)
           Bad == {T \in SUBSET S : T # {} /\ ~ \E n \in T : Last(T, n)}
<1>1. SUFFICES ASSUME Bad # {} PROVE FALSE
  OBVIOUS
<1>2. IsWellFoundedOn(StrictSubsetOrdering(S), SUBSET S)
  BY FS_StrictSubsetOrderingWellFounded, FS_FiniteSubsetsOfFinite
<1>3. PICK T \in Bad : \A U \in Bad : <<U, T>> \notin StrictSubsetOrdering(S)
  <2>1. Bad \subseteq SUBSET S
    OBVIOUS
  <2> HIDE DEF Bad
  <2>2. QED
    BY <1>1, <1>2, <2>1, WFMin
<1>4. PICK n \in T : TRUE
  OBVIOUS
<1>5. T \ {n} \notin Bad
  BY <1>3, <1>4 DEF StrictSubsetOrdering
<1>6. CASE T \ {n} = {}
  BY <1>4, <1>6
<1>7. CASE T \ {n} # {}
  <2>1. PICK k \in T \ {n} : \A m \in (T \ {n}) \ {k} : Before(m, k)
    BY <1>5, <1>7
  <2>2. CASE Before(n, k)
    BY <2>1, <2>2
  <2>3. CASE Before(k, n)
    <3>1. ASSUME NEW m \in T \ {n} PROVE Before(m, n)
      BY <2>1, <2>3, BeforeTransitive
    <3>2. QED
      BY <1>4, <3>1
  <2>4. QED
    BY <2>1, <2>2, <2>3, <1>4, BeforeTotal
<1>8. QED
  BY <1>6, <1>7

-----------------------------------------------------------------------------
(* Replays. *)

\* A schema is not the marker of a refused replay.
LEMMA SchemaIsNoMarker ==
  ASSUME NEW S \in SUBSET Table
  PROVE  S # Refused /\ S # Absent
BY MarkersAssumption

LEMMA SqlIsNoMarker ==
  ASSUME NEW sql \in Sql
  PROVE  sql # Absent
BY MarkersAssumption DEF Sql

LEMMA ReplayType ==
  ASSUME NEW files, NEW names
  PROVE  ReplayOf(files, names) \in (SUBSET Table) \cup {Refused}
BY DEF ReplayOf, Standing

\* An empty directory stands for an empty schema.
LEMMA ReplayOfNothing ==
  ASSUME NEW files
  PROVE  ReplayOf(files, {}) = {}
BY DEF ReplayOf, Standing

\* A replay depends on the files it reads only.
LEMMA ReplayReadsItsFiles ==
  ASSUME NEW files, NEW others, NEW names,
         \A n \in names : files[n] = others[n]
  PROVE  ReplayOf(files, names) = ReplayOf(others, names)
<1>1. ASSUME NEW part, part \subseteq names
      PROVE  Standing(files, part) = Standing(others, part)
  BY <1>1 DEF Standing
<1>2. ASSUME NEW n \in names
      PROVE  Standing(files, Earlier(names, n)) = Standing(others, Earlier(names, n))
  <2>1. Earlier(names, n) \subseteq names
    BY DEF Earlier
  <2> QED
    BY <1>1, <2>1
<1>3. QED
  BY <1>1, <1>2 DEF ReplayOf

\* One more migration, sorted after the others, is executed on what they
\* leave: refused if they are or if it does not fit.
LEMMA ReplayOneMore ==
  ASSUME NEW names \in SUBSET DirName, NEW n \in DirName, NEW files,
         \A m \in names : Before(m, n),
         \A m \in names \cup {n} : files[m] \in Sql
  PROVE  ReplayOf(files, names \cup {n}) =
           IF ReplayOf(files, names) # Refused /\ Accepts(ReplayOf(files, names), files[n])
           THEN After(ReplayOf(files, names), files[n]) ELSE Refused
<1> DEFINE all == names \cup {n}
           fits(S) == \A m \in S : Accepts(Standing(files, Earlier(S, m)), files[m])
<1>1. n \notin names
  BY BeforeAsymmetric
<1>2. Earlier(all, n) = names
  BY <1>1, BeforeAsymmetric DEF Earlier
<1>3. ASSUME NEW m \in names PROVE Earlier(all, m) = Earlier(names, m)
  BY BeforeAsymmetric DEF Earlier
<1>4. fits(all) <=> fits(names) /\ Accepts(Standing(files, names), files[n])
  BY <1>2, <1>3
<1>5. ReplayOf(files, names) = IF fits(names) THEN Standing(files, names) ELSE Refused
  BY DEF ReplayOf
<1>6. Standing(files, names) \in SUBSET Table
  BY DEF Standing
<1>7. Standing(files, names) # Refused
  BY <1>6, SchemaIsNoMarker
<1>8. ReplayOf(files, all) = IF fits(all) THEN Standing(files, all) ELSE Refused
  BY DEF ReplayOf
<1>9. ASSUME Accepts(Standing(files, names), files[n])
      PROVE  Standing(files, all) = After(Standing(files, names), files[n])
  <2>1. ASSUME NEW t \in Table
        PROVE  t \in Standing(files, all) <=> t \in After(Standing(files, names), files[n])
    <3>1. ASSUME t \in Standing(files, all)
          PROVE  t \in After(Standing(files, names), files[n])
      <4>1. PICK m \in all : t \in files[m].create
                             /\ \A k \in all : Before(m, k) => t \notin files[k].drop
        BY <3>1 DEF Standing
      <4>2. CASE m = n
        BY <1>9, <4>1, <4>2 DEF After, Accepts
      <4>3. CASE m \in names
        BY <4>1, <4>3 DEF Standing, After
      <4>4. QED
        BY <4>2, <4>3
    <3>2. ASSUME t \in After(Standing(files, names), files[n])
          PROVE  t \in Standing(files, all)
      <4>1. CASE t \in files[n].create
        <5>1. \A k \in all : ~ Before(n, k)
          BY BeforeAsymmetric
        <5>2. QED
          BY <4>1, <5>1 DEF Standing
      <4>2. CASE t \in Standing(files, names)
        BY <3>2, <4>2 DEF Standing, After
      <4>3. QED
        BY <3>2, <4>1, <4>2 DEF After
    <3>3. QED
      BY <3>1, <3>2
  <2>2. Standing(files, all) \subseteq Table /\ Standing(files, names) \subseteq Table
    BY DEF Standing
  <2>3. files[n].create \subseteq Table
    BY DEF Sql
  <2>4. After(Standing(files, names), files[n]) \subseteq Table
    BY <2>2, <2>3 DEF After
  <2>5. QED
    BY <2>1, <2>2, <2>4
<1>10. QED
  <2> HIDE DEF fits
  <2>1. QED
    BY <1>4, <1>5, <1>7, <1>8, <1>9

\* What is left out of the diff stays, the rest is created or dropped: a
\* migration between two schemas fits the first and makes the second of it.
LEMMA DiffDelivers ==
  ASSUME NEW from \in SUBSET Table, NEW to \in SUBSET Table
  PROVE  /\ DiffSchemas(from, to) \in Sql
         /\ Accepts(from, DiffSchemas(from, to))
         /\ After(from, DiffSchemas(from, to)) = to
         /\ from # to => Changes(DiffSchemas(from, to))
BY DEF DiffSchemas, Sql, Accepts, After, Changes

\* A migration that changes something does not fit twice in a row.
LEMMA NotTwice ==
  ASSUME NEW tables, NEW sql \in Sql, Changes(sql), Accepts(tables, sql)
  PROVE  ~ Accepts(After(tables, sql), sql)
BY DEF Sql, Accepts, After, Changes

-----------------------------------------------------------------------------
(* Types, and which files exist. *)

\* The latest snapshot is one that was written.
LEMMA LatestType ==
  ASSUME FilesInv
  PROVE  LatestSnapshot \in SUBSET Table
<1> DEFINE with == {n \in DirName : snapshot[n] # Absent}
           Last(n) == n \in with /\ \A m \in with \ {n} : Before(m, n)
<1>1. with \subseteq DirName /\ with \subseteq Listed
  BY DEF FilesInv
<1>2. IsFiniteSet(with)
  BY <1>1, FS_Subset DEF FilesInv
<1>3. \A n \in with : snapshot[n] \in SUBSET Table
  BY DEF FilesInv, TypeOK, Schemas
<1>4. CASE with = {}
  BY <1>4 DEF LatestSnapshot
<1>5. CASE with # {}
  <2>1. \E n \in with : \A m \in with \ {n} : Before(m, n)
    BY <1>1, <1>2, <1>5, LastName
  <2>2. (CHOOSE n \in with : \A m \in with \ {n} : Before(m, n)) \in with
    BY <2>1
  <2>3. QED
    BY <1>3, <1>5, <2>2 DEF LatestSnapshot
<1>6. QED
  BY <1>4, <1>5

LEMMA PreviousType ==
  ASSUME FilesInv, NEW p \in Proc
  PROVE  Previous(p) \in (SUBSET Table) \cup {Refused}
BY LatestType, ReplayType DEF Previous, Replay

LEMMA InitFiles == Init => FilesInv
<1> SUFFICES ASSUME Init PROVE FilesInv
  OBVIOUS
<1> USE DEF Init
<1>1. Listed = {}
  BY DEF Listed
<1>2. TypeOK
  <2>1. NoPlan \in Sql
    BY DEF NoPlan, Sql
  <2>2. budget \in [{"crashes", "edits", "rewrites", "deletes", "resets"} -> Nat]
    BY DevBounds
  <2>3. QED
    BY <2>1, <2>2 DEF TypeOK, Schemas, Rows
<1>3. QED
  BY <1>1, <1>2, FS_EmptySet, DevBounds DEF FilesInv

\* What the number and label make is a name.
LEMMA NumberedName ==
  ASSUME FilesInv, NextSequenceNumber <= MaxSeq, NEW label \in Label
  PROVE  <<NextSequenceNumber, label>> \in DirName
<1>1. Cardinality(Listed) \in Nat
  BY FS_CardinalityType DEF FilesInv
<1>2. NextSequenceNumber \in 1..MaxSeq
  BY <1>1, DevBounds DEF NextSequenceNumber
<1>3. QED
  BY <1>2 DEF DirName

\* Every step keeps the types.
LEMMA TypesStep ==
  ASSUME FilesInv, [Next]_vars
  PROVE  TypeOK'
<1> USE DEF FilesInv, TypeOK, Schemas, fileVars, dbVars, applyVars, envVars, Goto
<1>1. ASSUME NEW p \in Proc, NEW strategy \in Strategies, StartDev(p, strategy) PROVE TypeOK'
  BY <1>1, StrategyAssumption DEF StartDev
<1>2. ASSUME NEW p \in Proc, StartDeploy(p) PROVE TypeOK'
  BY <1>2 DEF StartDeploy
<1>3. ASSUME NEW p \in Proc, ReplayFails(p) PROVE TypeOK'
  BY <1>3 DEF ReplayFails
<1>4. ASSUME NEW p \in Proc, NoChanges(p) PROVE TypeOK'
  BY <1>4 DEF NoChanges
<1>5. ASSUME NEW p \in Proc, Diff(p) PROVE TypeOK'
  <2>1. DiffSchemas(Previous(p), target[p]) \in Sql
    BY <1>5, PreviousType, DiffDelivers DEF Diff
  <2>2. QED
    BY <1>5, <2>1 DEF Diff
<1>6. ASSUME NEW p \in Proc, NEW label \in Label, NumberDirectory(p, label) PROVE TypeOK'
  <2>1. <<NextSequenceNumber, label>> \in DirName
    BY <1>6, NumberedName DEF NumberDirectory
  <2>2. QED
    BY <1>6, <2>1 DEF NumberDirectory
<1>7. ASSUME NEW p \in Proc, WriteSql(p) PROVE TypeOK'
  BY <1>7 DEF WriteSql
<1>8. ASSUME NEW p \in Proc, WriteSnapshot(p) PROVE TypeOK'
  BY <1>8 DEF WriteSnapshot
<1>9. ASSUME NEW p \in Proc, BeginApply(p) PROVE TypeOK'
  BY <1>9 DEF BeginApply, Listed
<1>10. ASSUME NEW p \in Proc, NEW n \in DirName, SkipApplied(p, n) PROVE TypeOK'
  BY <1>10 DEF SkipApplied
<1>11. ASSUME NEW p \in Proc, NEW n \in DirName, ExecuteMigration(p, n) PROVE TypeOK'
  <2>1. sqlFile[n] \in Sql
    BY <1>11 DEF ExecuteMigration
  <2>2. After(database, sqlFile[n]) \in SUBSET Table
    BY <2>1 DEF After, Sql
  <2>3. QED
    BY <1>11, <2>2 DEF ExecuteMigration
<1>12. ASSUME NEW p \in Proc, NEW n \in DirName, MarkApplied(p, n) PROVE TypeOK'
  <2>1. text[p] \in Sql
    BY <1>12 DEF MarkApplied
  <2>2. Row(n, text[p]) \in Rows
    BY <2>1 DEF Row, Rows
  <2>3. QED
    BY <1>12, <2>2 DEF MarkApplied
<1>13. ASSUME NEW p \in Proc, NEW n \in DirName, ApplyFails(p, n) PROVE TypeOK'
  BY <1>13 DEF ApplyFails
<1>14. ASSUME NEW p \in Proc, FinishApply(p) PROVE TypeOK'
  BY <1>14 DEF FinishApply
<1>15. ASSUME NEW p \in Proc, Generate(p) PROVE TypeOK'
  BY <1>15 DEF Generate
<1>16. ASSUME NEW p \in Proc, ForgetLocals(p)
       PROVE  /\ command' \in [Proc -> {"shadow", "snapshot", "deploy"}]
              /\ target' \in [Proc -> SUBSET Table]
              /\ plan' \in [Proc -> Sql]
              /\ newName' \in [Proc -> DirName \cup {Absent}]
              /\ captured' \in [Proc -> SUBSET Rows]
              /\ todo' \in [Proc -> SUBSET DirName]
              /\ text' \in [Proc -> Sql \cup {Absent}]
  BY <1>16 DEF ForgetLocals, NoPlan, Sql
<1>17. ASSUME NEW p \in Proc, Exit(p) PROVE TypeOK'
  BY <1>16, <1>17 DEF Exit
<1>18. ASSUME NEW what \in {"crashes", "edits", "rewrites", "deletes", "resets"}, Spend(what)
       PROVE  budget' \in [{"crashes", "edits", "rewrites", "deletes", "resets"} -> Nat]
  BY <1>18 DEF Spend
<1>19. ASSUME NEW p \in Proc, Crash(p) PROVE TypeOK'
  BY <1>16, <1>18, <1>19 DEF Crash
<1>20. ASSUME NEW tables \in SUBSET Table, EditSchema(tables) PROVE TypeOK'
  BY <1>18, <1>20 DEF EditSchema
<1>21. ASSUME NEW n \in DirName, DeleteDirectory(n) PROVE TypeOK'
  BY <1>18, <1>21 DEF DeleteDirectory
<1>22. ASSUME ResetDatabase PROVE TypeOK'
  BY <1>18, <1>22 DEF ResetDatabase
<1>23. ASSUME UNCHANGED vars PROVE TypeOK'
  BY <1>23 DEF vars
<1>24. ASSUME NEW n \in DirName, NEW sql \in Sql, EditMigration(n, sql) PROVE TypeOK'
  BY <1>18, <1>24 DEF EditMigration
<1>25. QED
  <2> HIDE DEF FilesInv, TypeOK, Schemas, fileVars, dbVars, applyVars, envVars, Goto
  <2>1. QED
    BY <1>1, <1>2, <1>3, <1>4, <1>5, <1>6, <1>7, <1>8, <1>9, <1>10, <1>11, <1>12, <1>13,
       <1>14, <1>15, <1>17, <1>19, <1>20, <1>21, <1>22, <1>23, <1>24 DEF Next, CommandStep

\* Between the diff and the apply of a dev command.
Authors(q) ==
  \/ pc[q] \in {"number", "writeSql", "writeSnapshot"}
  \/ pc[q] = "apply" /\ command[q] # "deploy"

\* A step outside authoring: it leaves the directory alone, and whoever is
\* authoring after it was there before it.  Only a crash takes a command away
\* from what it is writing.
LeavesDirectory ==
  /\ UNCHANGED <<sqlFile, snapshot, edited>>
  /\ budget'.deletes = budget.deletes
  /\ budget'.rewrites = budget.rewrites
  /\ budget'.crashes <= budget.crashes
  /\ \A q \in Proc : pc'[q] = "previous" => command'[q] \in Strategies
  /\ \A q \in Proc : Authors(q)' =>
       /\ pc'[q] = pc[q] /\ command'[q] = command[q] /\ target'[q] = target[q]
       /\ plan'[q] = plan[q] /\ newName'[q] = newName[q]
  /\ \A q \in Proc : pc'[q] = "mark" => text'[q] \in Sql
  /\ MaxCrashes = 0 =>
       \A q \in Proc : pc[q] \in {"number", "writeSql", "writeSnapshot"} =>
         pc'[q] = pc[q] /\ command'[q] = command[q]

\* Every step authors, edits or deletes a directory, or leaves the directory alone.
LEMMA AuthoringSteps ==
  ASSUME FilesInv, [Next]_vars
  PROVE  \/ \E p \in Proc : \/ Diff(p)
                            \/ \E label \in Label : NumberDirectory(p, label)
                            \/ WriteSql(p) \/ WriteSnapshot(p)
         \/ \E n \in DirName, sql \in Sql : EditMigration(n, sql)
         \/ \E n \in DirName : DeleteDirectory(n)
         \/ LeavesDirectory
<1> USE DEF FilesInv, TypeOK, fileVars, dbVars, applyVars, envVars, Goto, LeavesDirectory, Authors
<1>1. ASSUME NEW p \in Proc, NEW strategy \in Strategies, StartDev(p, strategy)
      PROVE  LeavesDirectory
  BY <1>1 DEF StartDev
<1>2. ASSUME NEW p \in Proc, StartDeploy(p) PROVE LeavesDirectory
  BY <1>2 DEF StartDeploy
<1>3. ASSUME NEW p \in Proc, ReplayFails(p) PROVE LeavesDirectory
  BY <1>3 DEF ReplayFails
<1>4. ASSUME NEW p \in Proc, NoChanges(p) PROVE LeavesDirectory
  BY <1>4 DEF NoChanges
<1>5. ASSUME NEW p \in Proc, BeginApply(p) PROVE LeavesDirectory
  BY <1>5 DEF BeginApply
<1>6. ASSUME NEW p \in Proc, NEW n \in DirName, SkipApplied(p, n) PROVE LeavesDirectory
  BY <1>6 DEF SkipApplied
<1>7. ASSUME NEW p \in Proc, NEW n \in DirName, ExecuteMigration(p, n) PROVE LeavesDirectory
  BY <1>7 DEF ExecuteMigration
<1>8. ASSUME NEW p \in Proc, NEW n \in DirName, MarkApplied(p, n) PROVE LeavesDirectory
  BY <1>8 DEF MarkApplied
<1>9. ASSUME NEW p \in Proc, NEW n \in DirName, ApplyFails(p, n) PROVE LeavesDirectory
  BY <1>9 DEF ApplyFails
<1>10. ASSUME NEW p \in Proc, FinishApply(p) PROVE LeavesDirectory
  BY <1>10 DEF FinishApply
<1>11. ASSUME NEW p \in Proc, Generate(p) PROVE LeavesDirectory
  BY <1>11 DEF Generate
<1>12. ASSUME NEW p \in Proc, Exit(p) PROVE LeavesDirectory
  BY <1>12 DEF Exit, ForgetLocals
<1>13. ASSUME NEW p \in Proc, Crash(p) PROVE LeavesDirectory
  <2>1. MaxCrashes # 0
    BY <1>13, DevBounds DEF Crash, Spend
  <2>2. QED
    BY <1>13, <2>1 DEF Crash, Spend, ForgetLocals
<1>14. ASSUME NEW tables \in SUBSET Table, EditSchema(tables) PROVE LeavesDirectory
  BY <1>14 DEF EditSchema, Spend
<1>15. ASSUME ResetDatabase PROVE LeavesDirectory
  BY <1>15 DEF ResetDatabase, Spend
<1>16. ASSUME UNCHANGED vars PROVE LeavesDirectory
  BY <1>16 DEF vars
<1>17. QED
  <2> HIDE DEF FilesInv, TypeOK, fileVars, dbVars, applyVars, envVars, Goto, LeavesDirectory, Authors
  <2>1. QED
    BY <1>1, <1>2, <1>3, <1>4, <1>5, <1>6, <1>7, <1>8, <1>9, <1>10, <1>11, <1>12, <1>13,
       <1>14, <1>15, <1>16 DEF Next, CommandStep

\* What the steps that touch the directory list.
LEMMA WhatIsListed ==
  ASSUME FilesInv
  PROVE  /\ UNCHANGED sqlFile => Listed' = Listed
         /\ \A p \in Proc : WriteSql(p) => /\ Listed' = Listed \cup {newName[p]}
                                          /\ newName[p] \in DirName
                                          /\ plan[p] \in Sql
         /\ \A n \in DirName, sql \in Sql : EditMigration(n, sql) => Listed' = Listed
         /\ \A n \in DirName : DeleteDirectory(n) => Listed' = Listed \ {n}
<1>1. ASSUME NEW p \in Proc, WriteSql(p)
      PROVE  /\ Listed' = Listed \cup {newName[p]} /\ newName[p] \in DirName
             /\ plan[p] \in Sql
  <2>1. newName[p] \in DirName /\ plan[p] \in Sql
    BY <1>1 DEF WriteSql, Goto, FilesInv, TypeOK
  <2>2. plan[p] # Absent
    BY <2>1, SqlIsNoMarker
  <2>3. QED
    BY <1>1, <2>1, <2>2 DEF WriteSql, Listed, FilesInv, TypeOK
<1>2. ASSUME NEW n \in DirName, NEW sql \in Sql, EditMigration(n, sql)
      PROVE  Listed' = Listed
  BY <1>2, SqlIsNoMarker DEF EditMigration, Listed, FilesInv, TypeOK
<1>3. QED
  BY <1>1, <1>2 DEF DeleteDirectory, Listed, FilesInv, TypeOK

LEMMA FilesStep ==
  ASSUME FilesInv, [Next]_vars
  PROVE  FilesInv'
<1> USE DEF Goto, fileVars, dbVars, applyVars, envVars
<1>1. TypeOK'
  BY TypesStep
<1>2. \A m \in DirName : snapshot[m] # Absent => sqlFile[m] # Absent
  BY DEF FilesInv, Listed
<1>3. ASSUME NEW p \in Proc, Diff(p) PROVE FilesInv'
  <2>1. Listed' = Listed
    BY <1>3, WhatIsListed DEF Diff
  <2>2. QED
    BY <1>1, <1>3, <2>1 DEF Diff, FilesInv, TypeOK
<1>4. ASSUME NEW p \in Proc, NEW label \in Label, NumberDirectory(p, label) PROVE FilesInv'
  <2>1. Listed' = Listed
    BY <1>4, WhatIsListed DEF NumberDirectory
  <2>2. <<NextSequenceNumber, label>> \in DirName
    BY <1>4, NumberedName DEF NumberDirectory
  <2>3. QED
    BY <1>1, <1>4, <2>1, <2>2 DEF NumberDirectory, FilesInv, TypeOK
<1>5. ASSUME NEW p \in Proc, WriteSql(p) PROVE FilesInv'
  <2>1. Listed' = Listed \cup {newName[p]}
    BY <1>5, WhatIsListed
  <2>2. IsFiniteSet(Listed')
    BY <2>1, FS_AddElement DEF FilesInv
  <2>3. QED
    BY <1>1, <1>5, <2>1, <2>2 DEF WriteSql, FilesInv, TypeOK
<1>6. ASSUME NEW p \in Proc, WriteSnapshot(p) PROVE FilesInv'
  <2>1. Listed' = Listed /\ newName[p] \in Listed
    BY <1>6, WhatIsListed DEF WriteSnapshot, FilesInv
  <2>2. \A n \in DirName : snapshot'[n] # Absent => n \in Listed
    BY <1>6, <2>1 DEF WriteSnapshot, FilesInv, TypeOK
  <2>3. QED
    BY <1>1, <1>6, <2>1, <2>2 DEF WriteSnapshot, FilesInv, TypeOK
<1>7. ASSUME NEW n \in DirName, DeleteDirectory(n) PROVE FilesInv'
  <2>1. Listed' = Listed \ {n}
    BY <1>7, WhatIsListed
  <2>2. IsFiniteSet(Listed')
    BY <2>1, FS_RemoveElement DEF FilesInv
  <2>3. \A m \in DirName : snapshot'[m] # Absent => m \in Listed'
    BY <1>7, <2>1 DEF DeleteDirectory, FilesInv, TypeOK
  <2>4. /\ budget'.crashes <= MaxCrashes /\ budget'.rewrites <= MaxRewrites
        /\ budget'.deletes <= MaxDeletes
    BY <1>7, DevBounds DEF DeleteDirectory, Spend, FilesInv, TypeOK
  <2>5. QED
    BY <1>1, <1>7, <2>2, <2>3, <2>4 DEF DeleteDirectory, FilesInv
<1>8. ASSUME LeavesDirectory PROVE FilesInv'
  <2>1. Listed' = Listed
    BY <1>8, WhatIsListed DEF LeavesDirectory
  <2>2. /\ budget'.crashes <= MaxCrashes /\ budget'.rewrites <= MaxRewrites
        /\ budget'.deletes <= MaxDeletes
    BY <1>1, <1>8, DevBounds DEF LeavesDirectory, FilesInv, TypeOK
  <2>3. \A n \in DirName : snapshot'[n] # Absent => n \in Listed'
    BY <1>8, <2>1 DEF LeavesDirectory, FilesInv
  <2>4. QED
    BY <1>1, <1>8, <2>1, <2>2, <2>3 DEF LeavesDirectory, Authors, FilesInv
<1>9. ASSUME NEW n \in DirName, NEW sql \in Sql, EditMigration(n, sql) PROVE FilesInv'
  <2>1. Listed' = Listed
    BY <1>9, WhatIsListed
  <2>2. /\ budget'.crashes <= MaxCrashes /\ budget'.rewrites <= MaxRewrites
        /\ budget'.deletes <= MaxDeletes
    BY <1>9, DevBounds DEF EditMigration, Spend, FilesInv, TypeOK
  <2>3. QED
    BY <1>1, <1>9, <2>1, <2>2 DEF EditMigration, FilesInv
<1>10. QED
  BY <1>3, <1>4, <1>5, <1>6, <1>7, <1>8, <1>9, AuthoringSteps

THEOREM FilesInvariant == Spec => []FilesInv
BY InitFiles, FilesStep, PTL DEF Spec

\* Every variable keeps its type, whatever is edited, deleted, reset or
\* killed, and however many commands run at once: names are numbered within
\* the bound, and what is diffed is never the outcome of a refused replay.
THEOREM DevTypes == Spec => []TypeOK
<1>1. FilesInv => TypeOK
  BY DEF FilesInv
<1>2. QED
  BY <1>1, FilesInvariant, PTL

-----------------------------------------------------------------------------
(* What is generated was applied. *)

LEMMA InitApplying == Init => ApplyingInv
BY DEF Init, ApplyingInv

\* Head of the list, and no other.
LEMMA OneHead ==
  ASSUME FilesInv, NEW p \in Proc, NEW m \in DirName, NEW n \in DirName,
         AtHead(p, m), AtHead(p, n)
  PROVE  m = n
BY BeforeAsymmetric DEF AtHead

\* A row in the ledger names a recorded migration.
LEMMA RecordsGrow ==
  ASSUME NEW rows, NEW more, rows \subseteq more
  PROVE  Recorded(rows) \subseteq Recorded(more)
BY DEF Recorded

LEMMA RecordOneMore ==
  ASSUME NEW n, NEW sql, NEW rows
  PROVE  Recorded(rows \cup {Row(n, sql)}) = Recorded(rows) \cup {n}
<1>1. Row(n, sql).name = n
  BY DEF Row
<1>2. \A m : m \in Recorded(rows \cup {Row(n, sql)}) <=> m \in Recorded(rows) \cup {n}
  BY <1>1 DEF Recorded
<1>3. QED
  BY <1>2

LEMMA ApplyingStep ==
  ASSUME FilesInv, ApplyingInv, [Next]_vars
  PROVE  ApplyingInv'
<1> USE DEF FilesInv, TypeOK, ApplyingInv, Goto, fileVars, dbVars, applyVars, envVars
<1>1. ASSUME NEW p \in Proc, NEW strategy \in Strategies, StartDev(p, strategy)
      PROVE  ApplyingInv'
  BY <1>1 DEF StartDev, Listed
<1>2. ASSUME NEW p \in Proc, StartDeploy(p) PROVE ApplyingInv'
  BY <1>2 DEF StartDeploy, Listed
<1>3. ASSUME NEW p \in Proc, ReplayFails(p) PROVE ApplyingInv'
  BY <1>3 DEF ReplayFails, Listed
<1>4. ASSUME NEW p \in Proc, NoChanges(p) PROVE ApplyingInv'
  BY <1>4 DEF NoChanges, Listed
<1>5. ASSUME NEW p \in Proc, Diff(p) PROVE ApplyingInv'
  BY <1>5 DEF Diff, Listed
<1>6. ASSUME NEW p \in Proc, NEW label \in Label, NumberDirectory(p, label) PROVE ApplyingInv'
  BY <1>6 DEF NumberDirectory, Listed
<1>7. ASSUME NEW p \in Proc, WriteSql(p) PROVE ApplyingInv'
  <2>1. Listed' = Listed \cup {newName[p]}
    BY <1>7, WhatIsListed
  <2>2. QED
    BY <1>7, <2>1 DEF WriteSql
<1>8. ASSUME NEW p \in Proc, WriteSnapshot(p) PROVE ApplyingInv'
  BY <1>8 DEF WriteSnapshot, Listed
<1>9. ASSUME NEW p \in Proc, BeginApply(p) PROVE ApplyingInv'
  BY <1>9 DEF BeginApply, Listed
<1>10. ASSUME NEW p \in Proc, NEW n \in DirName, SkipApplied(p, n) PROVE ApplyingInv'
  <2>1. n \in Recorded(ledger)
    <3>1. Row(n, sqlFile[n]) \in ledger /\ Row(n, sqlFile[n]).name = n
      BY <1>10 DEF SkipApplied, Row
    <3>2. QED
      BY <3>1 DEF Recorded
  <2>2. QED
    BY <1>10, <2>1 DEF SkipApplied, Listed
<1>11. ASSUME NEW p \in Proc, NEW n \in DirName, ExecuteMigration(p, n) PROVE ApplyingInv'
  BY <1>11 DEF ExecuteMigration, Listed
<1>12. ASSUME NEW p \in Proc, NEW n \in DirName, MarkApplied(p, n) PROVE ApplyingInv'
  <2>1. Recorded(ledger') = Recorded(ledger) \cup {n}
    BY <1>12, RecordOneMore DEF MarkApplied
  <2>2. ledger \subseteq ledger'
    BY <1>12 DEF MarkApplied
  <2>3. QED
    BY <1>12, <2>1, <2>2 DEF MarkApplied, Listed
<1>13. ASSUME NEW p \in Proc, NEW n \in DirName, ApplyFails(p, n) PROVE ApplyingInv'
  BY <1>13 DEF ApplyFails, Listed
<1>14. ASSUME NEW p \in Proc, FinishApply(p) PROVE ApplyingInv'
  BY <1>14 DEF FinishApply, Listed
<1>15. ASSUME NEW p \in Proc, Generate(p) PROVE ApplyingInv'
  BY <1>15 DEF Generate, Listed
<1>16. ASSUME NEW p \in Proc, Exit(p) PROVE ApplyingInv'
  BY <1>16 DEF Exit, ForgetLocals, Listed
<1>17. ASSUME NEW p \in Proc, Crash(p) PROVE ApplyingInv'
  BY <1>17 DEF Crash, ForgetLocals, Listed
<1>18. ASSUME NEW tables \in SUBSET Table, EditSchema(tables) PROVE ApplyingInv'
  BY <1>18 DEF EditSchema, Listed
<1>19. ASSUME NEW n \in DirName, DeleteDirectory(n) PROVE ApplyingInv'
  BY <1>19 DEF DeleteDirectory
<1>20. ASSUME ResetDatabase PROVE ApplyingInv'
  BY <1>20 DEF ResetDatabase
<1>21. ASSUME UNCHANGED vars PROVE ApplyingInv'
  BY <1>21 DEF vars, Listed
<1>22. ASSUME NEW n \in DirName, NEW sql \in Sql, EditMigration(n, sql) PROVE ApplyingInv'
  <2>1. Listed' = Listed
    BY <1>22, WhatIsListed
  <2>2. QED
    BY <1>22, <2>1 DEF EditMigration
<1>23. QED
  <2> HIDE DEF FilesInv, TypeOK, ApplyingInv, Goto, fileVars, dbVars, applyVars, envVars
  <2>1. QED
    BY <1>1, <1>2, <1>3, <1>4, <1>5, <1>6, <1>7, <1>8, <1>9, <1>10, <1>11, <1>12, <1>13,
       <1>14, <1>15, <1>16, <1>17, <1>18, <1>19, <1>20, <1>21, <1>22
       DEF Next, CommandStep

THEOREM ApplyingInvariant == Spec => []ApplyingInv
BY FilesInvariant, InitApplying, ApplyingStep, PTL DEF Spec

\* However many commands run in one project, none generates the client
\* before the migration it wrote is recorded in the database: it was in the
\* list the command went through, and a failure ends the command.
THEOREM GeneratedWasApplied == Spec => []GeneratesAfterApply
<1>1. ApplyingInv => GeneratesAfterApply
  BY DEF ApplyingInv, GeneratesAfterApply
<1>2. QED
  BY <1>1, ApplyingInvariant, PTL

-----------------------------------------------------------------------------
(* One developer: the history. *)

\* Until a directory is deleted none was; only deleting one says otherwise.
LEMMA StillUndeleted ==
  ASSUME FilesInv, [Next]_vars, Undeleted'
  PROVE  /\ Undeleted
         /\ \A n \in DirName : ~ DeleteDirectory(n)
<1> USE DEF FilesInv, TypeOK, Undeleted
<1>1. ASSUME NEW n \in DirName, DeleteDirectory(n) PROVE FALSE
  BY <1>1, DevBounds DEF DeleteDirectory, Spend
<1>2. ASSUME budget'.deletes = budget.deletes PROVE Undeleted
  BY <1>2
<1>3. QED
  BY <1>1, <1>2, AuthoringSteps DEF LeavesDirectory, Diff, NumberDirectory, WriteSql,
     WriteSnapshot, EditMigration, Spend, envVars

\* What LatestSnapshot chooses.
LEMMA LatestIsLast ==
  FilesInv =>
    \A n \in DirName :
      snapshot[n] # Absent /\ (\A m \in DirName \ {n} : snapshot[m] # Absent => Before(m, n))
        => LatestSnapshot = snapshot[n]
<1> SUFFICES ASSUME NEW n \in DirName, snapshot[n] # Absent,
                    \A m \in DirName \ {n} : snapshot[m] # Absent => Before(m, n)
             PROVE  LatestSnapshot = snapshot[n]
  OBVIOUS
<1> DEFINE with == {m \in DirName : snapshot[m] # Absent}
<1>1. n \in with /\ \A m \in with \ {n} : Before(m, n)
  OBVIOUS
<1>2. \A k \in with : (\A m \in with \ {k} : Before(m, k)) => k = n
  BY <1>1, BeforeAsymmetric
<1>3. (CHOOSE k \in with : \A m \in with \ {k} : Before(m, k)) = n
  BY <1>1, <1>2
<1>4. QED
  BY <1>1, <1>3 DEF LatestSnapshot

LEMMA InitHistory == Init => NumbersInv /\ HistoryInv
<1> SUFFICES ASSUME Init PROVE NumbersInv /\ HistoryInv
  OBVIOUS
<1>1. Listed = {} /\ LatestSnapshot = {}
  BY DEF Init, Listed, LatestSnapshot
<1>2. Replay(Listed) = {} /\ {} # Refused
  BY <1>1, ReplayOfNothing, SchemaIsNoMarker DEF Replay
<1>3. QED
  BY <1>1, <1>2 DEF Init, NumbersInv, HistoryInv

LEMMA NumbersStep ==
  ASSUME OneDeveloper, FilesInv, NumbersInv, [Next]_vars
  PROVE  NumbersInv'
<1> SUFFICES ASSUME Undeleted' PROVE NumbersInv'
  BY DEF NumbersInv
<1> USE DEF OneDeveloper, Goto, fileVars, dbVars, applyVars, envVars
<1>1. Undeleted /\ \A n \in DirName : ~ DeleteDirectory(n)
  BY StillUndeleted
<1>2. Cardinality(Listed) \in Nat /\ \A n \in DirName : n[1] \in Int
  BY FS_CardinalityType, NamePair DEF FilesInv
<1>3. ASSUME NEW p \in Proc, Diff(p) PROVE NumbersInv'
  <2>1. Listed' = Listed
    BY <1>3, WhatIsListed DEF Diff
  <2>2. QED
    BY <1>1, <1>3, <2>1 DEF Diff, NumbersInv, FilesInv, TypeOK
<1>4. ASSUME NEW p \in Proc, NEW label \in Label, NumberDirectory(p, label) PROVE NumbersInv'
  <2>1. Listed' = Listed
    BY <1>4, WhatIsListed DEF NumberDirectory
  <2>2. pc'[p] = "writeSql" /\ newName'[p] = <<Cardinality(Listed) + 1, label>>
    BY <1>4 DEF NumberDirectory, NextSequenceNumber, FilesInv, TypeOK
  <2>3. QED
    BY <1>1, <2>1, <2>2 DEF NumbersInv
<1>5. ASSUME NEW p \in Proc, WriteSql(p) PROVE NumbersInv'
  <2> DEFINE new == newName[p]
  <2>1. Listed' = Listed \cup {new} /\ new \in DirName
    BY <1>5, WhatIsListed
  <2>2. new[1] = Cardinality(Listed) + 1
    BY <1>1, <1>5 DEF WriteSql, NumbersInv
  <2>3. new \notin Listed
    BY <1>1, <1>2, <2>1, <2>2 DEF NumbersInv
  <2>4. Cardinality(Listed') = Cardinality(Listed) + 1
    BY <2>1, <2>3, FS_AddElement DEF FilesInv
  <2>5. \A n \in Listed' : n[1] <= Cardinality(Listed')
    BY <1>1, <1>2, <2>1, <2>2, <2>4 DEF NumbersInv, Listed
  <2>6. pc'[p] = "writeSnapshot" /\ newName'[p] = new
    BY <1>5 DEF WriteSql, FilesInv, TypeOK
  <2>7. \A n \in Listed' \ {new} : Before(n, new)
    BY <1>1, <1>2, <2>1, <2>2 DEF NumbersInv, Listed, Before
  <2>8. QED
    BY <1>1, <2>5, <2>6, <2>7 DEF NumbersInv
<1>6. ASSUME NEW p \in Proc, WriteSnapshot(p) PROVE NumbersInv'
  <2>1. Listed' = Listed /\ pc'[p] = "apply"
    BY <1>6, WhatIsListed DEF WriteSnapshot, FilesInv, TypeOK
  <2>2. QED
    BY <1>1, <2>1 DEF NumbersInv
<1>7. ASSUME LeavesDirectory PROVE NumbersInv'
  <2>1. Listed' = Listed
    BY <1>7, WhatIsListed DEF LeavesDirectory
  <2>2. QED
    BY <1>1, <1>7, <2>1 DEF LeavesDirectory, Authors, NumbersInv
<1>8. ASSUME NEW n \in DirName, NEW sql \in Sql, EditMigration(n, sql) PROVE NumbersInv'
  <2>1. Listed' = Listed
    BY <1>8, WhatIsListed
  <2>2. QED
    BY <1>1, <1>8, <2>1 DEF EditMigration, NumbersInv
<1>9. QED
  BY <1>1, <1>3, <1>4, <1>5, <1>6, <1>7, <1>8, AuthoringSteps

\* A written migration is the last, and does to the history what the plan
\* says.
LEMMA WritingExtends ==
  ASSUME FilesInv, NumbersInv, Undeleted, NEW p \in Proc, WriteSql(p)
  PROVE  /\ \A n \in Listed : Before(n, newName[p])
         /\ newName[p] \notin Listed
         /\ \A n \in Listed : sqlFile'[n] = sqlFile[n]
         /\ sqlFile'[newName[p]] = plan[p]
         /\ ReplayOf(sqlFile', Listed) = Replay(Listed)
         /\ Replay(Listed)' =
              IF Replay(Listed) # Refused /\ Accepts(Replay(Listed), plan[p])
              THEN After(Replay(Listed), plan[p]) ELSE Refused
<1> DEFINE new == newName[p]
<1>1. Listed' = Listed \cup {new} /\ new \in DirName /\ plan[p] \in Sql
  BY WhatIsListed
<1>2. new[1] = Cardinality(Listed) + 1
  BY DEF WriteSql, Goto, NumbersInv
<1>3. \A n \in Listed : Before(n, new)
  <2>1. Cardinality(Listed) \in Nat /\ \A n \in DirName : n[1] \in Int
    BY FS_CardinalityType, NamePair DEF FilesInv
  <2>2. QED
    BY <1>2, <2>1 DEF NumbersInv, Listed, Before
<1>4. new \notin Listed
  BY <1>1, <1>3, BeforeAsymmetric
<1>5. sqlFile' = [sqlFile EXCEPT ![new] = plan[p]] /\ sqlFile \in [DirName -> Sql \cup {Absent}]
  BY DEF WriteSql, FilesInv, TypeOK
<1>6. Listed \subseteq DirName /\ \A n \in Listed : sqlFile[n] \in Sql
  BY <1>5 DEF Listed
<1>7. /\ \A n \in Listed : sqlFile'[n] = sqlFile[n]
      /\ sqlFile'[new] = plan[p]
  BY <1>1, <1>4, <1>5, <1>6
<1>8. ReplayOf(sqlFile', Listed) = Replay(Listed)
  BY <1>7, ReplayReadsItsFiles DEF Replay
<1>9. \A n \in Listed \cup {new} : sqlFile'[n] \in Sql
  BY <1>1, <1>6, <1>7
<1>10. ReplayOf(sqlFile', Listed \cup {new}) =
         IF Replay(Listed) # Refused /\ Accepts(Replay(Listed), plan[p])
         THEN After(Replay(Listed), plan[p]) ELSE Refused
  <2> HIDE DEF new
  <2>1. ReplayOf(sqlFile', Listed \cup {new}) =
          IF ReplayOf(sqlFile', Listed) # Refused /\ Accepts(ReplayOf(sqlFile', Listed), sqlFile'[new])
          THEN After(ReplayOf(sqlFile', Listed), sqlFile'[new]) ELSE Refused
    BY <1>1, <1>3, <1>6, <1>9, ReplayOneMore
  <2>2. QED
    BY <2>1, <1>7, <1>8
<1>11. Replay(Listed)' = ReplayOf(sqlFile', Listed')
  BY DEF Replay
<1>12. QED
  BY <1>1, <1>3, <1>4, <1>7, <1>8, <1>10, <1>11

LEMMA HistoryStep ==
  ASSUME OneDeveloper, SnapshotsKept, FilesInv, NumbersInv, HistoryInv, [Next]_vars
  PROVE  HistoryInv'
<1> SUFFICES ASSUME Undeleted', ~ edited' PROVE HistoryInv'
  BY DEF HistoryInv
<1> USE DEF OneDeveloper, Goto, fileVars, dbVars, applyVars, envVars
<1>1. Undeleted /\ \A n \in DirName : ~ DeleteDirectory(n)
  BY StillUndeleted
<1>2. ~ edited => Replay(Listed) \in SUBSET Table
  BY <1>1, ReplayType DEF HistoryInv, Replay
<1>3. ASSUME UNCHANGED <<sqlFile, snapshot>>
      PROVE  Replay(Listed)' = Replay(Listed) /\ LatestSnapshot' = LatestSnapshot
  BY <1>3 DEF Replay, Listed, LatestSnapshot
<1>4. ASSUME NEW p \in Proc, Diff(p) PROVE HistoryInv'
  <2>1. Replay(Listed)' = Replay(Listed) /\ LatestSnapshot' = LatestSnapshot
    BY <1>3, <1>4 DEF Diff
  <2>2. Previous(p) = Replay(Listed)
    <3>1. CASE command[p] = "shadow"
      BY <3>1 DEF Previous
    <3>2. CASE command[p] # "shadow"
      <4>1. pc[p] = "previous" /\ command[p] = "snapshot" /\ "snapshot" \in Strategies
        BY <1>4, <3>2, StrategyAssumption DEF Diff, FilesInv
      <4>2. MaxCrashes = 0 /\ \A q \in Proc : ~ Unsaved(q)
        BY <4>1 DEF SnapshotsKept, Unsaved
      <4>3. ~ edited
        BY <1>4, <3>2 DEF Diff, FilesInv, TypeOK
      <4>4. QED
        BY <1>1, <3>2, <4>2, <4>3 DEF HistoryInv, Previous
    <3>3. QED
      BY <3>1, <3>2
  <2>3. /\ pc'[p] = "number" /\ target'[p] = target[p]
        /\ plan'[p] = DiffSchemas(Replay(Listed), target[p])
    BY <1>4, <2>2 DEF Diff, FilesInv, TypeOK
  <2>4. Replay(Listed) # Refused
    BY <1>4, <2>2 DEF Diff
  <2>5. CASE command[p] = "shadow"
    <3>1. Unsaved(p)'
      BY <1>4, <2>3, <2>5 DEF Diff, Unsaved
    <3>2. QED
      BY <2>1, <2>3, <2>4, <3>1 DEF HistoryInv
  <2>6. CASE command[p] # "shadow"
    <3>1. ~ edited
      BY <1>4, <2>6 DEF Diff, FilesInv, TypeOK
    <3>2. \A q \in Proc : ~ Unsaved(q)
      BY <1>4 DEF Diff, Unsaved
    <3>3. QED
      BY <1>1, <2>1, <2>3, <2>4, <3>1, <3>2 DEF HistoryInv
  <2>7. QED
    BY <2>5, <2>6
<1>5. ASSUME NEW p \in Proc, NEW label \in Label, NumberDirectory(p, label) PROVE HistoryInv'
  <2>1. Replay(Listed)' = Replay(Listed) /\ LatestSnapshot' = LatestSnapshot
    BY <1>3, <1>5 DEF NumberDirectory
  <2>2. /\ pc[p] = "number" /\ pc'[p] = "writeSql"
        /\ target'[p] = target[p] /\ plan'[p] = plan[p] /\ ~ edited
        /\ Unsaved(p)' <=> Unsaved(p)
    BY <1>5 DEF NumberDirectory, FilesInv, TypeOK, Unsaved
  <2>3. QED
    BY <1>1, <2>1, <2>2 DEF HistoryInv
<1>6. ASSUME NEW p \in Proc, WriteSql(p) PROVE HistoryInv'
  <2>1. /\ pc[p] = "writeSql" /\ pc'[p] = "writeSnapshot" /\ target'[p] = target[p]
        /\ target[p] \in SUBSET Table /\ ~ edited /\ Unsaved(p)'
    BY <1>6 DEF WriteSql, FilesInv, TypeOK, Schemas, Unsaved
  <2>2. plan[p] = DiffSchemas(Replay(Listed), target[p])
    BY <1>1, <2>1 DEF HistoryInv
  <2>3. /\ Accepts(Replay(Listed), plan[p])
        /\ After(Replay(Listed), plan[p]) = target[p]
    BY <1>2, <2>1, <2>2, DiffDelivers
  <2>4. Replay(Listed)' = target[p]
    BY <1>1, <1>6, <2>1, <2>3, WritingExtends DEF HistoryInv
  <2>5. target[p] # Refused
    BY <2>1, SchemaIsNoMarker
  <2>6. QED
    BY <2>1, <2>4, <2>5 DEF HistoryInv
<1>7. ASSUME NEW p \in Proc, WriteSnapshot(p) PROVE HistoryInv'
  <2> DEFINE new == newName[p]
  <2>1. /\ pc[p] = "writeSnapshot" /\ pc'[p] = "apply" /\ target'[p] = target[p]
        /\ target[p] \in SUBSET Table /\ ~ edited
    BY <1>7 DEF WriteSnapshot, FilesInv, TypeOK, Schemas
  <2>2. Replay(Listed)' = Replay(Listed) /\ Replay(Listed) = target[p]
    BY <1>1, <1>7, <2>1 DEF WriteSnapshot, HistoryInv, Replay, Listed
  <2>3. new \in Listed /\ new \in DirName /\ \A n \in Listed \ {new} : Before(n, new)
    BY <1>1, <2>1 DEF NumbersInv, FilesInv, Listed
  <2>4. snapshot' = [snapshot EXCEPT ![new] = target[p]] /\ target[p] # Absent
    BY <1>7, <2>1, SchemaIsNoMarker DEF WriteSnapshot
  <2>5. snapshot'[new] = target[p]
    BY <2>3, <2>4 DEF FilesInv, TypeOK
  <2>6. \A m \in DirName \ {new} : snapshot'[m] # Absent => Before(m, new)
    BY <2>3, <2>4 DEF FilesInv, TypeOK
  <2>7. FilesInv'
    BY FilesStep
  <2>8. LatestSnapshot' = target[p]
    <3> HIDE DEF new
    <3>1. (FilesInv =>
             \A n \in DirName :
               snapshot[n] # Absent
                 /\ (\A m \in DirName \ {n} : snapshot[m] # Absent => Before(m, n))
                 => LatestSnapshot = snapshot[n])'
      BY LatestIsLast, PTL
    <3>2. QED
      BY <2>3, <2>4, <2>5, <2>6, <2>7, <3>1
  <2>9. QED
    BY <1>1, <2>1, <2>2, <2>8 DEF HistoryInv
<1>8. ASSUME LeavesDirectory PROVE HistoryInv'
  <2>1. Replay(Listed)' = Replay(Listed) /\ LatestSnapshot' = LatestSnapshot
    BY <1>3, <1>8 DEF LeavesDirectory
  <2>2. ~ edited
    BY <1>8 DEF LeavesDirectory
  <2>3. ASSUME MaxCrashes = 0, \A q \in Proc : ~ Unsaved(q)'
        PROVE  \A q \in Proc : ~ Unsaved(q)
    BY <1>8, <2>3 DEF LeavesDirectory, Unsaved
  <2>4. QED
    BY <1>1, <1>8, <2>1, <2>2, <2>3 DEF LeavesDirectory, Authors, HistoryInv
<1>9. ASSUME NEW n \in DirName, NEW sql \in Sql, EditMigration(n, sql) PROVE HistoryInv'
  BY <1>9 DEF EditMigration
<1>10. QED
  BY <1>1, <1>4, <1>5, <1>6, <1>7, <1>8, <1>9, AuthoringSteps

LEMMA NumbersInvariant ==
  ASSUME OneDeveloper
  PROVE  Spec => []NumbersInv
<1>1. Init => NumbersInv
  BY InitHistory
<1>2. FilesInv /\ NumbersInv /\ [Next]_vars => NumbersInv'
  BY NumbersStep
<1>3. QED
  BY <1>1, <1>2, FilesInvariant, PTL DEF Spec

LEMMA HistoryInvariant ==
  ASSUME OneDeveloper, SnapshotsKept
  PROVE  Spec => []HistoryInv
<1>1. Init => HistoryInv
  BY InitHistory
<1>2. FilesInv /\ NumbersInv /\ HistoryInv /\ [Next]_vars => HistoryInv'
  BY HistoryStep
<1>3. QED
  BY <1>1, <1>2, FilesInvariant, NumbersInvariant, PTL DEF Spec

\* The directory one developer writes can always be replayed on an empty
\* database, with either strategy if no command is killed, and with the
\* shadow strategy whatever is killed; after an edit by hand it can again as
\* soon as a shadow run has started a migration from the edited files.
THEOREM HistoriesReplay ==
  ASSUME OneDeveloper, SnapshotsKept
  PROVE  Spec => []HistoryReplays
<1>1. HistoryInv => HistoryReplays
  BY DEF HistoryInv, HistoryReplays
<1>2. QED
  BY <1>1, HistoryInvariant, PTL

\* Under the same conditions a migration takes the history to the schema it
\* was written for, with the shadow strategy also after edits by hand: what is
\* diffed is what the directory stands for, and the new directory sorts after
\* all others.
THEOREM MigrationsReachTheirTarget ==
  ASSUME OneDeveloper, SnapshotsKept
  PROVE  Spec => []MigrationReachesTarget
<1>1. HistoryInv => MigrationReachesTarget
  BY DEF HistoryInv, MigrationReachesTarget
<1>2. QED
  BY <1>1, HistoryInvariant, PTL

\* When no command is killed the newest snapshot is the schema the directory
\* replays to, unless a migration.sql was edited by hand since the last shadow
\* run that wrote a migration: the two strategies diff from the same schema
\* until then.
THEOREM SnapshotsAreReplays ==
  ASSUME OneDeveloper, MaxCrashes = 0
  PROVE  Spec => []SnapshotIsReplay
<1>1. SnapshotsKept
  BY DEF SnapshotsKept
<1>2. HistoryInv => SnapshotIsReplay
  BY DEF HistoryInv, SnapshotIsReplay, Unsaved
<1>3. QED
  BY <1>1, <1>2, HistoryInvariant, PTL

-----------------------------------------------------------------------------
(* One developer: the database. *)

LEMMA InitDatabase == Init => ChangesInv /\ RowsInv /\ DatabaseInv
<1> SUFFICES ASSUME Init PROVE ChangesInv /\ RowsInv /\ DatabaseInv
  OBVIOUS
<1>1. Listed = {} /\ Recorded(ledger) = {}
  BY DEF Init, Listed, Recorded
<1>2. ReplayOf(RecordedSql, Recorded(ledger)) = database
  BY <1>1, ReplayOfNothing DEF Init
<1>3. QED
  BY <1>1, <1>2 DEF Init, ChangesInv, RowsInv, DatabaseInv, InitialSegment, Looping, Marking,
     Explained

LEMMA ChangesStep ==
  ASSUME FilesInv, ChangesInv, [Next]_vars
  PROVE  ChangesInv'
<1> USE DEF Goto, fileVars, dbVars, applyVars, envVars
<1>1. ASSUME NEW p \in Proc, Diff(p) PROVE ChangesInv'
  <2>1. Changes(DiffSchemas(Previous(p), target[p]))
    BY <1>1, PreviousType, DiffDelivers DEF Diff, FilesInv, TypeOK, Schemas
  <2>2. Listed' = Listed
    BY <1>1, WhatIsListed DEF Diff
  <2>3. QED
    BY <1>1, <2>1, <2>2 DEF Diff, ChangesInv, FilesInv, TypeOK
<1>2. ASSUME NEW p \in Proc, NEW label \in Label, NumberDirectory(p, label) PROVE ChangesInv'
  <2>1. Listed' = Listed
    BY <1>2, WhatIsListed DEF NumberDirectory
  <2>2. QED
    BY <1>2, <2>1 DEF NumberDirectory, ChangesInv, FilesInv, TypeOK
<1>3. ASSUME NEW p \in Proc, WriteSql(p) PROVE ChangesInv'
  <2>1. Listed' = Listed \cup {newName[p]}
    BY <1>3, WhatIsListed
  <2>2. Changes(plan[p])
    BY <1>3 DEF WriteSql, ChangesInv
  <2>3. QED
    BY <1>3, <2>1, <2>2 DEF WriteSql, ChangesInv, FilesInv, TypeOK, Listed
<1>4. ASSUME NEW p \in Proc, WriteSnapshot(p) PROVE ChangesInv'
  <2>1. Listed' = Listed
    BY <1>4, WhatIsListed DEF WriteSnapshot
  <2>2. QED
    BY <1>4, <2>1 DEF WriteSnapshot, ChangesInv, FilesInv, TypeOK
<1>5. ASSUME NEW n \in DirName, DeleteDirectory(n) PROVE ChangesInv'
  <2>1. Listed' = Listed \ {n}
    BY <1>5, WhatIsListed
  <2>2. \A m \in Listed' : sqlFile'[m] = sqlFile[m]
    BY <1>5, <2>1 DEF DeleteDirectory, FilesInv, TypeOK, Listed
  <2>3. budget'.rewrites = budget.rewrites
    BY <1>5 DEF DeleteDirectory, Spend, FilesInv, TypeOK
  <2>4. QED
    BY <1>5, <2>1, <2>2, <2>3 DEF DeleteDirectory, ChangesInv
<1>6. ASSUME LeavesDirectory PROVE ChangesInv'
  <2>1. Listed' = Listed
    BY <1>6, WhatIsListed DEF LeavesDirectory
  <2>2. QED
    BY <1>6, <2>1 DEF LeavesDirectory, Authors, ChangesInv
<1>7. ASSUME NEW n \in DirName, NEW sql \in Sql, EditMigration(n, sql) PROVE ChangesInv'
  <2>1. budget'.rewrites < MaxRewrites
    BY <1>7, DevBounds DEF EditMigration, Spend, FilesInv, TypeOK
  <2>2. QED
    BY <1>7, <2>1, DevBounds DEF EditMigration, ChangesInv
<1>8. QED
  BY <1>1, <1>2, <1>3, <1>4, <1>5, <1>6, <1>7, AuthoringSteps

LEMMA ChangesInvariant == Spec => []ChangesInv
<1>1. Init => ChangesInv
  BY InitDatabase
<1>2. FilesInv /\ ChangesInv /\ [Next]_vars => ChangesInv'
  BY ChangesStep
<1>3. QED
  BY <1>1, <1>2, FilesInvariant, PTL DEF Spec

\* A step that changes neither the migrations nor the database, and takes
\* nobody into the loop; from between executing and recording only a crash or
\* a second row takes a command away.
LeavesDatabase ==
  /\ UNCHANGED <<sqlFile, database, ledger>>
  /\ budget'.rewrites = budget.rewrites
  /\ budget'.crashes <= budget.crashes
  /\ \A q \in Proc : pc'[q] \in {"loop", "mark"} =>
       /\ pc'[q] = pc[q] /\ todo'[q] = todo[q] /\ captured'[q] = captured[q]
       /\ text'[q] = text[q]
  /\ \A q \in Proc : pc[q] = "mark" =>
       \/ pc'[q] = "mark"
       \/ budget'.crashes < budget.crashes
       \/ \E n \in DirName : AtHead(q, n) /\ n \in Recorded(ledger)

\* The steps by what they do to migrations, database and lists.
LEMMA DatabaseSteps ==
  ASSUME FilesInv, [Next]_vars
  PROVE  \/ LeavesDatabase
         \/ \E p \in Proc : WriteSql(p) \/ BeginApply(p)
         \/ \E p \in Proc, n \in DirName : \/ SkipApplied(p, n) \/ ExecuteMigration(p, n)
                                           \/ MarkApplied(p, n)
         \/ \E n \in DirName, sql \in Sql : EditMigration(n, sql)
         \/ \E n \in DirName : DeleteDirectory(n)
         \/ ResetDatabase
<1> USE DEF FilesInv, TypeOK, fileVars, dbVars, applyVars, envVars, Goto, LeavesDatabase
<1>1. ASSUME NEW p \in Proc, NEW strategy \in Strategies, StartDev(p, strategy)
      PROVE  LeavesDatabase
  BY <1>1 DEF StartDev
<1>2. ASSUME NEW p \in Proc, StartDeploy(p) PROVE LeavesDatabase
  BY <1>2 DEF StartDeploy
<1>3. ASSUME NEW p \in Proc, ReplayFails(p) PROVE LeavesDatabase
  BY <1>3 DEF ReplayFails
<1>4. ASSUME NEW p \in Proc, NoChanges(p) PROVE LeavesDatabase
  BY <1>4 DEF NoChanges
<1>5. ASSUME NEW p \in Proc, Diff(p) PROVE LeavesDatabase
  BY <1>5 DEF Diff
<1>6. ASSUME NEW p \in Proc, NEW label \in Label, NumberDirectory(p, label)
      PROVE  LeavesDatabase
  BY <1>6 DEF NumberDirectory
<1>7. ASSUME NEW p \in Proc, WriteSnapshot(p) PROVE LeavesDatabase
  BY <1>7 DEF WriteSnapshot
<1>8. ASSUME NEW p \in Proc, NEW n \in DirName, ApplyFails(p, n) PROVE LeavesDatabase
  BY <1>8 DEF ApplyFails
<1>9. ASSUME NEW p \in Proc, FinishApply(p) PROVE LeavesDatabase
  BY <1>9 DEF FinishApply
<1>10. ASSUME NEW p \in Proc, Generate(p) PROVE LeavesDatabase
  BY <1>10 DEF Generate
<1>11. ASSUME NEW p \in Proc, Exit(p) PROVE LeavesDatabase
  BY <1>11 DEF Exit, ForgetLocals
<1>12. ASSUME NEW p \in Proc, Crash(p) PROVE LeavesDatabase
  BY <1>12 DEF Crash, ForgetLocals, Spend
<1>13. ASSUME NEW tables \in SUBSET Table, EditSchema(tables) PROVE LeavesDatabase
  BY <1>13 DEF EditSchema, Spend
<1>14. ASSUME UNCHANGED vars PROVE LeavesDatabase
  BY <1>14 DEF vars
<1>15. QED
  <2> HIDE DEF FilesInv, TypeOK, fileVars, dbVars, applyVars, envVars, Goto, LeavesDatabase
  <2>1. QED
    BY <1>1, <1>2, <1>3, <1>4, <1>5, <1>6, <1>7, <1>8, <1>9, <1>10, <1>11, <1>12, <1>13,
       <1>14 DEF Next, CommandStep

\* A second row is refused, and what is recorded is a text that was read.
LEMMA RowsStep ==
  ASSUME FilesInv, RowsInv, [Next]_vars
  PROVE  RowsInv'
<1>1. ASSUME NEW p \in Proc, NEW n \in DirName, MarkApplied(p, n) PROVE RowsInv'
  <2>1. n \notin Recorded(ledger) /\ ledger' = ledger \cup {Row(n, text[p])}
    BY <1>1 DEF MarkApplied
  <2>2. text[p] \in Sql
    BY <1>1 DEF MarkApplied, Goto, FilesInv
  <2>3. Row(n, text[p]).name = n /\ Row(n, text[p]).checksum = text[p]
    BY DEF Row
  <2>4. \A r \in ledger : r.name # n
    BY <2>1 DEF Recorded
  <2>5. QED
    BY <2>1, <2>2, <2>3, <2>4 DEF RowsInv
<1>2. CASE UNCHANGED ledger
  BY <1>2 DEF RowsInv
<1>3. CASE ResetDatabase
  BY <1>3 DEF ResetDatabase, RowsInv
<1>4. QED
  BY <1>1, <1>2, <1>3, DatabaseSteps DEF LeavesDatabase, WriteSql, BeginApply, SkipApplied,
     ExecuteMigration, EditMigration, DeleteDirectory, dbVars

LEMMA RowsInvariant == Spec => []RowsInv
<1>1. Init => RowsInv
  BY InitDatabase
<1>2. FilesInv /\ RowsInv /\ [Next]_vars => RowsInv'
  BY RowsStep
<1>3. QED
  BY <1>1, <1>2, FilesInvariant, PTL DEF Spec

\* A row tells what was recorded under its name.
LEMMA RecordedText ==
  ASSUME NEW rows, NEW r \in rows, \A r1, r2 \in rows : r1.name = r2.name => r1 = r2
  PROVE  (CHOOSE k \in rows : k.name = r.name) = r
OBVIOUS

LEMMA RecordedSqlType ==
  ASSUME RowsInv
  PROVE  \A n \in Recorded(ledger) : RecordedSql[n] \in Sql
<1>1. ASSUME NEW n \in Recorded(ledger) PROVE RecordedSql[n] \in Sql
  <2>1. PICK r \in ledger : r.name = n
    BY DEF Recorded
  <2>2. (CHOOSE k \in ledger : k.name = n) \in ledger
    BY <2>1
  <2>3. RecordedSql[n] = (CHOOSE k \in ledger : k.name = n).checksum
    BY DEF RecordedSql
  <2>4. QED
    BY <2>2, <2>3 DEF RowsInv
<1>2. QED
  BY <1>1

\* The first pending migration sorts after everything recorded: a text is
\* executed on what the recorded ones leave.
LEMMA PendingIsNext ==
  ASSUME RowsInv, DatabaseInv, Undeleted, NEW n \in DirName, IsFirstPending(n), NEW sql \in Sql
  PROVE  LET before == ReplayOf(RecordedSql, Recorded(ledger))
         IN  ReplayOf(RecordedSqlAnd(n, sql), Recorded(ledger) \cup {n}) =
               IF before # Refused /\ Accepts(before, sql) THEN After(before, sql) ELSE Refused
<1> DEFINE R == Recorded(ledger)
           files == RecordedSqlAnd(n, sql)
<1>1. R \subseteq Listed /\ n \in Listed \ R
  BY DEF DatabaseInv, InitialSegment, IsFirstPending
<1>2. Listed \subseteq DirName
  BY DEF Listed
<1>3. ASSUME NEW m \in R PROVE Before(m, n)
  <2>1. ~ Before(n, m)
    BY <1>1 DEF DatabaseInv, InitialSegment, Earlier
  <2>2. QED
    BY <1>1, <1>2, <2>1, BeforeTotal
<1>4. files[n] = sql /\ \A m \in R : files[m] = RecordedSql[m]
  BY <1>1 DEF RecordedSqlAnd
<1>5. \A m \in R \cup {n} : files[m] \in Sql
  BY <1>4, RecordedSqlType
<1>6. R \in SUBSET DirName
  BY <1>1, <1>2
<1>7. ReplayOf(files, R) = ReplayOf(RecordedSql, R)
  <2> HIDE DEF files, R
  <2>1. QED
    BY <1>4, ReplayReadsItsFiles
<1>8. QED
  <2> HIDE DEF R, files
  <2>1. ReplayOf(files, R \cup {n}) =
          IF ReplayOf(files, R) # Refused /\ Accepts(ReplayOf(files, R), files[n])
          THEN After(ReplayOf(files, R), files[n]) ELSE Refused
    BY <1>3, <1>5, <1>6, ReplayOneMore
  <2>2. ReplayOf(files, R \cup {n}) =
          IF ReplayOf(RecordedSql, R) # Refused /\ Accepts(ReplayOf(RecordedSql, R), sql)
          THEN After(ReplayOf(RecordedSql, R), sql) ELSE Refused
    BY <1>4, <1>7, <2>1
  <2>3. QED
    BY <2>2 DEF R, files

\* The head of a list in the loop is the first pending migration, unless it
\* is one the command has a row for.
LEMMA HeadIsPending ==
  ASSUME FilesInv, DatabaseInv, Undeleted, NEW p \in Proc, NEW n \in DirName,
         pc[p] = "loop", AtHead(p, n), n \notin Recorded(captured[p])
  PROVE  IsFirstPending(n)
<1>1. /\ todo[p] \subseteq Listed
      /\ Listed \ todo[p] \subseteq Recorded(ledger)
      /\ Recorded(ledger) \cap todo[p] \subseteq Recorded(captured[p])
  BY DEF DatabaseInv, Looping
<1>2. n \in Listed \ Recorded(ledger)
  BY <1>1 DEF AtHead
<1>3. \A m \in Listed \ Recorded(ledger) : m = n \/ Before(n, m)
  BY <1>1 DEF AtHead
<1>4. QED
  BY <1>2, <1>3 DEF IsFirstPending

LEMMA OneFirstPending ==
  ASSUME NEW m \in DirName, NEW n \in DirName, IsFirstPending(m), IsFirstPending(n)
  PROVE  m = n
BY BeforeAsymmetric DEF IsFirstPending

\* What is executed takes the database one text further, and it had not
\* been taken there before.
LEMMA ExecutionGoesFurther ==
  ASSUME OneDeveloper, FilesInv, ChangesInv, RowsInv, DatabaseInv, Undeleted, Traceable,
         NEW p \in Proc, NEW n \in DirName, ExecuteMigration(p, n), IsFirstPending(n)
  PROVE  database' = ReplayOf(RecordedSqlAnd(n, sqlFile[n]), Recorded(ledger) \cup {n})
<1> DEFINE before == ReplayOf(RecordedSql, Recorded(ledger))
<1>1. sqlFile[n] \in Sql /\ n \in Listed
  BY DEF IsFirstPending, FilesInv, TypeOK, Listed
<1>2. ReplayOf(RecordedSqlAnd(n, sqlFile[n]), Recorded(ledger) \cup {n}) =
        IF before # Refused /\ Accepts(before, sqlFile[n])
        THEN After(before, sqlFile[n]) ELSE Refused
  BY <1>1, PendingIsNext
<1>3. database # Refused
  BY SchemaIsNoMarker DEF FilesInv, TypeOK, Schemas
<1>4. Accepts(database, sqlFile[n]) /\ database' = After(database, sqlFile[n])
  BY DEF ExecuteMigration
<1>5. CASE database = before
  BY <1>2, <1>3, <1>4, <1>5
<1>6. CASE /\ budget.crashes < MaxCrashes
           /\ \E k \in DirName : IsFirstPending(k) /\ Reached(k, sqlFile[k])
  <2>1. PICK k \in DirName : IsFirstPending(k) /\ Reached(k, sqlFile[k])
    BY <1>6
  <2>2. k = n
    BY <2>1, OneFirstPending
  <2>3. Changes(sqlFile[n])
    <3>1. budget.crashes \in Nat
      BY DEF FilesInv, TypeOK
    <3>2. budget.rewrites = MaxRewrites
      BY <1>6, <3>1, DevBounds DEF Traceable
    <3>3. QED
      BY <1>1, <3>2 DEF ChangesInv
  <2>4. database = After(before, sqlFile[n]) /\ Accepts(before, sqlFile[n])
    BY <1>2, <1>3, <2>1, <2>2 DEF Reached
  <2>5. FALSE
    <3> HIDE DEF before
    <3>1. QED
      BY <1>1, <1>4, <2>3, <2>4, NotTwice
  <2>6. QED
    BY <2>5
<1>7. \A q \in Proc : pc[q] # "mark"
  BY DEF OneDeveloper, ExecuteMigration, Goto
<1>8. QED
  BY <1>5, <1>6, <1>7 DEF DatabaseInv, Explained

\* Budgets only shrink: what is traceable after a step was before.
LEMMA StillTraceable ==
  ASSUME FilesInv, FilesInv', budget'.crashes <= budget.crashes,
         budget'.rewrites <= budget.rewrites, Traceable'
  PROVE  Traceable
<1>1. /\ budget.crashes \in Nat /\ budget.rewrites \in Nat
      /\ budget'.crashes \in Nat /\ budget'.rewrites \in Nat
  BY DEF FilesInv, TypeOK
<1>2. budget.crashes <= MaxCrashes /\ budget.rewrites <= MaxRewrites
  BY DEF FilesInv
<1>3. QED
  BY <1>1, <1>2, DevBounds DEF Traceable

LEMMA DatabaseStep ==
  ASSUME OneDeveloper, FilesInv, FilesInv', ApplyingInv, NumbersInv, ChangesInv, RowsInv,
         DatabaseInv, [Next]_vars
  PROVE  DatabaseInv'
<1> SUFFICES ASSUME Undeleted'
             PROVE  InitialSegment' /\ (\A q \in Proc : Looping(q)' /\ Marking(q)') /\ Explained'
  BY DEF DatabaseInv
<1> DEFINE Goal == InitialSegment' /\ (\A q \in Proc : Looping(q)' /\ Marking(q)') /\ Explained'
           R == Recorded(ledger)
<1> USE DEF Goto, fileVars, dbVars, applyVars, envVars
<1>1. Undeleted /\ \A n \in DirName : ~ DeleteDirectory(n)
  BY StillUndeleted
<1>2. InitialSegment /\ (\A q \in Proc : Looping(q) /\ Marking(q)) /\ Explained
  BY <1>1 DEF DatabaseInv
<1>3. R \subseteq DirName /\ Listed \subseteq DirName
  BY <1>2 DEF InitialSegment, Listed
<1>4. ASSUME UNCHANGED <<Listed, ledger>>
      PROVE  /\ InitialSegment'
             /\ \A n \in DirName : IsFirstPending(n) <=> IsFirstPending(n)'
             /\ \A n, sql : database' = database => (Reached(n, sql) <=> Reached(n, sql)')
             /\ ReplayOf(RecordedSql, R)' = ReplayOf(RecordedSql, R)
  <2>1. RecordedSql' = RecordedSql /\ R' = R
    BY <1>4 DEF RecordedSql
  <2>2. \A n, sql : RecordedSqlAnd(n, sql)' = RecordedSqlAnd(n, sql)
    BY <2>1 DEF RecordedSqlAnd
  <2>3. QED
    BY <1>2, <1>4, <2>1, <2>2 DEF InitialSegment, IsFirstPending, Reached, Earlier
<1>5. ASSUME LeavesDatabase PROVE Goal
  <2>1. UNCHANGED <<sqlFile, database, ledger>> /\ Listed' = Listed
    BY <1>5, WhatIsListed DEF LeavesDatabase
  <2>2. Traceable' => Traceable
    BY <1>5, StillTraceable DEF LeavesDatabase, FilesInv, TypeOK
  <2>3. ASSUME NEW q \in Proc, pc'[q] \in {"loop", "mark"}
        PROVE  /\ pc'[q] = pc[q] /\ todo'[q] = todo[q] /\ captured'[q] = captured[q]
               /\ text'[q] = text[q]
    BY <1>5, <2>3 DEF LeavesDatabase
  <2>4. ASSUME NEW q \in Proc PROVE Looping(q)'
    BY <1>2, <2>1, <2>3 DEF Looping
  <2>5. ASSUME NEW q \in Proc PROVE Marking(q)'
    <3>1. SUFFICES ASSUME pc'[q] = "mark" PROVE Marking(q)'
      BY DEF Marking
    <3>2. pc[q] = "mark" /\ todo'[q] = todo[q] /\ text'[q] = text[q]
      BY <2>3, <3>1
    <3>3. PICK n \in todo[q] :
            /\ AtHead(q, n) /\ IsFirstPending(n)
            /\ Traceable => Reached(n, text[q])
            /\ budget.rewrites = MaxRewrites => text[q] = sqlFile[n]
      BY <1>2, <3>2 DEF Marking
    <3>4. n \in DirName
      BY <3>3 DEF FilesInv, TypeOK
    <3>5. AtHead(q, n)' /\ IsFirstPending(n)'
      BY <1>4, <2>1, <3>2, <3>3, <3>4 DEF AtHead
    <3>6. Traceable' => Reached(n, text[q])'
      BY <1>4, <2>1, <2>2, <3>2, <3>3 DEF Reached
    <3>7. budget'.rewrites = MaxRewrites => text'[q] = sqlFile'[n]
      BY <1>5, <2>1, <3>2, <3>3 DEF LeavesDatabase
    <3>8. QED
      BY <3>2, <3>5, <3>6, <3>7 DEF Marking
  <2>6. Explained'
    <3>1. SUFFICES ASSUME Traceable' PROVE Explained'
      BY DEF Explained
    <3>2. /\ budget.crashes \in Nat /\ budget'.crashes \in Nat
          /\ budget'.crashes <= budget.crashes /\ budget.crashes <= MaxCrashes
      BY <1>5 DEF LeavesDatabase, FilesInv, TypeOK
    <3>3. CASE database = ReplayOf(RecordedSql, R)
      BY <1>4, <2>1, <3>3 DEF Explained
    <3>4. CASE \E q \in Proc : pc[q] = "mark"
      <4>1. PICK q \in Proc : pc[q] = "mark"
        BY <3>4
      <4>2. PICK n \in todo[q] :
              /\ AtHead(q, n) /\ IsFirstPending(n)
              /\ Traceable => Reached(n, text[q])
              /\ budget.rewrites = MaxRewrites => text[q] = sqlFile[n]
        BY <1>2, <4>1 DEF Marking
      <4>3. n \in DirName
        BY <4>2 DEF FilesInv, TypeOK
      <4>4. ASSUME NEW m \in DirName, AtHead(q, m), m \in R PROVE FALSE
        BY <4>2, <4>3, <4>4, OneHead DEF IsFirstPending
      <4>5. CASE pc'[q] = "mark"
        BY <4>5 DEF Explained
      <4>6. CASE budget'.crashes < budget.crashes
        <5>1. budget'.crashes < MaxCrashes
          BY <3>2, <4>6, DevBounds
        <5>2. budget'.rewrites = MaxRewrites
          BY <3>1, <3>2, <5>1, DevBounds DEF Traceable
        <5>3. Reached(n, sqlFile[n])
          BY <1>5, <2>2, <3>1, <4>2, <5>2 DEF LeavesDatabase
        <5>4. IsFirstPending(n)' /\ Reached(n, sqlFile[n])'
          BY <1>4, <2>1, <4>2, <4>3, <5>3 DEF Reached
        <5>5. QED
          BY <4>3, <5>1, <5>4 DEF Explained
      <4>7. QED
        BY <1>5, <4>1, <4>4, <4>5, <4>6 DEF LeavesDatabase
    <3>5. CASE /\ budget.crashes < MaxCrashes
               /\ \E n \in DirName : IsFirstPending(n) /\ Reached(n, sqlFile[n])
      <4>1. PICK n \in DirName : IsFirstPending(n) /\ Reached(n, sqlFile[n])
        BY <3>5
      <4>2. IsFirstPending(n)' /\ Reached(n, sqlFile[n])'
        BY <1>4, <2>1, <4>1 DEF Reached
      <4>3. budget'.crashes < MaxCrashes
        BY <3>2, <3>5, DevBounds
      <4>4. QED
        BY <4>2, <4>3 DEF Explained
    <3>6. QED
      BY <1>2, <2>2, <3>1, <3>3, <3>4, <3>5 DEF Explained
  <2>7. QED
    BY <1>4, <2>1, <2>4, <2>5, <2>6
<1>6. ASSUME NEW p \in Proc, WriteSql(p) PROVE Goal
  <2> DEFINE new == newName[p]
  <2>1. Listed' = Listed \cup {new} /\ new \in DirName
    BY <1>6, WhatIsListed
  <2>2. /\ \A n \in Listed : Before(n, new)
        /\ new \notin Listed
        /\ \A n \in Listed : sqlFile'[n] = sqlFile[n]
    BY <1>1, <1>6, WritingExtends
  <2>3. ledger' = ledger /\ database' = database /\ budget' = budget
    BY <1>6 DEF WriteSql
  <2>4. \A q \in Proc : pc[q] = "writeSql" /\ pc'[q] = "writeSnapshot"
    BY <1>6 DEF WriteSql, FilesInv, TypeOK, OneDeveloper
  <2>5. RecordedSql' = RecordedSql /\ R' = R
    BY <2>3 DEF RecordedSql
  <2>6. InitialSegment'
    <3>1. ASSUME NEW n \in R PROVE Earlier(Listed', n) \subseteq R
      BY <1>2, <1>3, <2>1, <2>2, BeforeAsymmetric DEF InitialSegment, Earlier
    <3>2. QED
      BY <1>2, <2>1, <2>5, <3>1 DEF InitialSegment
  <2>7. ASSUME NEW n \in DirName, IsFirstPending(n), Reached(n, sqlFile[n])
        PROVE  IsFirstPending(n)' /\ Reached(n, sqlFile[n])'
    <3>1. n \in Listed
      BY <2>7 DEF IsFirstPending
    <3>2. IsFirstPending(n)'
      BY <2>1, <2>2, <2>3, <2>7, <3>1 DEF IsFirstPending
    <3>3. sqlFile'[n] = sqlFile[n]
      BY <2>2, <3>1
    <3>4. Reached(n, sqlFile[n])'
      BY <2>3, <2>5, <2>7, <3>3 DEF Reached, RecordedSqlAnd
    <3>5. QED
      BY <3>2, <3>4
  <2>8. Explained'
    BY <1>2, <2>3, <2>4, <2>5, <2>7 DEF Explained, Traceable
  <2>9. QED
    BY <2>4, <2>6, <2>8 DEF Looping, Marking
<1>7. ASSUME NEW p \in Proc, BeginApply(p) PROVE Goal
  <2>1. UNCHANGED <<sqlFile, database, ledger, budget>> /\ Listed' = Listed
    BY <1>7, WhatIsListed DEF BeginApply
  <2>2. /\ pc[p] = "apply" /\ pc'[p] = "loop" /\ todo'[p] = Listed /\ captured'[p] = ledger
        /\ \A q \in Proc : q = p
    BY <1>7 DEF BeginApply, FilesInv, TypeOK, OneDeveloper
  <2>3. \A q \in Proc : Looping(q)' /\ Marking(q)'
    BY <2>1, <2>2 DEF Looping, Marking
  <2>4. Explained'
    BY <1>2, <1>4, <2>1, <2>2 DEF Explained, Traceable, Reached
  <2>5. QED
    BY <1>4, <2>1, <2>3, <2>4
<1>8. ASSUME NEW p \in Proc, NEW n \in DirName, SkipApplied(p, n) PROVE Goal
  <2>1. UNCHANGED <<sqlFile, database, ledger, captured, budget>> /\ Listed' = Listed
    BY <1>8, WhatIsListed DEF SkipApplied
  <2>2. /\ pc[p] = "loop" /\ pc'[p] = "loop" /\ todo'[p] = todo[p] \ {n}
        /\ \A q \in Proc : q = p
    BY <1>8 DEF SkipApplied, FilesInv, TypeOK, OneDeveloper
  <2>3. n \in R
    <3>1. Row(n, sqlFile[n]) \in ledger /\ Row(n, sqlFile[n]).name = n
      BY <1>8, <2>2 DEF SkipApplied, ApplyingInv, Row
    <3>2. QED
      BY <3>1 DEF Recorded
  <2>4. \A q \in Proc : Looping(q)' /\ Marking(q)'
    BY <1>2, <2>1, <2>2, <2>3 DEF Looping, Marking
  <2>5. Explained'
    BY <1>2, <1>4, <2>1, <2>2 DEF Explained, Traceable, Reached
  <2>6. QED
    BY <1>4, <2>1, <2>4, <2>5
<1>9. ASSUME NEW p \in Proc, NEW n \in DirName, ExecuteMigration(p, n) PROVE Goal
  <2>1. UNCHANGED <<sqlFile, ledger, todo, captured, budget>> /\ Listed' = Listed
    BY <1>9, WhatIsListed DEF ExecuteMigration
  <2>2. /\ pc[p] = "loop" /\ pc'[p] = "mark" /\ text'[p] = sqlFile[n] /\ AtHead(p, n)
        /\ \A q \in Proc : q = p
    BY <1>9 DEF ExecuteMigration, FilesInv, TypeOK, OneDeveloper
  <2>3. IsFirstPending(n)
    BY <1>1, <1>9, HeadIsPending DEF ExecuteMigration
  <2>4. Traceable => database' = ReplayOf(RecordedSqlAnd(n, sqlFile[n]), R \cup {n})
    BY <1>1, <1>9, <2>3, ExecutionGoesFurther
  <2>5. RecordedSqlAnd(n, sqlFile[n])' = RecordedSqlAnd(n, sqlFile[n])
    BY <2>1 DEF RecordedSqlAnd, RecordedSql
  <2>6. Traceable' => Reached(n, text[p])'
    BY <2>1, <2>2, <2>4, <2>5 DEF Reached, Traceable, RecordedSqlAnd
  <2>7. n \in todo'[p] /\ AtHead(p, n)' /\ IsFirstPending(n)'
    BY <1>4, <2>1, <2>2, <2>3 DEF AtHead
  <2>8. Marking(p)'
    BY <2>1, <2>2, <2>6, <2>7 DEF Marking
  <2>9. Looping(p)'
    BY <1>2, <2>1, <2>2 DEF Looping
  <2>10. Explained'
    BY <2>2 DEF Explained
  <2>11. QED
    BY <1>4, <2>1, <2>2, <2>8, <2>9, <2>10
<1>10. ASSUME NEW p \in Proc, NEW n \in DirName, MarkApplied(p, n) PROVE Goal
  <2>1. UNCHANGED <<sqlFile, database, captured, budget>> /\ Listed' = Listed
    BY <1>10, WhatIsListed DEF MarkApplied
  <2>2. /\ pc[p] = "mark" /\ pc'[p] = "loop" /\ todo'[p] = todo[p] \ {n} /\ AtHead(p, n)
        /\ ledger' = ledger \cup {Row(n, text[p])}
        /\ \A q \in Proc : q = p
    BY <1>10 DEF MarkApplied, FilesInv, TypeOK, OneDeveloper
  <2>3. R' = R \cup {n}
    BY <2>2, RecordOneMore
  <2>4. PICK k \in todo[p] :
          /\ AtHead(p, k) /\ IsFirstPending(k)
          /\ Traceable => Reached(k, text[p])
    BY <1>2, <2>2 DEF Marking
  <2>5. k = n
    <3>1. k \in DirName
      BY <2>4 DEF FilesInv, TypeOK
    <3>2. QED
      BY <2>2, <2>4, <3>1, OneHead
  <2>6. n \in Listed \ R
    BY <2>4, <2>5 DEF IsFirstPending
  <2>7. InitialSegment'
    <3>1. Earlier(Listed, n) \subseteq R
      <4>1. ASSUME NEW m \in Listed, Before(m, n), m \notin R PROVE FALSE
        BY <1>3, <2>4, <2>5, <4>1, BeforeAsymmetric DEF IsFirstPending
      <4>2. QED
        BY <4>1 DEF Earlier
    <3>2. QED
      BY <1>2, <2>1, <2>3, <2>6, <3>1 DEF InitialSegment
  <2>8. Looping(p)' /\ Marking(p)'
    BY <1>2, <2>1, <2>2, <2>3 DEF Looping, Marking
  <2>9. \A m \in R \cup {n} : RecordedSql'[m] = RecordedSqlAnd(n, text[p])[m]
    <3>1. RowsInv'
      BY RowsStep
    <3>2. \A r1, r2 \in ledger' : r1.name = r2.name => r1 = r2
      BY <3>1 DEF RowsInv
    <3>3. \A r1, r2 \in ledger : r1.name = r2.name => r1 = r2
      BY DEF RowsInv
    <3>4. RecordedSql'[n] = text[p]
      <4>1. Row(n, text[p]) \in ledger' /\ Row(n, text[p]).name = n
            /\ Row(n, text[p]).checksum = text[p]
        BY <2>2 DEF Row
      <4>2. (CHOOSE r \in ledger' : r.name = n) = Row(n, text[p])
        <5>1. (CHOOSE r \in ledger' : r.name = Row(n, text[p]).name) = Row(n, text[p])
          BY <3>2, <4>1, RecordedText
        <5>2. QED
          BY <4>1, <5>1
      <4>3. QED
        BY <2>3, <4>1, <4>2 DEF RecordedSql
    <3>5. ASSUME NEW m \in R PROVE RecordedSql'[m] = RecordedSql[m]
      <4>1. PICK r \in ledger : r.name = m
        BY DEF Recorded
      <4>2. (CHOOSE k2 \in ledger : k2.name = m) = r
        <5>1. (CHOOSE k2 \in ledger : k2.name = r.name) = r
          BY <3>3, RecordedText
        <5>2. QED
          BY <4>1, <5>1
      <4>3. (CHOOSE k2 \in ledger' : k2.name = m) = r
        <5>1. r \in ledger'
          BY <2>2
        <5>2. (CHOOSE k2 \in ledger' : k2.name = r.name) = r
          BY <3>2, <5>1, RecordedText
        <5>3. QED
          BY <4>1, <5>2
      <4>4. RecordedSql'[m] = r.checksum /\ RecordedSql[m] = r.checksum
        BY <2>3, <4>2, <4>3 DEF RecordedSql
      <4>5. QED
        BY <4>4
    <3>6. QED
      BY <2>6, <3>4, <3>5 DEF RecordedSqlAnd
  <2>10. ReplayOf(RecordedSql', R') = ReplayOf(RecordedSqlAnd(n, text[p]), R \cup {n})
    <3>1. ReplayOf(RecordedSql', R \cup {n}) = ReplayOf(RecordedSqlAnd(n, text[p]), R \cup {n})
      <4> HIDE DEF R
      <4>1. QED
        BY <2>9, ReplayReadsItsFiles
    <3>2. QED
      BY <2>3, <3>1
  <2>11. Explained'
    BY <2>1, <2>4, <2>5, <2>10 DEF Explained, Traceable, Reached
  <2>12. QED
    BY <2>2, <2>7, <2>8, <2>11
<1>11. ASSUME NEW n \in DirName, NEW sql \in Sql, EditMigration(n, sql) PROVE Goal
  <2>1. UNCHANGED <<database, ledger, pc, todo, captured, text>> /\ Listed' = Listed
    BY <1>11, WhatIsListed DEF EditMigration
  <2>2. /\ budget'.rewrites < MaxRewrites /\ budget'.rewrites <= budget.rewrites
        /\ budget'.crashes = budget.crashes
    BY <1>11, DevBounds DEF EditMigration, Spend, FilesInv, TypeOK
  <2>3. Traceable' => Traceable /\ budget.crashes = MaxCrashes
    BY <2>2, DevBounds DEF Traceable, FilesInv, TypeOK
  <2>4. ASSUME NEW q \in Proc PROVE Looping(q)'
    BY <1>2, <2>1 DEF Looping
  <2>5. ASSUME NEW q \in Proc PROVE Marking(q)'
    <3>1. SUFFICES ASSUME pc[q] = "mark" PROVE Marking(q)'
      BY <2>1 DEF Marking
    <3>2. PICK k \in todo[q] :
            /\ AtHead(q, k) /\ IsFirstPending(k)
            /\ Traceable => Reached(k, text[q])
      BY <1>2, <3>1 DEF Marking
    <3>3. k \in DirName
      BY <3>2 DEF FilesInv, TypeOK
    <3>4. AtHead(q, k)' /\ IsFirstPending(k)'
      BY <1>4, <2>1, <3>2, <3>3 DEF AtHead
    <3>5. Traceable' => Reached(k, text[q])'
      BY <1>4, <2>1, <2>3, <3>2 DEF Reached
    <3>6. ~ budget'.rewrites = MaxRewrites
      BY <2>2, DevBounds DEF FilesInv, TypeOK
    <3>7. QED
      BY <2>1, <3>2, <3>4, <3>5, <3>6 DEF Marking
  <2>6. Explained'
    <3>1. SUFFICES ASSUME Traceable' PROVE Explained'
      BY DEF Explained
    <3>2. database = ReplayOf(RecordedSql, R) \/ \E q \in Proc : pc[q] = "mark"
      BY <1>2, <2>3, <3>1, DevBounds DEF Explained
    <3>3. QED
      BY <1>4, <2>1, <3>2 DEF Explained
  <2>7. QED
    BY <1>4, <2>1, <2>4, <2>5, <2>6
<1>12. ASSUME ResetDatabase PROVE Goal
  <2>1. R' = {} /\ database' = {} /\ \A q \in Proc : pc'[q] = "idle"
    BY <1>12 DEF ResetDatabase, Recorded
  <2>2. ReplayOf(RecordedSql', R') = {}
    BY <2>1, ReplayOfNothing
  <2>3. QED
    BY <2>1, <2>2 DEF InitialSegment, Looping, Marking, Explained
<1>13. QED
  BY <1>1, <1>5, <1>6, <1>7, <1>8, <1>9, <1>10, <1>11, <1>12, DatabaseSteps

LEMMA DatabaseInvariant ==
  ASSUME OneDeveloper
  PROVE  Spec => []DatabaseInv
<1>1. Init => DatabaseInv
  BY InitDatabase
<1>2. FilesInv /\ FilesInv' /\ ApplyingInv /\ NumbersInv /\ ChangesInv /\ RowsInv
        /\ DatabaseInv /\ [Next]_vars
        => DatabaseInv'
  BY DatabaseStep
<1>3. QED
  BY <1>1, <1>2, FilesInvariant, ApplyingInvariant, NumbersInvariant, ChangesInvariant,
     RowsInvariant, PTL DEF Spec

\* While one developer writes and applies migrations, with either strategy
\* and whatever is killed or reset, the database is what the texts recorded
\* in its ledger make of an empty one, or the next one further: a crash between
\* executing a migration and recording it is all that separates the two.  That
\* files are edited by hand meanwhile changes nothing about it, because the row
\* holds the checksum of the text that was executed; only when a command was
\* killed and a file edited is it unknown what the killed command had executed.
THEOREM DatabasesAreReplays ==
  ASSUME OneDeveloper
  PROVE  Spec => []DatabaseIsReplay
<1>1. FilesInv /\ DatabaseInv => DatabaseIsReplay
  <2> SUFFICES ASSUME FilesInv, DatabaseInv, Undeleted, Traceable,
                      database # ReplayOf(RecordedSql, Recorded(ledger))
               PROVE  \E n \in FirstPending : \E sql \in InDoubt(n) : Reached(n, sql)
    BY DEF DatabaseIsReplay, Reached
  <2>1. \A n \in DirName : IsFirstPending(n) => n \in FirstPending
    BY DEF IsFirstPending, FirstPending
  <2>2. CASE \E p \in Proc : pc[p] = "mark"
    <3>1. PICK p \in Proc : pc[p] = "mark"
      BY <2>2
    <3>2. PICK n \in todo[p] : IsFirstPending(n) /\ Reached(n, text[p])
      BY <3>1 DEF DatabaseInv, Marking
    <3>3. n \in DirName /\ text[p] \in InDoubt(n)
      BY <3>1, <3>2 DEF FilesInv, TypeOK, InDoubt
    <3>4. QED
      BY <2>1, <3>2, <3>3
  <2>3. CASE /\ budget.crashes < MaxCrashes
             /\ \E n \in DirName : IsFirstPending(n) /\ Reached(n, sqlFile[n])
    <3>1. PICK n \in DirName : IsFirstPending(n) /\ Reached(n, sqlFile[n])
      BY <2>3
    <3>2. sqlFile[n] \in InDoubt(n)
      BY <2>3 DEF InDoubt
    <3>3. QED
      BY <2>1, <3>1, <3>2
  <2>4. QED
    BY <2>2, <2>3 DEF DatabaseInv, Explained
<1>2. QED
  BY <1>1, FilesInvariant, DatabaseInvariant, PTL

\* Under the same conditions migrations are recorded in the order of their
\* names: everything listed before a recorded one is recorded.
RecordedIsInitial ==
  Undeleted => \A n \in Recorded(ledger) : Earlier(Listed, n) \subseteq Recorded(ledger)

THEOREM MigrationsAreRecordedInOrder ==
  ASSUME OneDeveloper
  PROVE  Spec => []RecordedIsInitial
<1>1. DatabaseInv => RecordedIsInitial
  BY DEF DatabaseInv, InitialSegment, RecordedIsInitial
<1>2. QED
  BY <1>1, DatabaseInvariant, PTL
=============================================================================
