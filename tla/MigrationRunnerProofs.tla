------------------------ MODULE MigrationRunnerProofs ------------------------
(***************************************************************************)
(* Proofs about MigrationRunner for any number of processes, names and     *)
(* contents, any bounds and either provider.                               *)
(*                                                                         *)
(* Two inductive invariants carry them.  Executing says how the private    *)
(* progress of a process relates to what the database has seen; it makes   *)
(* a row truthful when it is inserted.  Verifying says what the names a    *)
(* process has left behind stand for; it makes Ok mean something.          *)
(***************************************************************************)
EXTENDS MigrationRunner, TLAPS

\* A process that executes or records holds a content; the statements before
\* its position have taken effect under the name it is at, and it records
\* only from the end of the content.
ExecutingAt(p) ==
  pc[p] \in {"exec", "mark"} =>
    /\ file[p] \in Files
    /\ pc[p] = "exec" => pos[p] < Len(file[p])
    /\ pc[p] = "mark" => pos[p] = Len(file[p])
    /\ \A n \in todo[p] : AtHead(p, n) => \A i \in 1..pos[p] : ran[n][file[p][i]] > 0

Executing == \A p \in Proc : ExecutingAt(p)

\* The copy of the ledger a process decides from is part of the ledger.
CapturedIsOld ==
  \A p \in Proc :
    /\ captured[p] \subseteq ledger
    /\ appliedNew[p] \subseteq Names(ledger)
    /\ pc[p] = "idle" => captured[p] = {} /\ appliedNew[p] = {}

\* In an undisturbed run, the listed names a process is done with are
\* recorded as they are on disk, and it executes what is on disk.
VerifyingAt(p) ==
  ~ dirty[p] =>
    /\ pc[p] \in {"loop", "exec", "mark", "done"} =>
         \A n \in OnDisk \ todo[p] : RowOnDisk(n) \in ledger
    /\ pc[p] \in {"exec", "mark"} =>
         \A n \in todo[p] : AtHead(p, n) => n \in OnDisk /\ file[p] = disk[n]
    /\ pc[p] = "done" => todo[p] = {}

Verifying == \A p \in Proc : VerifyingAt(p)

\* Without edits nothing is disturbed.
CleanWithoutEdits == edits = 0 => \A p \in Proc : ~ dirty[p]

-----------------------------------------------------------------------------
(* Types. *)

\* A type invariant that is inductive: the content a process executes or
\* records is one that a file may have.
TypeInv ==
  /\ TypeOK
  /\ \A p \in Proc : pc[p] \in {"exec", "mark"} => file[p] \in Files

LEMMA NothingRanType == [n \in Name |-> [s \in Stmt |-> 0]] \in [Name -> [Stmt -> Nat]]
<1>1. [s \in Stmt |-> 0] \in [Stmt -> Nat]
  OBVIOUS
<1>2. QED
  BY <1>1

\* What a reset does, apart from emptying the effects.
LEMMA ResetSummary ==
  ResetDatabase =>
    /\ \A p \in Proc : pc[p] = "idle"
    /\ edits' = edits + 1
    /\ table' = FALSE
    /\ ledger' = {}
    /\ pc' = pc /\ captured' = captured /\ todo' = todo /\ file' = file
    /\ pos' = pos /\ appliedNew' = appliedNew
    /\ disk' = disk /\ dirty' = dirty /\ faults' = faults
  BY Zenon DEF ResetDatabase, localVars

LEMMA TypeStep == TypeInv /\ [Next]_vars => TypeInv'
<1> SUFFICES ASSUME TypeInv, [Next]_vars PROVE TypeInv'
  OBVIOUS
<1> USE FilesAssumption, BoundAssumption DEF TypeInv, TypeOK, PcValues
<1>1. ASSUME NEW p \in Proc, Start(p) PROVE TypeInv'
  BY <1>1 DEF Start, dbVars
<1>2. ASSUME NEW p \in Proc, EnsureTable(p) PROVE TypeInv'
  BY <1>2 DEF EnsureTable, envVars
<1>3. ASSUME NEW p \in Proc, GetApplied(p) PROVE TypeInv'
  BY <1>3 DEF GetApplied, envVars, dbVars
<1>4. ASSUME NEW p \in Proc, ListMigrations(p) PROVE TypeInv'
  BY <1>4 DEF ListMigrations, envVars, dbVars, OnDisk
<1>5. ASSUME NEW p \in Proc, SkipApplied(p) PROVE TypeInv'
  BY <1>5 DEF SkipApplied, envVars, dbVars
<1>6. ASSUME NEW p \in Proc, RejectMigration(p) PROVE TypeInv'
  BY <1>6 DEF RejectMigration, Fail, envVars, dbVars
<1>7. ASSUME NEW p \in Proc, ReadPending(p) PROVE TypeInv'
  BY <1>7 DEF ReadPending, envVars, dbVars
<1>8. ASSUME NEW p \in Proc, ExecuteBatch(p) PROVE TypeInv'
  <2>1. PICK n \in todo[p] :
          ran' = [ran EXCEPT ![n] =
                   [s \in Stmt |-> IF s \in Batch(p) THEN OnceMore(@[s]) ELSE @[s]]]
    BY <1>8 DEF ExecuteBatch
  <2>2. ran' \in [Name -> [Stmt -> Nat]]
    BY <2>1 DEF OnceMore
  <2>3. BatchEnd(p) \in Nat
    <3>1. file[p] \in Seq(Stmt)
      BY <1>8 DEF ExecuteBatch
    <3>2. QED
      BY <3>1 DEF BatchEnd
  <2>4. QED
    BY <1>8, <2>2, <2>3 DEF ExecuteBatch, envVars
<1>9. ASSUME NEW p \in Proc, ExecuteRefused(p) PROVE TypeInv'
  BY <1>9 DEF ExecuteRefused, Fail, envVars, dbVars
<1>10. ASSUME NEW p \in Proc, MarkApplied(p) PROVE TypeInv'
  BY <1>10 DEF MarkApplied, envVars, Row
<1>11. ASSUME NEW p \in Proc, MarkRefused(p) PROVE TypeInv'
  BY <1>11 DEF MarkRefused, Fail, envVars, dbVars
<1>12. ASSUME NEW p \in Proc, Finish(p) PROVE TypeInv'
  BY <1>12 DEF Finish, envVars, dbVars
<1>13. ASSUME NEW p \in Proc, Exit(p) PROVE TypeInv'
  BY <1>13 DEF Exit, ForgetLocals, envVars, dbVars
<1>14. ASSUME NEW p \in Proc, DatabaseError(p) PROVE TypeInv'
  BY <1>14 DEF DatabaseError, Fail, envVars, dbVars
<1>15. ASSUME NEW p \in Proc, Crash(p) PROVE TypeInv'
  BY <1>15 DEF Crash, ForgetLocals, envVars, dbVars
<1>16. ASSUME NEW n \in Name, NEW f \in Files \cup {NoFile}, EditDisk(n, f) PROVE TypeInv'
  BY <1>16 DEF EditDisk, localVars, dbVars
<1>17. CASE ResetDatabase
  <2>1. ran' \in [Name -> [Stmt -> Nat]]
    <3>1. ran' = [n \in Name |-> [s \in Stmt |-> 0]]
      BY <1>17, Zenon DEF ResetDatabase
    <3>2. QED
      BY <3>1, NothingRanType, Zenon
  <2>2. ledger' \subseteq Row
    BY <1>17, ResetSummary
  <2>3. edits' \in Nat
    BY <1>17, ResetSummary
  <2>4. table' \in BOOLEAN
    BY <1>17, ResetSummary
  <2>5. QED
    BY <1>17, ResetSummary, <2>1, <2>2, <2>3, <2>4
<1>18. CASE UNCHANGED vars
  BY <1>18 DEF vars
<1>19. QED
  BY <1>1, <1>2, <1>3, <1>4, <1>5, <1>6, <1>7, <1>8, <1>9, <1>10, <1>11, <1>12,
     <1>13, <1>14, <1>15, <1>16, <1>17, <1>18 DEF Next, RunStep

LEMMA TypeInit == Init => TypeInv
<1> SUFFICES ASSUME Init PROVE TypeInv
  OBVIOUS
<1>1. ran \in [Name -> [Stmt -> Nat]]
  BY NothingRanType DEF Init
<1>2. ledger \subseteq Row /\ table \in BOOLEAN /\ faults \in Nat /\ edits \in Nat
  BY DEF Init
<1>3. QED
  BY <1>1, <1>2 DEF Init, TypeInv, TypeOK, PcValues

\* The variables keep their types: in particular a process that executes or
\* records always holds a content, and every row holds one.
THEOREM TypeCorrect == Spec => []TypeOK
<1>1. TypeInv => TypeOK
  BY DEF TypeInv
<1>2. QED
  BY TypeInit, TypeStep, <1>1, PTL DEF Spec

-----------------------------------------------------------------------------
(* A recorded migration was executed. *)

\* What took effect stays in effect, but for a reset.
EffectsStay == \A n \in Name, s \in Stmt : ran[n][s] > 0 => ran'[n][s] > 0

\* The head of a process's list is unique.
LEMMA HeadUnique ==
  ASSUME TypeOK, NEW p \in Proc, NEW n, NEW m, AtHead(p, n), AtHead(p, m)
  PROVE  n = m
  BY NameAssumption DEF AtHead, TypeOK

\* A process that takes no step keeps its part of Executing.
LEMMA ExecutingStable ==
  ASSUME TypeInv, NEW p \in Proc, ExecutingAt(p), EffectsStay,
         pc'[p] \in {"exec", "mark"} =>
           pc'[p] = pc[p] /\ todo'[p] = todo[p] /\ file'[p] = file[p] /\ pos'[p] = pos[p]
  PROVE  ExecutingAt(p)'
<1> SUFFICES ASSUME pc'[p] \in {"exec", "mark"} PROVE ExecutingAt(p)'
  BY DEF ExecutingAt
<1>1. /\ file'[p] \in Files
      /\ pc'[p] = "exec" => pos'[p] < Len(file'[p])
      /\ pc'[p] = "mark" => pos'[p] = Len(file'[p])
  BY DEF ExecutingAt
<1>2. ASSUME NEW n \in todo'[p], AtHead(p, n)', NEW i \in 1..pos'[p]
      PROVE  ran'[n][file'[p][i]] > 0
  <2>1. n \in Name /\ AtHead(p, n)
    BY <1>2 DEF AtHead, TypeInv, TypeOK
  <2>2. file[p] \in Seq(Stmt) /\ i \in 1..Len(file[p])
    BY <1>2, FilesAssumption DEF ExecutingAt, TypeInv, TypeOK
  <2>3. file[p][i] \in Stmt
    BY <2>2
  <2>4. ran[n][file[p][i]] > 0
    BY <1>2, <2>1 DEF ExecutingAt
  <2>5. QED
    BY <2>1, <2>3, <2>4 DEF EffectsStay
<1>3. QED
  BY <1>1, <1>2 DEF ExecutingAt

\* A batch taking effect leaves everything else in effect, and puts its own
\* statements into effect.
LEMMA BatchTakesEffect ==
  ASSUME TypeInv, NEW p \in Proc, ExecuteBatch(p)
  PROVE  /\ EffectsStay
         /\ \A n \in todo[p] : AtHead(p, n) =>
              \A s \in Stmt : s \in Batch(p) => ran'[n][s] > 0
<1>1. PICK n \in todo[p] :
        /\ AtHead(p, n)
        /\ ran' = [ran EXCEPT ![n] =
                     [s \in Stmt |-> IF s \in Batch(p) THEN OnceMore(@[s]) ELSE @[s]]]
  BY DEF ExecuteBatch
<1>2. n \in Name
  BY DEF TypeInv, TypeOK
<1>3. \A s \in Stmt : ran'[n][s] = IF s \in Batch(p) THEN OnceMore(ran[n][s]) ELSE ran[n][s]
  BY <1>1, <1>2 DEF TypeInv, TypeOK
<1>4. \A m \in Name : m # n => ran'[m] = ran[m]
  BY <1>1, <1>2 DEF TypeInv, TypeOK
<1>5. \A k \in Nat : OnceMore(k) > 0
  BY BoundAssumption DEF OnceMore
<1>6. \A s \in Stmt : ran[n][s] \in Nat
  BY <1>2 DEF TypeInv, TypeOK
<1>7. EffectsStay
  BY <1>3, <1>4, <1>5, <1>6 DEF EffectsStay
<1>8. \A m \in todo[p] : AtHead(p, m) => m = n
  BY <1>1, HeadUnique DEF TypeInv
<1>9. QED
  BY <1>3, <1>5, <1>6, <1>7, <1>8

LEMMA ExecutingStep == TypeInv /\ Executing /\ [Next]_vars => Executing'
<1> SUFFICES ASSUME TypeInv, Executing, [Next]_vars, NEW q \in Proc
             PROVE  ExecutingAt(q)'
  BY DEF Executing
<1>0. ExecutingAt(q)
  BY DEF Executing
<1> USE DEF TypeInv, TypeOK
<1>1. CASE EffectsStay /\ (pc'[q] \in {"exec", "mark"} =>
        pc'[q] = pc[q] /\ todo'[q] = todo[q] /\ file'[q] = file[q] /\ pos'[q] = pos[q])
  BY <1>0, <1>1, ExecutingStable
<1>2. ran' = ran => EffectsStay
  BY DEF EffectsStay
<1>3. ASSUME NEW p \in Proc,
             \/ Start(p) \/ EnsureTable(p) \/ GetApplied(p) \/ ListMigrations(p)
             \/ SkipApplied(p) \/ RejectMigration(p) \/ ExecuteRefused(p)
             \/ MarkApplied(p) \/ MarkRefused(p) \/ Finish(p)
      PROVE  ExecutingAt(q)'
  <2>1. ran' = ran /\ (pc'[q] \in {"exec", "mark"} =>
        pc'[q] = pc[q] /\ todo'[q] = todo[q] /\ file'[q] = file[q] /\ pos'[q] = pos[q])
    BY <1>3 DEF Start, EnsureTable, GetApplied, ListMigrations, SkipApplied,
         RejectMigration, ExecuteRefused, MarkApplied, MarkRefused, Finish, Fail,
         envVars, dbVars
  <2>2. QED
    BY <1>1, <1>2, <2>1
<1>4. ASSUME NEW p \in Proc, Exit(p) \/ DatabaseError(p) \/ Crash(p)
      PROVE  ExecutingAt(q)'
  <2>1. ran' = ran /\ (pc'[q] \in {"exec", "mark"} =>
        pc'[q] = pc[q] /\ todo'[q] = todo[q] /\ file'[q] = file[q] /\ pos'[q] = pos[q])
    BY <1>4 DEF Exit, DatabaseError, Crash, Fail, ForgetLocals, envVars, dbVars
  <2>2. QED
    BY <1>1, <1>2, <2>1
<1>5. ASSUME NEW p \in Proc, ReadPending(p) PROVE ExecutingAt(q)'
  <2>1. CASE q # p
    BY <2>1, <1>5, <1>1, <1>2 DEF ReadPending, envVars, dbVars
  <2>2. CASE q = p
    <3>1. PICK n \in todo[p] :
            /\ disk[n] # NoFile
            /\ file' = [file EXCEPT ![p] = disk[n]]
            /\ pc' = [pc EXCEPT ![p] = IF disk[n] = <<>> THEN "mark" ELSE "exec"]
      BY <1>5 DEF ReadPending
    <3>2. disk[n] \in Files /\ disk[n] \in Seq(Stmt)
      BY <3>1, FilesAssumption
    <3>3. IF disk[n] = <<>> THEN Len(disk[n]) = 0 ELSE 0 < Len(disk[n])
      BY <3>2
    <3>4. pos'[p] = 0 /\ todo' = todo
      BY <1>5 DEF ReadPending
    <3>5. file'[p] = disk[n] /\ pc'[p] = IF disk[n] = <<>> THEN "mark" ELSE "exec"
      BY <3>1
    <3>6. QED
      BY <2>2, <3>2, <3>3, <3>4, <3>5 DEF ExecutingAt
  <2>3. QED
    BY <2>1, <2>2
<1>6. ASSUME NEW p \in Proc, ExecuteBatch(p) PROVE ExecutingAt(q)'
  <2>1. EffectsStay /\ \A n \in todo[p] : AtHead(p, n) =>
              \A s \in Stmt : s \in Batch(p) => ran'[n][s] > 0
    BY <1>6, BatchTakesEffect
  <2>2. CASE q # p
    BY <1>6, <2>1, <2>2, <1>1 DEF ExecuteBatch
  <2>3. CASE q = p
    <3>1. pc[p] = "exec" /\ file' = file /\ todo' = todo /\ pos'[p] = BatchEnd(p)
            /\ pc'[p] = IF BatchEnd(p) = Len(file[p]) THEN "mark" ELSE "exec"
      BY <1>6 DEF ExecuteBatch, envVars
    <3>2. file[p] \in Files /\ file[p] \in Seq(Stmt) /\ pos[p] < Len(file[p]) /\ pos[p] \in Nat
      BY <3>1, <1>0, <2>3, FilesAssumption DEF ExecutingAt
    <3>3. BatchEnd(p) \in Nat /\ BatchEnd(p) <= Len(file[p])
      BY <3>2 DEF BatchEnd
    <3>4. ASSUME NEW n \in todo[p], AtHead(p, n), NEW i \in 1..BatchEnd(p)
          PROVE  ran'[n][file[p][i]] > 0
      <4>1. i \in 1..Len(file[p]) /\ file[p][i] \in Stmt
        BY <3>2, <3>3
      <4>2. CASE i \in 1..pos[p]
        <5>1. ran[n][file[p][i]] > 0
          BY <4>2, <3>1, <3>4, <1>0, <2>3 DEF ExecutingAt
        <5>2. QED
          BY <5>1, <4>1, <2>1 DEF EffectsStay
      <4>3. CASE i \notin 1..pos[p]
        <5>1. file[p][i] \in Batch(p)
          BY <4>1, <4>3, <3>2, <3>4 DEF Batch, BatchEnd, StatementsOf
        <5>2. QED
          BY <5>1, <4>1, <2>1, <3>4
      <4>4. QED
        BY <4>2, <4>3
    <3>5. \A n \in todo'[p] : AtHead(p, n)' => AtHead(p, n)
      BY <3>1 DEF AtHead
    <3>6. QED
      BY <2>3, <3>1, <3>2, <3>3, <3>4, <3>5 DEF ExecutingAt
  <2>4. QED
    BY <2>2, <2>3
<1>7. ASSUME NEW n \in Name, NEW f \in Files \cup {NoFile}, EditDisk(n, f)
      PROVE  ExecutingAt(q)'
  BY <1>7, <1>1, <1>2 DEF EditDisk, localVars, dbVars
<1>8. CASE ResetDatabase
  BY <1>8, ResetSummary DEF ExecutingAt
<1>9. CASE UNCHANGED vars
  BY <1>9, <1>1, <1>2 DEF vars
<1>10. QED
  BY <1>3, <1>4, <1>5, <1>6, <1>7, <1>8, <1>9 DEF Next, RunStep

\* Only MarkApplied inserts a row, and only a reset removes effects or rows.
LEMMA LedgerSteps ==
  ASSUME TypeInv, [Next]_vars, ~ ResetDatabase
  PROVE  /\ EffectsStay
         /\ ledger \subseteq ledger'
         /\ ledger' = ledger \/ \E p \in Proc : MarkApplied(p)
<1>1. ran' = ran => EffectsStay
  BY DEF EffectsStay
<1>2. ASSUME NEW p \in Proc, ExecuteBatch(p) PROVE EffectsStay /\ ledger' = ledger
  BY <1>2, BatchTakesEffect DEF ExecuteBatch
<1>3. ASSUME NEW p \in Proc, MarkApplied(p) PROVE ran' = ran /\ ledger \subseteq ledger'
  BY <1>3 DEF MarkApplied
<1>4. ASSUME NEW p \in Proc,
             \/ Start(p) \/ EnsureTable(p) \/ GetApplied(p) \/ ListMigrations(p)
             \/ SkipApplied(p) \/ RejectMigration(p) \/ ReadPending(p)
             \/ ExecuteRefused(p) \/ MarkRefused(p) \/ Finish(p)
             \/ Exit(p) \/ DatabaseError(p) \/ Crash(p)
      PROVE  ran' = ran /\ ledger' = ledger
  BY <1>4 DEF Start, EnsureTable, GetApplied, ListMigrations, SkipApplied,
       RejectMigration, ReadPending, ExecuteRefused, MarkRefused, Finish, Exit,
       DatabaseError, Crash, Fail, dbVars
<1>5. ASSUME NEW n \in Name, NEW f \in Files \cup {NoFile}, EditDisk(n, f)
      PROVE  ran' = ran /\ ledger' = ledger
  BY <1>5 DEF EditDisk, dbVars
<1>6. CASE UNCHANGED vars
  BY <1>6, <1>1 DEF vars
<1>7. QED
  BY <1>1, <1>2, <1>3, <1>4, <1>5, <1>6 DEF Next, RunStep

\* What MarkApplied inserts is the content the process executed to its end.
LEMMA MarkIsTruthful ==
  ASSUME TypeInv, Executing, NEW p \in Proc, MarkApplied(p), NEW r \in ledger', r \notin ledger
  PROVE  \A s \in StatementsOf(r.checksum) : ran[r.name][s] > 0
<1>1. PICK n \in todo[p] :
        AtHead(p, n) /\ ledger' = ledger \cup {[name |-> n, checksum |-> file[p]]}
  BY DEF MarkApplied
<1>2. r = [name |-> n, checksum |-> file[p]]
  BY <1>1
<1>3. file[p] \in Files /\ file[p] \in Seq(Stmt) /\ pos[p] = Len(file[p])
  BY FilesAssumption DEF MarkApplied, Executing, ExecutingAt
<1>4. \A i \in 1..Len(file[p]) : ran[n][file[p][i]] > 0
  BY <1>1, <1>3 DEF MarkApplied, Executing, ExecutingAt
<1>5. DOMAIN file[p] = 1..Len(file[p])
  BY <1>3
<1>6. QED
  BY <1>2, <1>4, <1>5 DEF StatementsOf

TruthInv == TypeInv /\ Executing /\ RecordedWasExecuted

LEMMA TruthStep == TruthInv /\ [Next]_vars => TruthInv'
<1> SUFFICES ASSUME TruthInv, [Next]_vars PROVE TruthInv'
  OBVIOUS
<1> USE DEF TruthInv
<1>1. TypeInv' /\ Executing'
  BY TypeStep, ExecutingStep
<1>2. RecordedWasExecuted'
  <2>1. CASE ResetDatabase
    BY <2>1, ResetSummary DEF RecordedWasExecuted
  <2>2. CASE ~ ResetDatabase
    <3> SUFFICES ASSUME NEW r \in ledger', NEW s \in StatementsOf(r.checksum)
                 PROVE  ran'[r.name][s] > 0
      BY DEF RecordedWasExecuted
    <3>1. r.name \in Name /\ s \in Stmt
      <4>1. r.name \in Name /\ r.checksum \in Seq(Stmt)
        BY <1>1, FilesAssumption DEF TypeInv, TypeOK, Row
      <4>2. QED
        BY <4>1 DEF StatementsOf
    <3>2. EffectsStay /\ (ledger' = ledger \/ \E p \in Proc : MarkApplied(p))
      BY <2>2, LedgerSteps
    <3>3. ran[r.name][s] > 0
      BY <3>2, MarkIsTruthful DEF RecordedWasExecuted
    <3>4. QED
      BY <3>1, <3>2, <3>3 DEF EffectsStay
  <2>3. QED
    BY <2>1, <2>2
<1>3. QED
  BY <1>1, <1>2

LEMMA TruthInit == Init => TruthInv
<1> SUFFICES ASSUME Init PROVE TruthInv
  OBVIOUS
<1>1. TypeInv
  BY TypeInit
<1>2. Executing
  BY DEF Init, Executing, ExecutingAt
<1>3. RecordedWasExecuted
  BY DEF Init, RecordedWasExecuted
<1>4. QED
  BY <1>1, <1>2, <1>3 DEF TruthInv

\* A row in _ferriorm_migrations is the truth: all statements of the content
\* whose checksum it holds took effect as part of that migration.
THEOREM RecordedMigrationsWereExecuted == Spec => []RecordedWasExecuted
<1>1. TruthInv => RecordedWasExecuted
  BY DEF TruthInv
<1>2. QED
  BY TruthInit, TruthStep, <1>1, PTL DEF Spec

-----------------------------------------------------------------------------
(* One reporter per migration. *)

LedgerInv == TypeInv /\ CapturedIsOld /\ NoDoubleReport

LEMMA LedgerInit == Init => LedgerInv
<1> SUFFICES ASSUME Init PROVE LedgerInv
  OBVIOUS
<1>1. TypeInv
  BY TypeInit
<1>2. CapturedIsOld /\ NoDoubleReport
  BY DEF Init, CapturedIsOld, NoDoubleReport, Names
<1>3. QED
  BY <1>1, <1>2 DEF LedgerInv

\* A process that takes no step, or one that leaves its copies alone or
\* clears them, keeps its part of CapturedIsOld.
LEMMA CapturedStable ==
  ASSUME CapturedIsOld, ledger \subseteq ledger', NEW p \in Proc,
         \/ captured'[p] = {} /\ appliedNew'[p] = {}
         \/ captured'[p] = captured[p] /\ appliedNew'[p] = appliedNew[p]
              /\ (pc'[p] = "idle" => pc[p] = "idle")
  PROVE  /\ captured'[p] \subseteq ledger'
         /\ appliedNew'[p] \subseteq Names(ledger')
         /\ pc'[p] = "idle" => captured'[p] = {} /\ appliedNew'[p] = {}
  BY DEF CapturedIsOld, Names

LEMMA LedgerStep == LedgerInv /\ [Next]_vars => LedgerInv'
<1> SUFFICES ASSUME LedgerInv, [Next]_vars PROVE LedgerInv'
  OBVIOUS
<1> USE DEF LedgerInv
<1>0. TypeInv'
  BY TypeStep
<1>1. ASSUME ledger' = ledger, appliedNew' = appliedNew,
             \A p \in Proc : \/ captured'[p] = {} /\ appliedNew'[p] = {}
                             \/ captured'[p] = captured[p]
                                  /\ (pc'[p] = "idle" => pc[p] = "idle")
      PROVE  LedgerInv'
  <2>1. CapturedIsOld'
    BY <1>1, CapturedStable DEF CapturedIsOld
  <2>2. QED
    BY <1>0, <1>1, <2>1 DEF NoDoubleReport
<1>2. ASSUME NEW p \in Proc,
             \/ Start(p) \/ EnsureTable(p) \/ ListMigrations(p) \/ SkipApplied(p)
             \/ RejectMigration(p) \/ ReadPending(p) \/ ExecuteBatch(p)
             \/ ExecuteRefused(p) \/ MarkRefused(p) \/ Finish(p) \/ DatabaseError(p)
      PROVE  LedgerInv'
  <2>1. /\ ledger' = ledger /\ appliedNew' = appliedNew /\ captured' = captured
        /\ \A q \in Proc : pc'[q] = "idle" => pc[q] = "idle"
    BY <1>2 DEF LedgerInv, TypeInv, TypeOK, Start, EnsureTable, ListMigrations,
         SkipApplied, RejectMigration, ReadPending, ExecuteBatch, ExecuteRefused,
         MarkRefused, Finish, DatabaseError, Fail, dbVars
  <2>2. QED
    BY <1>1, <2>1
<1>3. ASSUME NEW p \in Proc, GetApplied(p) PROVE LedgerInv'
  <2>1. /\ ledger' = ledger /\ appliedNew' = appliedNew
        /\ captured'[p] = ledger /\ pc'[p] = "list"
        /\ \A q \in Proc : q # p => captured'[q] = captured[q] /\ pc'[q] = pc[q]
    BY <1>3 DEF GetApplied, dbVars, TypeInv, TypeOK
  <2>2. CapturedIsOld'
    BY <2>1 DEF CapturedIsOld
  <2>3. QED
    BY <1>0, <2>1, <2>2 DEF NoDoubleReport
<1>4. ASSUME NEW p \in Proc, MarkApplied(p) PROVE LedgerInv'
  <2>1. PICK n \in todo[p] :
          /\ n \notin Names(ledger)
          /\ ledger' = ledger \cup {[name |-> n, checksum |-> file[p]]}
          /\ appliedNew' = [appliedNew EXCEPT ![p] = @ \cup {n}]
    BY <1>4 DEF MarkApplied
  <2>3. n \in Names(ledger') /\ Names(ledger) \subseteq Names(ledger')
    <3>1. [name |-> n, checksum |-> file[p]] \in ledger' /\ ledger \subseteq ledger'
      BY <2>1
    <3>2. [name |-> n, checksum |-> file[p]].name = n
      OBVIOUS
    <3>3. n \in Names(ledger')
      BY <3>1, <3>2, Zenon DEF Names
    <3>4. QED
      BY <3>1, <3>3 DEF Names
  <2>4. /\ appliedNew'[p] = appliedNew[p] \cup {n}
        /\ \A q \in Proc : q # p => appliedNew'[q] = appliedNew[q]
    BY <2>1 DEF TypeInv, TypeOK
  <2>5. CapturedIsOld'
    <3>1. captured' = captured /\ pc'[p] = "loop" /\ \A q \in Proc : q # p => pc'[q] = pc[q]
      BY <1>4 DEF MarkApplied, TypeInv, TypeOK
    <3>2. QED
      BY <2>1, <2>3, <2>4, <3>1 DEF CapturedIsOld
  <2>6. NoDoubleReport'
    <3>1. \A q \in Proc : n \notin appliedNew[q]
      BY <2>1 DEF CapturedIsOld
    <3>2. QED
      BY <2>4, <3>1 DEF NoDoubleReport
  <2>7. QED
    BY <1>0, <2>5, <2>6
<1>5. ASSUME NEW p \in Proc, Exit(p) \/ Crash(p) PROVE LedgerInv'
  <2>1. /\ ledger' = ledger
        /\ captured'[p] = {} /\ appliedNew'[p] = {}
        /\ \A q \in Proc : q # p => /\ captured'[q] = captured[q]
                                    /\ appliedNew'[q] = appliedNew[q]
                                    /\ pc'[q] = pc[q]
    BY <1>5 DEF Exit, Crash, ForgetLocals, dbVars, TypeInv, TypeOK
  <2>2. CapturedIsOld'
    BY <2>1 DEF CapturedIsOld
  <2>3. NoDoubleReport'
    BY <2>1 DEF NoDoubleReport
  <2>4. QED
    BY <1>0, <2>2, <2>3
<1>6. ASSUME NEW n \in Name, NEW f \in Files \cup {NoFile}, EditDisk(n, f) PROVE LedgerInv'
  BY <1>6, <1>1 DEF EditDisk, localVars, dbVars
<1>7. CASE ResetDatabase
  <2>1. CapturedIsOld' /\ NoDoubleReport'
    BY <1>7, ResetSummary DEF CapturedIsOld, NoDoubleReport
  <2>2. QED
    BY <1>0, <2>1
<1>8. CASE UNCHANGED vars
  BY <1>8, <1>1 DEF vars
<1>9. QED
  BY <1>2, <1>3, <1>4, <1>5, <1>6, <1>7, <1>8 DEF Next, RunStep

\* No two commands both report having applied the same migration.
THEOREM MigrationsAreReportedOnce == Spec => []NoDoubleReport
<1>1. LedgerInv => NoDoubleReport
  BY DEF LedgerInv
<1>2. QED
  BY LedgerInit, LedgerStep, <1>1, PTL DEF Spec

-----------------------------------------------------------------------------
(* What Ok and "executing" mean. *)

VerifyInv == LedgerInv /\ Verifying /\ CleanWithoutEdits /\ LedgerIsPrefix

LEMMA VerifyInit == Init => VerifyInv
<1> SUFFICES ASSUME Init PROVE VerifyInv
  OBVIOUS
<1>1. Verifying /\ CleanWithoutEdits /\ LedgerIsPrefix
  BY DEF Init, Verifying, VerifyingAt, CleanWithoutEdits, LedgerIsPrefix
<1>2. QED
  BY <1>1, LedgerInit DEF VerifyInv

\* A process that takes no step keeps its part of Verifying, and so does one
\* that starts, ends, or stays at its place in its list.
LEMMA VerifyingStable ==
  ASSUME ledger \subseteq ledger', disk' = disk, NEW p \in Proc, VerifyingAt(p),
         \/ pc'[p] \notin {"loop", "exec", "mark", "done"}
         \/ /\ dirty'[p] = dirty[p]
            /\ todo'[p] = todo[p]
            /\ file'[p] = file[p]
            /\ \/ pc'[p] = pc[p]
               \/ pc[p] = "exec" /\ pc'[p] \in {"exec", "mark"}
               \/ pc[p] = "loop" /\ pc'[p] = "done" /\ todo[p] = {}
  PROVE  VerifyingAt(p)'
  BY DEF VerifyingAt, OnDisk, RowOnDisk, AtHead

LEMMA VerifyingStep == VerifyInv /\ [Next]_vars => Verifying'
<1> SUFFICES ASSUME VerifyInv, [Next]_vars, NEW q \in Proc PROVE VerifyingAt(q)'
  BY DEF Verifying
<1>0. TypeInv /\ VerifyingAt(q)
  BY DEF VerifyInv, LedgerInv, Verifying
<1> USE DEF TypeInv, TypeOK
<1>1. ASSUME NEW p \in Proc,
             \/ Start(p) \/ EnsureTable(p) \/ GetApplied(p) \/ RejectMigration(p)
             \/ ExecuteBatch(p) \/ ExecuteRefused(p) \/ MarkRefused(p) \/ Finish(p)
             \/ Exit(p) \/ DatabaseError(p) \/ Crash(p)
      PROVE  VerifyingAt(q)'
  <2>1. ledger' = ledger /\ disk' = disk
    BY <1>1 DEF Start, EnsureTable, GetApplied, RejectMigration, ExecuteBatch,
         ExecuteRefused, MarkRefused, Finish, Exit, DatabaseError, Crash, Fail,
         envVars, dbVars
  <2>2. \/ pc'[q] \notin {"loop", "exec", "mark", "done"}
        \/ /\ dirty'[q] = dirty[q]
           /\ todo'[q] = todo[q]
           /\ file'[q] = file[q]
           /\ \/ pc'[q] = pc[q]
              \/ pc[q] = "exec" /\ pc'[q] \in {"exec", "mark"}
              \/ pc[q] = "loop" /\ pc'[q] = "done" /\ todo[q] = {}
    BY <1>0, <1>1 DEF Start, EnsureTable, GetApplied, RejectMigration, ExecuteBatch,
         ExecuteRefused, MarkRefused, Finish, Exit, DatabaseError, Crash, Fail,
         ForgetLocals, envVars, dbVars
  <2>3. QED
    BY <1>0, <2>1, <2>2, VerifyingStable
<1>2. ASSUME NEW p \in Proc, ListMigrations(p) PROVE VerifyingAt(q)'
  <2>1. CASE q = p
    BY <1>0, <1>2, <2>1 DEF ListMigrations, VerifyingAt, OnDisk, envVars, dbVars
  <2>2. CASE q # p
    BY <1>0, <1>2, <2>2, VerifyingStable DEF ListMigrations, envVars, dbVars
  <2>3. QED
    BY <2>1, <2>2
<1>3. ASSUME NEW p \in Proc, SkipApplied(p) PROVE VerifyingAt(q)'
  <2>1. CASE q = p
    <3>1. PICK n \in todo[p] :
            RowOnDisk(n) \in captured[p] /\ todo' = [todo EXCEPT ![p] = @ \ {n}]
      BY <1>3 DEF SkipApplied
    <3>2. RowOnDisk(n) \in ledger
      BY <3>1 DEF VerifyInv, LedgerInv, CapturedIsOld
    <3>3. /\ pc' = pc /\ pc[p] = "loop" /\ ledger' = ledger /\ disk' = disk /\ dirty' = dirty
          /\ todo'[p] = todo[p] \ {n}
      BY <1>0, <1>3, <3>1 DEF SkipApplied, envVars, dbVars
    <3>4. QED
      BY <1>0, <2>1, <3>2, <3>3 DEF VerifyingAt, OnDisk, RowOnDisk
  <2>2. CASE q # p
    BY <1>0, <1>3, <2>2, VerifyingStable DEF SkipApplied, envVars, dbVars
  <2>3. QED
    BY <2>1, <2>2
<1>4. ASSUME NEW p \in Proc, ReadPending(p) PROVE VerifyingAt(q)'
  <2>1. CASE q = p
    <3>1. PICK n \in todo[p] :
            AtHead(p, n) /\ disk[n] # NoFile /\ file' = [file EXCEPT ![p] = disk[n]]
      BY <1>4 DEF ReadPending
    <3>2. /\ pc'[p] \in {"exec", "mark"} /\ pc[p] = "loop" /\ ledger' = ledger
          /\ disk' = disk /\ dirty' = dirty /\ todo' = todo
      BY <1>0, <1>4 DEF ReadPending, envVars, dbVars
    <3>3. \A m \in todo[p] : AtHead(p, m) => m = n
      BY <1>0, <3>1, HeadUnique
    <3>4. n \in OnDisk /\ file'[p] = disk[n]
      BY <1>0, <3>1 DEF OnDisk
    <3>5. QED
      BY <1>0, <2>1, <3>2, <3>3, <3>4 DEF VerifyingAt, OnDisk, RowOnDisk, AtHead
  <2>2. CASE q # p
    BY <1>0, <1>4, <2>2, VerifyingStable DEF ReadPending, envVars, dbVars
  <2>3. QED
    BY <2>1, <2>2
<1>5. ASSUME NEW p \in Proc, MarkApplied(p) PROVE VerifyingAt(q)'
  <2>1. PICK n \in todo[p] :
          /\ AtHead(p, n)
          /\ ledger' = ledger \cup {[name |-> n, checksum |-> file[p]]}
          /\ todo' = [todo EXCEPT ![p] = @ \ {n}]
    BY <1>5 DEF MarkApplied
  <2>2. /\ pc[p] = "mark" /\ pc'[p] = "loop" /\ disk' = disk /\ dirty' = dirty
        /\ todo'[p] = todo[p] \ {n}
    BY <1>0, <1>5, <2>1 DEF MarkApplied, envVars
  <2>3. CASE q = p
    <3>1. ~ dirty[p] => RowOnDisk(n) \in ledger'
      BY <1>0, <2>1, <2>2, <2>3 DEF VerifyingAt, RowOnDisk
    <3>2. QED
      BY <1>0, <2>1, <2>2, <2>3, <3>1 DEF VerifyingAt, OnDisk, RowOnDisk
  <2>4. CASE q # p
    BY <1>0, <1>5, <2>1, <2>4, VerifyingStable DEF MarkApplied, envVars
  <2>5. QED
    BY <2>3, <2>4
<1>6. ASSUME NEW n \in Name, NEW f \in Files \cup {NoFile}, EditDisk(n, f)
      PROVE  VerifyingAt(q)'
  BY <1>6 DEF EditDisk, VerifyingAt
<1>7. CASE ResetDatabase
  BY <1>7, ResetSummary DEF VerifyingAt
<1>8. CASE UNCHANGED vars
  BY <1>0, <1>8, VerifyingStable DEF vars
<1>9. QED
  BY <1>1, <1>2, <1>3, <1>4, <1>5, <1>6, <1>7, <1>8 DEF Next, RunStep

\* Edits are counted, and only they disturb a run or change the directory.
LEMMA EditsAreCounted ==
  ASSUME TypeInv, [Next]_vars
  PROVE  /\ edits' = edits \/ edits' = edits + 1
         /\ edits' = edits => disk' = disk /\ \A p \in Proc : dirty'[p] => dirty[p]
<1> USE DEF TypeInv, TypeOK
<1>1. ASSUME NEW p \in Proc,
             \/ EnsureTable(p) \/ GetApplied(p) \/ ListMigrations(p) \/ SkipApplied(p)
             \/ RejectMigration(p) \/ ReadPending(p) \/ ExecuteBatch(p)
             \/ ExecuteRefused(p) \/ MarkApplied(p) \/ MarkRefused(p) \/ Finish(p)
             \/ Exit(p) \/ DatabaseError(p) \/ Crash(p)
      PROVE  edits' = edits /\ disk' = disk /\ dirty' = dirty
  BY <1>1 DEF EnsureTable, GetApplied, ListMigrations, SkipApplied, RejectMigration,
       ReadPending, ExecuteBatch, ExecuteRefused, MarkApplied, MarkRefused, Finish,
       Exit, DatabaseError, Crash, Fail, envVars
<1>2. ASSUME NEW p \in Proc, Start(p)
      PROVE  edits' = edits /\ disk' = disk /\ \A q \in Proc : dirty'[q] => dirty[q]
  BY <1>2 DEF Start
<1>3. ASSUME NEW n \in Name, NEW f \in Files \cup {NoFile}, EditDisk(n, f)
      PROVE  edits' = edits + 1
  BY <1>3 DEF EditDisk
<1>4. ResetDatabase => edits' = edits + 1
  BY ResetSummary
<1>5. UNCHANGED vars => edits' = edits /\ disk' = disk /\ dirty' = dirty
  BY DEF vars
<1>6. QED
  BY <1>1, <1>2, <1>3, <1>4, <1>5 DEF Next, RunStep

LEMMA VerifyStep == VerifyInv /\ [Next]_vars => VerifyInv'
<1> SUFFICES ASSUME VerifyInv, [Next]_vars PROVE VerifyInv'
  OBVIOUS
<1> USE DEF VerifyInv
<1>1. LedgerInv' /\ Verifying'
  BY LedgerStep, VerifyingStep
<1>2. TypeInv
  BY DEF LedgerInv
<1>3. edits \in Nat /\ (edits' = 0 => edits' = edits /\ edits = 0)
  BY <1>2, EditsAreCounted DEF TypeInv, TypeOK
<1>4. CleanWithoutEdits'
  BY <1>2, <1>3, EditsAreCounted DEF CleanWithoutEdits
<1>5. LedgerIsPrefix'
  <2> SUFFICES ASSUME edits' = 0, NEW r \in ledger', NEW m \in OnDisk', m < r.name
               PROVE  m \in Names(ledger')
    BY DEF LedgerIsPrefix
  <2>1. edits = 0 /\ disk' = disk /\ m \in OnDisk
    BY <1>2, <1>3, EditsAreCounted DEF OnDisk
  <2>2. ~ ResetDatabase
    BY <1>3, <2>1, ResetSummary
  <2>3. ledger \subseteq ledger' /\ (ledger' = ledger \/ \E p \in Proc : MarkApplied(p))
    BY <1>2, <2>2, LedgerSteps
  <2>4. Names(ledger) \subseteq Names(ledger')
    BY <2>3 DEF Names
  <2>5. CASE r \in ledger
    BY <2>1, <2>4, <2>5 DEF LedgerIsPrefix
  <2>6. CASE r \notin ledger
    <3>1. PICK p \in Proc : MarkApplied(p)
      BY <2>3, <2>6
    <3>2. PICK n \in todo[p] :
            AtHead(p, n) /\ ledger' = ledger \cup {[name |-> n, checksum |-> file[p]]}
      BY <3>1 DEF MarkApplied
    <3>3. r.name = n
      BY <2>6, <3>2
    <3>4. n \in Int /\ m \in Int
      BY <1>2, <2>1, <3>2, NameAssumption DEF TypeInv, TypeOK, OnDisk
    <3>5. m \notin todo[p]
      BY <3>2, <3>3, <3>4 DEF AtHead
    <3>6. pc[p] = "mark" /\ ~ dirty[p]
      BY <2>1, <3>1 DEF MarkApplied, CleanWithoutEdits
    <3>7. RowOnDisk(m) \in ledger
      BY <2>1, <3>5, <3>6 DEF Verifying, VerifyingAt
    <3>8. RowOnDisk(m).name = m
      BY DEF RowOnDisk
    <3>9. m \in Names(ledger)
      BY <3>7, <3>8, Zenon DEF Names
    <3>10. QED
      BY <2>4, <3>9
  <2>7. QED
    BY <2>5, <2>6
<1>6. QED
  BY <1>1, <1>4, <1>5

LEMMA VerifyAlways == Spec => []VerifyInv
  BY VerifyInit, VerifyStep, PTL DEF Spec

\* A command that returns Ok over an unedited directory leaves every
\* migration on disk recorded with the content it has on disk.
THEOREM OkMeansVerified == Spec => []CleanRunVerified
<1>1. VerifyInv => CleanRunVerified
  BY DEF VerifyInv, Verifying, VerifyingAt, CleanRunVerified
<1>2. QED
  BY VerifyAlways, <1>1, PTL

\* While a migration executes, all that sort before it are recorded with the
\* content on disk.
THEOREM ExecutionIsInOrder == Spec => []EarlierVerified
<1>1. VerifyInv => EarlierVerified
  <2> SUFFICES ASSUME VerifyInv, NEW p \in Proc, pc[p] \in {"exec", "mark"}, ~ dirty[p],
                      NEW n \in todo[p], AtHead(p, n), NEW m \in OnDisk, m < n
               PROVE  RowOnDisk(m) \in ledger
    BY DEF EarlierVerified
  <2>1. n \in Int /\ m \in Int
    BY NameAssumption DEF VerifyInv, LedgerInv, TypeInv, TypeOK, OnDisk
  <2>2. m \notin todo[p]
    BY <2>1 DEF AtHead
  <2>3. QED
    BY <2>2 DEF VerifyInv, Verifying, VerifyingAt
<1>2. QED
  BY VerifyAlways, <1>1, PTL

\* While the directory does not change, what is recorded is an initial
\* segment of it.
THEOREM RecordedIsInitialSegment == Spec => []LedgerIsPrefix
<1>1. VerifyInv => LedgerIsPrefix
  BY DEF VerifyInv
<1>2. QED
  BY VerifyAlways, <1>1, PTL

-----------------------------------------------------------------------------
(* MigrationRunner implements MigrationLedger. *)

LEMMA BatchIsStatements ==
  ASSUME TypeInv, Executing, NEW p \in Proc, pc[p] = "exec"
  PROVE  Batch(p) \subseteq Stmt
<1>1. file[p] \in Seq(Stmt) /\ pos[p] \in Nat /\ pos[p] < Len(file[p])
  BY FilesAssumption DEF TypeInv, TypeOK, Executing, ExecutingAt
<1>2. QED
  BY <1>1 DEF Batch, StatementsOf

\* Executing a batch is its statements taking effect.
LEMMA BatchRefines ==
  ASSUME TypeInv, Executing, NEW p \in Proc, ExecuteBatch(p)
  PROVE  Ledger!Next
<1>1. PICK n \in todo[p] :
        ran' = [ran EXCEPT ![n] =
                 [s \in Stmt |-> IF s \in Batch(p) THEN OnceMore(@[s]) ELSE @[s]]]
  BY DEF ExecuteBatch
<1>2. n \in Name /\ Batch(p) \in SUBSET Stmt /\ ledger' = ledger
  BY BatchIsStatements DEF ExecuteBatch, TypeInv, TypeOK
<1>3. [s \in Stmt |-> IF s \in Batch(p) THEN OnceMore(ran[n][s]) ELSE ran[n][s]]
      = [s \in Stmt |-> IF s \in Batch(p) /\ ran[n][s] < MaxRan
                        THEN ran[n][s] + 1 ELSE ran[n][s]]
  BY DEF OnceMore
<1>4. Ledger!TakeEffect(n, Batch(p))
  BY <1>1, <1>2, <1>3 DEF Ledger!TakeEffect, TypeInv, TypeOK
<1>5. QED
  BY <1>2, <1>4 DEF Ledger!Next

\* Recording a migration is Record: its content has taken effect.
LEMMA MarkRefines ==
  ASSUME TypeInv, Executing, NEW p \in Proc, MarkApplied(p)
  PROVE  Ledger!Next
<1>1. PICK n \in todo[p] :
        /\ AtHead(p, n)
        /\ n \notin Names(ledger)
        /\ ledger' = ledger \cup {[name |-> n, checksum |-> file[p]]}
  BY DEF MarkApplied
<1>2. n \in Name /\ file[p] \in Files /\ file[p] \in Seq(Stmt) /\ ran' = ran
  BY FilesAssumption DEF MarkApplied, Executing, ExecutingAt, TypeInv, TypeOK
<1>3. \A r \in ledger : r.name # n
  BY <1>1 DEF Names
<1>4. \A i \in DOMAIN file[p] : ran[n][file[p][i]] > 0
  BY <1>1, <1>2 DEF MarkApplied, Executing, ExecutingAt
<1>5. Ledger!Record(n, file[p])
  BY <1>1, <1>2, <1>3, <1>4 DEF Ledger!Record
<1>6. QED
  BY <1>2, <1>5 DEF Ledger!Next

LEMMA ResetRefines == ResetDatabase => Ledger!Next
<1>1. ResetDatabase => Ledger!Forget
  BY Zenon DEF ResetDatabase, Ledger!Forget, Ledger!NothingRan
<1>2. QED
  BY <1>1 DEF Ledger!Next

\* Every other step changes neither effects nor rows.
LEMMA OtherStepsStutter ==
  ASSUME [Next]_vars, ~ ResetDatabase,
         \A p \in Proc : ~ ExecuteBatch(p) /\ ~ MarkApplied(p)
  PROVE  UNCHANGED Ledger!ledgerVars
<1>1. ASSUME NEW p \in Proc,
             \/ Start(p) \/ EnsureTable(p) \/ GetApplied(p) \/ ListMigrations(p)
             \/ SkipApplied(p) \/ RejectMigration(p) \/ ReadPending(p)
             \/ ExecuteRefused(p) \/ MarkRefused(p) \/ Finish(p)
             \/ Exit(p) \/ DatabaseError(p) \/ Crash(p)
      PROVE  ran' = ran /\ ledger' = ledger
  BY <1>1 DEF Start, EnsureTable, GetApplied, ListMigrations, SkipApplied,
       RejectMigration, ReadPending, ExecuteRefused, MarkRefused, Finish, Exit,
       DatabaseError, Crash, Fail, dbVars
<1>2. ASSUME NEW n \in Name, NEW f \in Files \cup {NoFile}, EditDisk(n, f)
      PROVE  ran' = ran /\ ledger' = ledger
  BY <1>2 DEF EditDisk, dbVars
<1>3. UNCHANGED vars => ran' = ran /\ ledger' = ledger
  BY DEF vars
<1>4. QED
  BY <1>1, <1>2, <1>3 DEF Next, RunStep, Ledger!ledgerVars

LEMMA TruthAlways == Spec => []TruthInv
  BY TruthInit, TruthStep, PTL DEF Spec

\* To a reader of the database the commands keep the promise of
\* MigrationLedger: a migration is recorded once, and only after the
\* recorded content has taken effect.
THEOREM RunnerImplementsLedger == Spec => ImplementsLedger
<1>1. Init => Ledger!Init
  BY Zenon DEF Init, Ledger!Init, Ledger!NothingRan
<1>2. TruthInv /\ [Next]_vars => [Ledger!Next]_(Ledger!ledgerVars)
  BY BatchRefines, MarkRefines, ResetRefines, OtherStepsStutter DEF TruthInv
<1>3. QED
  BY <1>1, <1>2, TruthAlways, PTL DEF Spec, ImplementsLedger, Ledger!Spec
=============================================================================
