--------------------------- MODULE MigrationLedger ---------------------------
(***************************************************************************)
(* What the table _ferriorm_migrations promises to whoever reads it,       *)
(* without processes, files or failures: statements of migrations take     *)
(* effect, a migration is recorded once and only after all the statements  *)
(* of the recorded content have, and only dropping the database forgets.   *)
(***************************************************************************)
EXTENDS Integers

CONSTANTS
  Name,    \* migration names
  Stmt,    \* SQL statements
  Files,   \* the contents a migration may have
  MaxRan   \* how often a statement took effect is counted up to this number

VARIABLES
  ran,     \* how often each statement of each migration took effect
  ledger   \* the rows: which content was recorded under which name

ledgerVars == <<ran, ledger>>

NothingRan == [n \in Name |-> [s \in Stmt |-> 0]]

Init ==
  /\ ran = NothingRan
  /\ ledger = {}

\* Some statements of a migration take effect (once more).
TakeEffect(n, S) ==
  /\ ran' = [ran EXCEPT ![n] =
               [s \in Stmt |-> IF s \in S /\ @[s] < MaxRan THEN @[s] + 1 ELSE @[s]]]
  /\ UNCHANGED ledger

\* The content sql is recorded as migration n.
Record(n, sql) ==
  /\ \A r \in ledger : r.name # n
  /\ \A i \in DOMAIN sql : ran[n][sql[i]] > 0
  /\ ledger' = ledger \cup {[name |-> n, checksum |-> sql]}
  /\ UNCHANGED ran

\* The database is dropped and recreated.
Forget ==
  /\ ran' = NothingRan
  /\ ledger' = {}

Next ==
  \/ \E n \in Name, S \in SUBSET Stmt : TakeEffect(n, S)
  \/ \E n \in Name, sql \in Files : Record(n, sql)
  \/ Forget

Spec == Init /\ [][Next]_ledgerVars
=============================================================================
