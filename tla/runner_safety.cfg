SPECIFICATION Spec
CONSTANTS
  Proc = {p1, p2}
  Name = {1, 2}
  Stmt = {"a", "b", "row", "bad"}
  Ddl = {"a", "b"}
  Broken = {"bad"}
  Files <- EditedFiles
  NoFile = NoFile
  Provider = "sqlite"
  MaxFaults = 1
  MaxEdits = 2
  MaxRan = 2
SYMMETRY Symmetry
INVARIANTS
  TypeOK
  RecordedWasExecuted
  CleanRunVerified
  LedgerIsPrefix
PROPERTIES
  ImplementsLedger
