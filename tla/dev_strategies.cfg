SPECIFICATION Spec
CONSTANTS
  Proc = {p1}
  Table = {t, u}
  Label = {0, 1}
  MaxSeq = 5
  Strategies = {"shadow", "snapshot"}
  Absent = Absent
  Refused = Refused
  MaxCrashes = 0
  MaxEdits = 2
  MaxRewrites = 1
  MaxDeletes = 1
  MaxResets = 0
SYMMETRY Symmetry
INVARIANTS
  TypeOK
  HistoryReplays
  MigrationReachesTarget
  SnapshotIsReplay
  GeneratesAfterApply
