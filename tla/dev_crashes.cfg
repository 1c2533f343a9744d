SPECIFICATION FairSpec
CONSTANTS
  Proc = {p1}
  Table = {t, u}
  Label = {0}
  MaxSeq = 4
  Strategies = {"shadow"}
  Absent = Absent
  Refused = Refused
  MaxCrashes = 1
  MaxEdits = 1
  MaxRewrites = 1
  MaxDeletes = 0
  MaxResets = 1
INVARIANTS
  MigrationReachesTarget
  DatabaseIsReplay
PROPERTIES
  SyncsDatabase
