SPECIFICATION RetrySpec
CONSTANTS
  Proc = {p1, p2}
  Name = {1, 2, 3}
  Stmt = {"row", "fill"}
  Ddl = {}
  Broken = {}
  Files <- DataFiles
  NoFile = NoFile
  Provider = "sqlite"
  MaxFaults = 2
  MaxEdits = 0
  MaxRan = 1
PROPERTIES
  EveryRunEnds
  EventuallyUpToDate
