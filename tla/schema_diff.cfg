CONSTANTS
  Schemas <- AllSchemas
  Providers = {"PostgreSQL", "SQLite"}
  Snake <- MCSnake
  Pascal <- MCPascal
  Skipped = {"_audit"}
  MaxMigrations = 5
SPECIFICATION Spec
INVARIANTS TypeOK RefusalsHaveACause  Settles
PROPERTY KeepsColumns
\* After the last migration, nothing is left to do.
CHECK_DEADLOCK FALSE
