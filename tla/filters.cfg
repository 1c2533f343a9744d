SPECIFICATION Spec
CONSTANTS
    Null = Null
    Postgres = FALSE
    Characters <- MCCharacters
    Kinds <- MCKinds
    Wheres <- MCWheres
    Rows <- MCRows
INVARIANTS
    FindsWhatItSays
CHECK_DEADLOCK FALSE
