SPECIFICATION Spec
CONSTANTS
    Null = Null
    Postgres = FALSE
    Clients = {c1, c2}
    Models <- MCModels
    Meta <- MCMeta
    Queries <- MCQueries
    Seeds <- MCSeeds
    FirstId = 10
    MaxCalls = 3
    MaxClock = 1
SYMMETRY Symmetric
INVARIANTS
    TypeOK
    OneWinner
PROPERTIES
    UpsertMeetsItsRow
    ChangesAreStamped
    BatchInOrder
    IncludedBelongs
    GroupsAreFound
CHECK_DEADLOCK FALSE
