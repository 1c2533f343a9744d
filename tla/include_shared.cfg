SPECIFICATION Spec
CONSTANTS
    Null = Null
    Postgres = FALSE
    Clients = {c1}
    Models <- MCModels
    Meta <- MCMeta
    Queries <- MCQueries
    Seeds <- MCSeeds
    FirstId = 10
    MaxCalls = 1
    MaxClock = 0
PROPERTY IncludedIsSome
CHECK_DEADLOCK FALSE
