SPECIFICATION FairSpec
CONSTANTS
    Tasks = {t1, t2}
    Conns = {c1, c2}
    NoConn = NoConn
    MaxStatements = 2
    Postgres = FALSE
    Swallows = TRUE
INVARIANTS
    TypeOK
    AllOrNothing
    CleanConnections
PROPERTIES
    EveryCallReturns
    DisconnectReturns
    ImplementsPromise
