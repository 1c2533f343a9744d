SPECIFICATION Spec
CONSTANTS
    Null = Null
    Sources <- MCSources
    Snake <- MCSnake
    Plural <- MCPlural
INVARIANTS
    AcceptsOnlyValid
    RelationsPairApart
CHECK_DEADLOCK FALSE
