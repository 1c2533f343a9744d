SPECIFICATION Spec
CONSTANTS
    Null = Null
    Sources <- MCSources
    Snake <- MCSnake
    Plural <- MCPlural
INVARIANTS
    OneBackReference
CHECK_DEADLOCK FALSE
