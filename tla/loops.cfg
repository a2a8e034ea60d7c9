SPECIFICATION Spec
CONSTANTS
    Workers = {"one", "two"}
    Crews <- MCCrews
    Cap = 1
    Tries = 2
INVARIANT TypeOK
PROPERTIES StartupEnds SendsReturn FirstAnswerIsLast
CHECK_DEADLOCK FALSE
