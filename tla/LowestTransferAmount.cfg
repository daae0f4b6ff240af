SPECIFICATION SearchFairSpec
CONSTANTS
    Lower = 0
    Upper = 64
    Minimums = {0, 1, 2, 3, 5, 13, 31, 32, 33, 48, 62, 63, 64, 65, 90}
    Errors = TRUE
CHECK_DEADLOCK FALSE
INVARIANTS
    Bracketed
    ResultIsTight
PROPERTIES
    Ends
