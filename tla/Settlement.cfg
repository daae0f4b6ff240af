SPECIFICATION Spec
CONSTANTS
    k = k
    K = K
    m = m
    x = x
    y = y
    Requests = {q1, q2}
    Keys <- MCKeys
    NoKey = NoKey
    Slots = {x, y}
    Slot <- MCSlot
    Plans <- MCPlans
    Allowances = {0, 2, 3}
    Modulus = 5
    Fails = TRUE
CHECK_DEADLOCK FALSE
INVARIANTS
    TypeOK
    RevertExplained
PROPERTIES
    NeverLowered
