SPECIFICATION Spec
CONSTANTS
    a = a
    b = b
    c1 = c1
    c2 = c2
    usdc = usdc
    eth = eth
    spam = spam
    C1 = C1
    C2 = C2
    E1 = E1
    F = F
    r1 = r1
    r2 = r2
    Requests = {r1, r2}
    Nobody = Nobody
    Unnamed = Unnamed
    Users <- MCUsers
    Network <- MCNetwork
    Gas = eth
    GasReserve = 1
    Contract <- MCContract
    Supported <- MCSupported
    Bucketed <- MCBucketed
    Dipping <- MCDipping
    Free <- MCFree
    Prices <- MCPrices
    Rounding = 1
    RouteLimit = 2
CHECK_DEADLOCK FALSE
INVARIANTS
    TypeOK
    NotOverdrawn
    AnswerAsChosen
    FailureExplained
PROPERTIES
    Served
