SPECIFICATION Spec
CONSTANTS
    usdc1 = usdc1
    usdc2 = usdc2
    eth1 = eth1
    usdt = usdt
    Assets <- MCAssets
    Direct <- MCDirect
    Gas <- MCGas
    Holdings <- MCHoldings
    Nothing = Nothing
    Targets <- MCTargets
    Fees <- MCFees
    NoFee = NoFee
    Unasked = Unasked
    GasReserve = 2
    X = 2
    Y = 1
    Roots = {1, 2}
CHECK_DEADLOCK FALSE
INVARIANTS
    TypeOK
    Balanced
    ShortOnlyIfSpent
    DirectFirst
    OnlyLastIsPartial
    FeesFitRoutes
