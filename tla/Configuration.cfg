SPECIFICATION Spec
CONSTANTS
    Files <- MCFiles
    Environments <- MCEnvironments
    ChainIds = {10, 20}
    ParsedKey <- MCParsedKey
    NoChain = 0
    Form <- MCForm
    Lower <- MCLower
    Amounts <- MCAmounts
    Grain = 2
CHECK_DEADLOCK FALSE
INVARIANTS
    AcceptedIffValid
    QuotableBuckets
    QuoteReadsItsEstimator
    RoutesConvert
    ApprovalsHaveContract
