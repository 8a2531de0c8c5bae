CONSTANTS
    b1 = b1
    b2 = b2
    l1 = l1
    l2 = l2
    keeper = keeper
    owner = owner
    treasury = treasury
    agent = agent
    proxy = proxy
    v1 = v1
    v2 = v2
    other = other
    refinance = refinance
    liquidation = liquidation
    NoOne = NoOne
    BPS = 10
    YEAR = 1
    MaxUint256 = 1000000
    RefinanceFacet = refinance
    LiquidationFacet = liquidation
    InitialConfig <- MCConfig
    MaxUpfrontFee = 2
    MaxSettlementFee = 5
    Wallets = {b1, l1, keeper, owner, treasury, agent, v1, refinance, liquidation}
    Borrowers = {b1}
    VaultAddress <- MCVaultAddress1
    Principals = {10}
    CollateralAmounts = {20}
    CollateralSteps = {2}
    MaxCollateral = 22
    OracleRates <- LifeRates
    Refusals <- LifeRefusals
    MaxTime = 4
    AdminValues <- NoAdminValues
    OfferIds = {"o1"}
    Txs <- LifeTxs
    Offer <- LifeOffer
    Attestations <- LifeAttestations
SPECIFICATION Spec
INVARIANT TypeOK
INVARIANT AccrualWithinTerm
INVARIANT CollateralBacked
INVARIANT FundsAccounted
INVARIANT LoansCanBeClosed
PROPERTY OperationsKeepLoansSafe
CHECK_DEADLOCK FALSE
