CONSTANTS
    b1 = b1
    b2 = b2
    l1 = l1
    l2 = l2
    owner = owner
    treasury = treasury
    agent = agent
    issuer = issuer
    refinance = refinance
    liquidation = liquidation
    NoOne = NoOne
    BPS = 10
    YEAR = 1
    MaxUint256 = 1000000
    RefinanceFacet = refinance
    LiquidationFacet = liquidation
    InitialConfig <- MCConfig
    MaxUpfrontFee = 2
    MaxSettlementFee = 5
    Wallets <- MCWallets
    Borrowers = {b1, b2}
    Principals = {10}
    CollateralAmounts = {20}
    CollateralSteps = {2}
    MaxCollateral = 20
    OracleRates <- MCRates
    Refusals <- MCRefusals
    MaxTime = 3
    MaxVaults = 2
    MaxMaturity = 3
    Returns <- MCReturns
    AdminValues <- NoAdminValues
    RedemptionWallets = {issuer}
    OfferIds = {"o1", "o2"}
    Txs <- MCTxs
    Offer <- MCOffer
    Attestations <- MCAttestations
SPECIFICATION Spec
INVARIANT TypeOK
INVARIANT VaultsNotShared
INVARIANT CollateralInItsVault
INVARIANT NothingLeftBehind
INVARIANT ResultsStayTrue
INVARIANT FundsAccounted
INVARIANT LoansCanBeClosed
CHECK_DEADLOCK FALSE
