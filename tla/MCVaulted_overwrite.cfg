CONSTANTS
    b1 = b1
    b2 = b2
    l1 = l1
    l2 = l2
    keeper = keeper
    owner = owner
    treasury = treasury
    agent = agent
    proxy = proxy
    v1 = v1
    v2 = v2
    other = other
    refinance = refinance
    liquidation = liquidation
    NoOne = NoOne
    BPS = 10
    YEAR = 1
    MaxUint256 = 1000000
    RefinanceFacet = refinance
    LiquidationFacet = liquidation
    InitialConfig <- MCConfig
    MaxUpfrontFee = 2
    MaxSettlementFee = 5
    Wallets = {b1, b2, l1, keeper, owner, treasury, agent, v1, v2, refinance, liquidation}
    Borrowers = {b1, b2}
    VaultAddress <- MCVaultAddress2
    Principals = {10}
    CollateralAmounts = {20, 22}
    CollateralSteps = {}
    MaxCollateral = 22
    OracleRates <- OneRate
    Refusals = {}
    MaxTime = 4
    AdminValues <- NoAdminValues
    OfferIds = {"o1"}
    Txs <- SharedTxs
    Offer <- SharedOffer
    Attestations <- TransferAttestations
SPECIFICATION Spec
PROPERTY NoLoanOverwritten
CHECK_DEADLOCK FALSE
