---------------------- MODULE P2PLendingSecuritizeErc20 ----------------------
(***************************************************************************)
(* The Securitize lending contract: its entry points, the ones it          *)
(* delegates to its facets, the issuer and the signer of redeem results,   *)
(* and what it promises.                                                   *)
(***************************************************************************)
EXTENDS P2PLendingSecuritizeRefinance, P2PLendingSecuritizeLiquidation, LendingAdministration

CONSTANTS
    InitialConfig,       \* what __init__ is given, and msg.sender as owner
    RedemptionWallets    \* what the owner may set the redemption wallet to

ConfigRecord ==
    [owner: Wallets, proposed_owner: Wallets \cup {NoOne},
     transfer_agent: Wallets \cup {NoOne},
     protocol_wallet: Wallets, protocol_upfront_fee: 0..MaxUpfrontFee,
     protocol_settlement_fee: 0..MaxSettlementFee,
     partial_liquidation_fee: 0..BPS, full_liquidation_fee: 0..BPS,
     authorized_proxies: SUBSET Wallets, vault_registrar: Wallets \cup {NoOne},
     securitize_redemption_wallet: Wallets \cup {NoOne},
     refinance_addr: Wallets, liquidation_addr: Wallets]

ASSUME ConfigAssumption ==
    InitialConfig \in ConfigRecord /\ RedemptionWallets \subseteq Wallets \cup {NoOne}

Init ==
    /\ config = InitialConfig
    /\ loans = {}
    /\ commited_liquidity = [k \in LiquidityKeys |-> 0]
    /\ revoked_offers = {}
    /\ funds = [cash |-> 0, pending |-> [w \in Wallets |-> 0]]
    /\ vaults = [key \in VaultKeys |-> EmptyVault(FALSE)]
    /\ rate \in OracleRates
    /\ now = 1
    /\ drifted = {}
    /\ vault_count = [b \in Borrowers |-> 0]
    /\ proceeds = [key \in VaultKeys |-> 0]
    /\ results = {}

-----------------------------------------------------------------------------
(* Loans.                                                                  *)

CreateLoan(tx, id, principal, collateral) ==
    LET borrower == Actor(tx)
        vault_id == vault_count[borrower]
        key == <<borrower, vault_id>>
        loan == NewRedeemableLoan(id, borrower, principal, collateral, vault_id)
        created == VaultCreated(vaults, key)
    IN  /\ borrower \in Borrowers
        /\ KycValid(borrower)
        /\ RedeemableOfferAccepted(Offer[id], borrower, principal, collateral)
        /\ vault_id \in VaultIds
        /\ ~Exists(loan)
        /\ OfferUsable(commited_liquidity, id, principal)
        /\ DepositAllowed(created[key], collateral, borrower)
        /\ loans' = Stored(loans, loan)
        /\ commited_liquidity' = Committed(commited_liquidity, id, principal)
        /\ revoked_offers' = RevokedAfterUse(id)
        /\ vault_count' = Counted(borrower)
        /\ vaults' = CollateralPaidIn(created, key, collateral)
        /\ UNCHANGED <<config, funds, environment, drifted, redemptions>>

\* What the borrower adds to what its redemption paid, or gets back of it.
SettlementFunds(loan, payment, refused) ==
    LET debt == OutstandingDebt(loan)
        fee == Vaulted!ProtocolSettlementFee(loan)
        borrower == Settled(Received(funds, payment), loan.borrower, payment - debt, refused)
        lender == Sent(borrower, loan.lender, debt - fee, refused)
    IN  Sent(lender, config.protocol_wallet, fee, refused)

SettlementPossible(loan, result) ==
    /\ ~Matured(loan)
    /\ BalancesConfirmed(loan, result)
    /\ WithdrawAllowed(vaults[VaultOf(loan)], InVaultCollateral(loan, result))

SettleLoan(tx, loan, result, refused) ==
    LET key == VaultOf(loan)
        payment == InVaultPayment(loan, result)
        collateral == InVaultCollateral(loan, result)
    IN  /\ CheckUser(tx, loan.borrower)
        /\ SettlementPossible(loan, result)
        /\ loans' = loans \ {loan}
        /\ commited_liquidity' = Reduced(commited_liquidity, loan, loan.amount)
        /\ proceeds' = FundsWithdrawn(key, payment)
        /\ funds' = SettlementFunds(loan, payment, refused)
        /\ vaults' = CollateralSent(vaults, key, loan.borrower, collateral, refused)
        /\ UNCHANGED <<config, revoked_offers, environment, drifted, vault_count, results>>

\* Fault: collateral can be added while the loan's is redeemed.
FaultyAddCollateral(tx, loan, amount) ==
    /\ CheckUser(tx, loan.borrower)
    /\ ~Matured(loan)
    /\ OracleAnswers
    /\ loan.collateral_amount + amount <= MaxCollateral
    /\ DepositAllowed(vaults[VaultOf(loan)], amount, loan.borrower)
    /\ vaults' = CollateralPaidIn(vaults, VaultOf(loan), amount)
    /\ loans' = Stored(loans, [loan EXCEPT !.collateral_amount = @ + amount])
    /\ UNCHANGED <<config, commited_liquidity, revoked_offers, funds, environment, drifted,
                   vault_count, redemptions>>

AddCollateral(tx, loan, amount) ==
    /\ CheckUser(tx, loan.borrower)
    /\ ~Matured(loan)
    /\ ~Redeemed(loan)
    /\ OracleAnswers
    /\ loan.collateral_amount + amount <= MaxCollateral
    /\ DepositAllowed(vaults[VaultOf(loan)], amount, loan.borrower)
    /\ vaults' = CollateralPaidIn(vaults, VaultOf(loan), amount)
    /\ loans' = Stored(loans, [loan EXCEPT !.collateral_amount = @ + amount])
    /\ UNCHANGED <<config, commited_liquidity, revoked_offers, funds, environment, drifted,
                   vault_count, redemptions>>

RemoveCollateral(tx, loan, amount, refused) ==
    LET left == loan.collateral_amount - amount
        key == VaultOf(loan)
    IN  /\ CheckUser(tx, loan.borrower)
        /\ ~Matured(loan)
        /\ ~Redeemed(loan)
        /\ loan.min_collateral_amount <= left
        /\ OracleAnswers
        /\ left > 0
        /\ loan.initial_ltv >= Ltv(left, OutstandingDebt(loan), rate)
        /\ WithdrawAllowed(vaults[key], amount)
        /\ loans' = Stored(loans, [loan EXCEPT !.collateral_amount = left])
        /\ vaults' = CollateralSent(vaults, key, loan.borrower, amount, refused)
        /\ UNCHANGED <<config, commited_liquidity, revoked_offers, funds, environment, drifted,
                       vault_count, redemptions>>

Redeem(tx, loan, residual, refused) ==
    LET sent == loan.collateral_amount - residual
        updated_loan == [loan EXCEPT !.redeem_start = now,
                                     !.redeem_residual_collateral = residual]
    IN  /\ CheckUser(tx, loan.borrower)
        /\ ~Matured(loan)
        /\ ~Redeemed(loan)
        /\ config.securitize_redemption_wallet # NoOne
        /\ sent >= 0
        /\ vaults[VaultOf(loan)].deployed
        /\ WithdrawAllowed(vaults[VaultOf(loan)], sent)
        /\ loans' = Stored(loans, updated_loan)
        /\ vaults' = CollateralSent(vaults, VaultOf(loan),
                                    config.securitize_redemption_wallet, sent, refused)
        /\ UNCHANGED <<config, commited_liquidity, revoked_offers, funds, environment, drifted,
                       vault_count, redemptions>>

-----------------------------------------------------------------------------
(* The issuer, who sends back what it redeemed or could not redeem, once   *)
(* and once it has the collateral; and the owner, who signs what a vault   *)
(* got, truthfully and as unsigned numbers, as often as the contract's     *)
(* owner changes.                                                          *)

IssuerReturns(loan) ==
    LET key == VaultOf(loan)
    IN  \E r \in Returns :
            /\ Redeemed(loan)
            /\ ~loan.returned
            /\ vaults[key].pending[config.securitize_redemption_wallet] = 0
            /\ r.collateral <= SentToIssuer(loan)
            /\ SentToIssuer(loan) = 0 => r.payment = 0
            /\ loans' = Stored(loans, [loan EXCEPT !.returned = TRUE])
            /\ vaults' = [vaults EXCEPT ![key].balance = @ + r.collateral]
            /\ proceeds' = [proceeds EXCEPT ![key] = @ + r.payment]
            /\ UNCHANGED <<config, commited_liquidity, revoked_offers, funds, environment,
                           drifted, vault_count, results>>

SignRedeemResult(loan) ==
    LET key == VaultOf(loan)
        result == [vault |-> key, payment_redeemed |-> proceeds[key],
                   collateral_redeemed |->
                       Unclaimed(vaults[key]) - loan.redeem_residual_collateral,
                   timestamp |-> now, signer |-> config.owner]
    IN  /\ loan.returned
        /\ Concluding(loan) = {}
        /\ result.collateral_redeemed >= 0
        /\ results' = results \cup {result}
        /\ UNCHANGED <<vars, vault_count, proceeds>>

-----------------------------------------------------------------------------
(* Vaults.                                                                 *)

SetSecuritizeRedemptionWallet(sender) ==
    OwnerSets(sender, "securitize_redemption_wallet", RedemptionWallets)

CreateVaultIfNeeded(borrower) ==
    LET key == <<borrower, vault_count[borrower]>>
    IN  /\ key \in VaultKeys
        /\ vaults' = VaultCreated(vaults, key)
        /\ UNCHANGED <<config, book, funds, environment, drifted, vault_count, redemptions>>

\* Bound on purchases: one waits at a time, in the vault of the next loan.
PurchaseBound(key) ==
    /\ key[2] = vault_count[key[1]]
    /\ \A k \in VaultKeys : vaults[k].pending[k[1]] = 0

\* buy, called on a vault by its owner: the swap is assumed to deliver what it
\* quotes.
Buy(tx, key) ==
    \E amount \in CollateralSteps :
        /\ CheckUser(tx, key[1])
        /\ vaults[key].deployed
        /\ PurchaseBound(key)
        /\ vaults' = [vaults EXCEPT ![key].balance = @ + amount,
                                    ![key].pending[key[1]] = @ + amount,
                                    ![key].total = @ + amount]
        /\ UNCHANGED <<config, book, funds, environment, drifted, vault_count, redemptions>>

\* A vault is a contract that never calls withdraw_pending.
Accounts == Wallets \ VaultKeys

WithdrawPendingCollateral(key, wallet) ==
    LET amount == vaults[key].pending[wallet]
    IN  /\ amount > 0
        /\ WithdrawPendingAllowed(vaults[key], amount, wallet)
        /\ vaults' = [vaults EXCEPT ![key] = PendingWithdrawn(@, amount, wallet)]
        /\ UNCHANGED <<config, book, funds, environment, drifted, vault_count, redemptions>>

-----------------------------------------------------------------------------
LoanStep(tx, loan) ==
    \/ \E amount \in CollateralSteps : AddCollateral(tx, loan, amount)
    \/ \E new_maturity \in (loan.maturity + 1)..MaxMaturity :
          \/ ExtendLoan(tx, loan, MaxMaturity, new_maturity)
          \/ ExtendLoanLender(tx, loan, new_maturity)
    \/ \E refused \in SUBSET Refusals :
          \/ \E result \in ResultsFor(loan) :
                \/ SettleLoan(tx, loan, result, refused)
                \/ LiquidateLoan(tx, loan, result, refused)
          \/ PartiallyLiquidateLoan(tx, loan, refused)
          \/ \E amount \in CollateralSteps : RemoveCollateral(tx, loan, amount, refused)
          \/ \E residual \in CollateralSteps \cup {0, loan.collateral_amount} :
                Redeem(tx, loan, residual, refused)
          \/ \E b \in Borrowers : TransferLoan(tx, loan, b, refused)
          \/ \E id \in OfferIds, principal \in Principals \cup {0} :
                \/ ReplaceLoanLender(tx, loan, id, principal, refused)
                \/ \E collateral \in CollateralAmounts :
                      ReplaceLoan(tx, loan, id, principal, collateral, refused)

CommonStep ==
    \/ Tick
    \/ OracleUpdate
    \/ \E tx \in Txs, id \in OfferIds : RevokeOffer(tx, id)
    \/ \E tx \in Txs :
          \/ Administration(tx.sender)
          \/ SetSecuritizeRedemptionWallet(tx.sender)
    \/ \E wallet \in Accounts : ClaimPendingTransfers(wallet)

Next ==
    \/ CommonStep /\ UNCHANGED <<vault_count, redemptions>>
    \/ \E tx \in Txs, id \in OfferIds, principal \in Principals,
          collateral \in CollateralAmounts : CreateLoan(tx, id, principal, collateral)
    \/ \E tx \in Txs, loan \in loans : LoanStep(tx, loan)
    \/ \E loan \in loans : IssuerReturns(loan) \/ SignRedeemResult(loan)
    \/ \E b \in Borrowers \cap {Actor(tx) : tx \in Txs} : CreateVaultIfNeeded(b)
    \/ \E key \in VaultKeys :
          \/ \E tx \in Txs : Buy(tx, key)
          \/ \E wallet \in Accounts : WithdrawPendingCollateral(key, wallet)

Spec == Init /\ [][Next]_secVars

-----------------------------------------------------------------------------
(* What the protocol promises.                                             *)

TypeOK ==
    /\ config \in ConfigRecord
    /\ loans \subseteq SecuritizeLoan
    /\ commited_liquidity \in [LiquidityKeys -> Nat]
    /\ revoked_offers \subseteq OfferIds
    /\ funds \in [cash: Nat, pending: [Wallets -> Nat]]
    /\ vaults \in [VaultKeys -> VaultRecord]
    /\ rate \in OracleRates
    /\ now \in Nat
    /\ drifted \subseteq LiquidityKeys
    /\ vault_count \in [Borrowers -> 0..MaxVaults]
    /\ proceeds \in [VaultKeys -> Nat]
    /\ results \subseteq RedeemResult

(* README, Securitize: "the Securitize version creates a new vault for     *)
(* each loan".  No sequence of creations, replacements and transfers gives *)
(* two loans one vault, or a loan a vault that a later loan would take.    *)
VaultsNotShared ==
    \A l \in loans :
        /\ l.vault_id < vault_count[l.borrower]
        /\ \A m \in loans : VaultOf(l) = VaultOf(m) => l = m

(* The collateral of a loan is in its own vault: all of it, or what its    *)
(* borrower kept out of the redemption and what came back of it.           *)
CollateralInItsVault ==
    \A l \in loans :
        LET held == Unclaimed(vaults[VaultOf(l)])
        IN  IF l.returned THEN held >= l.redeem_residual_collateral
            ELSE held = IF Redeemed(l) THEN l.redeem_residual_collateral
                        ELSE l.collateral_amount

(* Nothing is left where nobody can get it: a vault that no loan uses      *)
(* holds only the collateral it owes to wallets and no payment tokens,     *)
(* however the loan that used it ended.                                    *)
NothingLeftBehind ==
    \A key \in VaultKeys : (\A l \in loans : VaultOf(l) # key) =>
        Unclaimed(vaults[key]) = 0 /\ proceeds[key] = 0

(* A signed result stays true until it is used: whatever happens between   *)
(* the signature and the settlement, liquidation or transfer, each result  *)
(* that concludes a loan's redemption says exactly what its vault holds.   *)
ResultsStayTrue ==
    \A l \in loans : Redeemed(l) =>
        \A r \in Concluding(l) :
            /\ proceeds[VaultOf(l)] = InVaultPayment(l, r)
            /\ Unclaimed(vaults[VaultOf(l)]) = InVaultCollateral(l, r)

(* The contract keeps no payment tokens but those whose transfer failed:   *)
(* what a redemption paid is divided to the last token.                    *)
FundsAccounted == funds.cash = SumFunction(funds.pending)

(* A loan can be closed unless it waits for the result of a redemption:    *)
(* anyone can liquidate it once it has matured, while the oracle answers,  *)
(* and its borrower can repay it before.                                   *)
LoansCanBeClosed ==
    \A l \in loans : \A result \in ResultsFor(l) :
        IF Matured(l)
        THEN OracleAnswers /\ config.liquidation_addr = LiquidationFacet =>
                LiquidationPossible(l, result)
        ELSE SettlementPossible(l, result)
=============================================================================
