-------------------- MODULE P2PLendingSecuritizeRefinance --------------------
(***************************************************************************)
(* The refinance facet of the Securitize protocol.  The flow of funds of a *)
(* replacement is that of P2PLendingVaultedRefinance, line by line; the    *)
(* terms have no calls, a loan that is being redeemed cannot be replaced,  *)
(* and a loan's maturity can be extended.                                  *)
(***************************************************************************)
EXTENDS P2PLendingSecuritizeBase

CONSTANT RefinanceFacet

Vaulted == INSTANCE P2PLendingVaultedRefinance

-----------------------------------------------------------------------------
(* replace_loan.                                                           *)

CollateralReplaced(loan, collateral, refused) ==
    LET delta == collateral - loan.collateral_amount
    IN  IF delta > 0 THEN CollateralPaidIn(vaults, VaultOf(loan), delta)
        ELSE IF delta < 0
        THEN CollateralSent(vaults, VaultOf(loan), loan.borrower, -delta, refused)
        ELSE vaults

CollateralReplaceable(loan, collateral) ==
    LET vault == vaults[VaultOf(loan)]
        delta == collateral - loan.collateral_amount
    IN  /\ vault.deployed
        /\ delta > 0 => DepositAllowed(vault, delta, loan.borrower)
        /\ delta < 0 => WithdrawAllowed(vault, -delta)

ReplaceLoan(tx, loan, id, principal, collateral, refused) ==
    LET offer == Offer[id]
        new_principal == Vaulted!NewPrincipal(loan, principal)
        new_loan == NewRedeemableLoan(id, loan.borrower, new_principal, collateral,
                                      loan.vault_id)
    IN  /\ config.refinance_addr = RefinanceFacet
        /\ CheckUser(tx, loan.borrower)
        /\ ~Matured(loan)
        /\ ~Redeemed(loan)
        /\ RedeemableOfferAccepted(offer, loan.borrower, new_principal, collateral)
        /\ Vaulted!OfferTaken(loan, new_loan, id, new_principal)
        /\ CollateralReplaceable(loan, collateral)
        /\ loans' = Vaulted!Replaced(loan, new_loan)
        /\ commited_liquidity' = Vaulted!ReplacedLiquidity(loan, id, new_principal)
        /\ revoked_offers' = RevokedAfterUse(id)
        /\ vaults' = CollateralReplaced(loan, collateral, refused)
        /\ funds' = Vaulted!ReplaceFunds(loan, offer, new_principal, refused)
        /\ UNCHANGED <<config, environment, drifted, vault_count, redemptions>>

-----------------------------------------------------------------------------
(* replace_loan_lender.                                                    *)

SaleTermsNotWorse(loan, new_loan) ==
    /\ new_loan.maturity >= loan.maturity
    /\ new_loan.liquidation_ltv > 0 => new_loan.liquidation_ltv >= loan.liquidation_ltv
    /\ new_loan.initial_ltv >= loan.initial_ltv
    /\ new_loan.liquidation_ltv > 0 =>
          Ltv(loan.collateral_amount, new_loan.amount, rate) <= CurrentLtv(loan)

ReplaceLoanLender(tx, loan, id, principal, refused) ==
    LET offer == Offer[id]
        new_principal == Vaulted!NewPrincipal(loan, principal)
        new_loan == NewRedeemableLoan(id, loan.borrower, new_principal,
                                      loan.collateral_amount, loan.vault_id)
    IN  /\ config.refinance_addr = RefinanceFacet
        /\ CheckUser(tx, loan.lender)
        /\ ~Matured(loan)
        /\ ~Redeemed(loan)
        /\ RedeemableOfferAccepted(offer, loan.borrower, new_principal,
                                   loan.collateral_amount)
        /\ Vaulted!OfferTaken(loan, new_loan, id, new_principal)
        /\ SaleTermsNotWorse(loan, new_loan)
        /\ loans' = Vaulted!Replaced(loan, new_loan)
        /\ commited_liquidity' = Vaulted!ReplacedLiquidity(loan, id, new_principal)
        /\ revoked_offers' = RevokedAfterUse(id)
        /\ funds' = Vaulted!ReplaceLenderFunds(loan, offer, new_principal, refused)
        /\ UNCHANGED <<config, vaults, environment, drifted, vault_count, redemptions>>

-----------------------------------------------------------------------------
(* extend_loan, at the borrower's request over an extension that the       *)
(* lender has signed for this loan and maturity, and extend_loan_lender.   *)

MaturityExtended(loan, new_maturity) ==
    /\ config.refinance_addr = RefinanceFacet
    /\ ~Matured(loan)
    /\ new_maturity > loan.maturity
    /\ loans' = Stored(loans, [loan EXCEPT !.maturity = new_maturity])
    /\ UNCHANGED <<config, commited_liquidity, revoked_offers, funds, vaults,
                   environment, drifted, vault_count, redemptions>>

ExtendLoan(tx, loan, offered_maturity, new_maturity) ==
    /\ CheckUser(tx, loan.borrower)
    /\ new_maturity <= offered_maturity
    /\ MaturityExtended(loan, new_maturity)

ExtendLoanLender(tx, loan, new_maturity) ==
    /\ CheckUser(tx, loan.lender)
    /\ MaturityExtended(loan, new_maturity)
=============================================================================
