--------------------- MODULE P2PLendingVaultedRefinance ---------------------
(***************************************************************************)
(* The refinance facet: a new loan takes the place of a live one over the  *)
(* same collateral, at the borrower's request (replace_loan) or at the     *)
(* lender's (replace_loan_lender).                                         *)
(***************************************************************************)
EXTENDS P2PLendingVaultedBase

CONSTANT RefinanceFacet   \* the address this facet is deployed at

\* _get_repayment_time: when the loan could default at the earliest, if it
\* were called as soon as it can be.
RepaymentTime(loan) ==
    IF loan.call_eligibility = 0 THEN loan.maturity
    ELSE IF loan.call_time > 0 THEN MinOf(loan.maturity, loan.call_time + loan.call_window)
    ELSE MinOf(loan.maturity,
               MaxOf(now, loan.start_time + loan.call_eligibility) + loan.call_window)

\* _max_interest_delta: extra interest to the old maturity, at least the
\* origination fee.
MaxInterestDelta(loan, offer, new_principal, origination_fee) ==
    MaxOf(origination_fee,
          MaxOf(0, ((origination_fee + new_principal * offer.apr - loan.amount * loan.apr)
                        * (loan.maturity - now)) \div (YEAR * BPS)))

NewPrincipal(loan, principal) == IF principal = 0 THEN OutstandingDebt(loan) ELSE principal

ProtocolSettlementFee(loan) == Fee(loan.protocol_settlement_fee, SettlementInterest(loan))

\* The old loan is closed and the new one stored under another id.
Replaced(loan, new_loan) == Stored(loans \ {loan}, new_loan)

\* Fault: the old loan's principal is not given back.
FaultyReplacedLiquidity(loan, id, principal) == Committed(commited_liquidity, id, principal)

ReplacedLiquidity(loan, id, principal) ==
    Committed(Reduced(commited_liquidity, loan, loan.amount), id, principal)

\* Fault: the new lender does not pay the protocol's upfront fee.
FaultyNewLenderDelta(offer, principal) == Fee(offer.origination_fee_bps, principal) - principal

\* What the new lender gets (pays, if negative).
NewLenderDelta(offer, principal) ==
    Fee(offer.origination_fee_bps, principal)
        - (principal + Fee(config.protocol_upfront_fee, principal))

\* Shared guard of both: the new id is free, and the offer has room once the
\* old loan's principal is given back.
OfferTaken(loan, new_loan, id, principal) ==
    /\ ~Exists(new_loan)
    /\ OfferUsable(Reduced(commited_liquidity, loan, loan.amount), id, principal)

-----------------------------------------------------------------------------
(* replace_loan.                                                           *)

CollateralAdjusted(loan, collateral, refused) ==
    LET delta == collateral - loan.collateral_amount
    IN  IF delta > 0 THEN CollateralReceived(vaults, loan.borrower, delta)
        ELSE IF delta < 0
        THEN CollateralSent(vaults, loan.borrower, loan.borrower, -delta, refused)
        ELSE vaults

AdjustmentAllowed(loan, collateral) ==
    LET vault == vaults[loan.borrower]
        delta == collateral - loan.collateral_amount
    IN  /\ vault.deployed
        /\ delta > 0 => DepositAllowed(vault, delta, loan.borrower)
        /\ delta < 0 => WithdrawAllowed(vault, -delta)

ReplaceFunds(loan, offer, principal, refused) ==
    LET debt == OutstandingDebt(loan)
        origination == Fee(offer.origination_fee_bps, principal)
        upfront == Fee(config.protocol_upfront_fee, principal)
        borrower_delta == principal - (debt + origination)
        old_lender_delta == debt - ProtocolSettlementFee(loan)
        new_lender_delta == NewLenderDelta(offer, principal)
        paid_in == Received(funds, MaxOf(0, -borrower_delta))
        lenders == IF loan.lender = offer.lender
                   THEN Settled(paid_in, loan.lender, old_lender_delta + new_lender_delta, refused)
                   ELSE Sent(Received(paid_in, MaxOf(0, -new_lender_delta)),
                             loan.lender, old_lender_delta, refused)
        borrower == Sent(lenders, loan.borrower, MaxOf(0, borrower_delta), refused)
    IN  Sent(borrower, config.protocol_wallet, ProtocolSettlementFee(loan) + upfront, refused)

ReplaceLoan(tx, loan, id, principal, collateral, refused) ==
    LET offer == Offer[id]
        new_principal == NewPrincipal(loan, principal)
        new_loan == NewLoan(id, loan.borrower, new_principal, collateral, AgreedUntil(offer))
    IN  /\ config.refinance_addr = RefinanceFacet
        /\ CheckUser(tx, loan.borrower)
        /\ ~Defaulted(loan)
        /\ OfferAccepted(offer, loan.borrower, new_principal, collateral)
        /\ OfferTaken(loan, new_loan, id, new_principal)
        /\ AdjustmentAllowed(loan, collateral)
        /\ loans' = Replaced(loan, new_loan)
        /\ commited_liquidity' = ReplacedLiquidity(loan, id, new_principal)
        /\ revoked_offers' = RevokedAfterUse(id)
        /\ vaults' = CollateralAdjusted(loan, collateral, refused)
        /\ funds' = ReplaceFunds(loan, offer, new_principal, refused)
        /\ UNCHANGED <<config, environment, drifted>>

-----------------------------------------------------------------------------
(* replace_loan_lender: the borrower does not take part, so the new terms  *)
(* may not be worse than the old ones.                                     *)

\* Fault: the time to repay is not compared.
FaultyTermsNotWorse(loan, new_loan) ==
    /\ new_loan.liquidation_ltv > 0 => new_loan.liquidation_ltv >= loan.liquidation_ltv
    /\ new_loan.initial_ltv >= loan.initial_ltv

TermsNotWorse(loan, new_loan) ==
    /\ RepaymentTime(new_loan) >= RepaymentTime(loan)
    /\ new_loan.liquidation_ltv > 0 => new_loan.liquidation_ltv >= loan.liquidation_ltv
    /\ new_loan.call_eligibility > 0 =>
          loan.call_eligibility > 0 /\ new_loan.call_window >= loan.call_window
    /\ new_loan.initial_ltv >= loan.initial_ltv
    /\ new_loan.liquidation_ltv > 0 =>
          Ltv(loan.collateral_amount, new_loan.amount, rate) <= CurrentLtv(loan)

ReplaceLenderFunds(loan, offer, principal, refused) ==
    LET debt == OutstandingDebt(loan)
        origination == Fee(offer.origination_fee_bps, principal)
        upfront == Fee(config.protocol_upfront_fee, principal)
        compensation == MaxOf(MaxInterestDelta(loan, offer, principal, origination),
                              debt + origination - principal)
        borrower_delta == principal + compensation - (debt + origination)
        old_lender_delta == debt - ProtocolSettlementFee(loan) - compensation
        new_lender_delta == NewLenderDelta(offer, principal)
        lenders == IF loan.lender = offer.lender
                   THEN Received(funds, MaxOf(0, -(old_lender_delta + new_lender_delta)))
                   ELSE Settled(Received(funds, MaxOf(0, -new_lender_delta)),
                                loan.lender, old_lender_delta, refused)
        borrower == Sent(lenders, loan.borrower, borrower_delta, refused)
    IN  Sent(borrower, config.protocol_wallet, ProtocolSettlementFee(loan) + upfront, refused)

ReplaceLoanLender(tx, loan, id, principal, refused) ==
    LET offer == Offer[id]
        new_principal == NewPrincipal(loan, principal)
        new_loan == NewLoan(id, loan.borrower, new_principal, loan.collateral_amount,
                            loan.agreed_until)
    IN  /\ config.refinance_addr = RefinanceFacet
        /\ CheckUser(tx, loan.lender)
        /\ ~Defaulted(loan)
        /\ OfferAccepted(offer, loan.borrower, new_principal, loan.collateral_amount)
        /\ OfferTaken(loan, new_loan, id, new_principal)
        /\ TermsNotWorse(loan, new_loan)
        /\ loans' = Replaced(loan, new_loan)
        /\ commited_liquidity' = ReplacedLiquidity(loan, id, new_principal)
        /\ revoked_offers' = RevokedAfterUse(id)
        /\ funds' = ReplaceLenderFunds(loan, offer, new_principal, refused)
        /\ UNCHANGED <<config, vaults, environment, drifted>>
=============================================================================
