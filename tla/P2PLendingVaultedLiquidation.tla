-------------------- MODULE P2PLendingVaultedLiquidation --------------------
(***************************************************************************)
(* The liquidation facet.  Anyone may liquidate a loan whose ltv reached   *)
(* its liquidation_ltv, in part when that heals it and in full when it     *)
(* does not, and any defaulted loan in full.                               *)
(***************************************************************************)
EXTENDS P2PLendingVaultedBase

CONSTANT LiquidationFacet   \* the address this facet is deployed at

LtvReached(loan) ==
    /\ loan.liquidation_ltv > 0
    /\ CurrentLtv(loan) >= loan.liquidation_ltv

HealingLiquidation(loan) ==
    PartialLiquidation(loan.collateral_amount, OutstandingDebt(loan), loan.initial_ltv,
                       loan.partial_liquidation_fee, rate)

\* A liquidation does not give the lender's liquidity back by the loan's
\* principal: the keys it touched are remembered.
Drifts(loan) ==
    drifted' = drifted \cup {LiquidityKey(loan.lender, loan.offer_tracing_id)}

-----------------------------------------------------------------------------
(* partially_liquidate_loan.  The debt is a uint256, so that the maximum   *)
(* that stands for "cannot be healed" is never below it.                   *)

PartiallyLiquidateLoan(tx, loan, refused) ==
    LET liquidator == Actor(tx)
        healing == HealingLiquidation(loan)
        taken == healing.claimed + healing.fee
        updated_loan == [loan EXCEPT !.amount = OutstandingDebt(loan) - healing.written_off,
                                     !.accrual_start_time = now,
                                     !.collateral_amount = @ - taken]
    IN  /\ config.liquidation_addr = LiquidationFacet
        /\ ~Defaulted(loan)
        /\ OracleAnswers
        /\ LtvReached(loan)
        /\ OutstandingDebt(loan) <= MaxUint256
        /\ healing.written_off < OutstandingDebt(loan)
        /\ WithdrawAllowed(vaults[loan.borrower], taken)
        /\ loans' = Stored(loans, updated_loan)
        /\ vaults' = CollateralSent(vaults, loan.borrower, liquidator, taken, refused)
        /\ IF liquidator = loan.lender
           THEN UNCHANGED <<funds, commited_liquidity>>
           ELSE /\ funds' = Sent(Received(funds, healing.written_off),
                                 loan.lender, healing.written_off, refused)
                /\ commited_liquidity' = Reduced(commited_liquidity, loan, healing.written_off)
        /\ Drifts(loan)
        /\ UNCHANGED <<config, revoked_offers, environment>>

-----------------------------------------------------------------------------
(* liquidate_loan.                                                         *)

\* Up to the maturity or the end of the call window: min() with
\* max_value(uint256) when the loan was not called.
LiquidationInterest(loan) ==
    LET called_until == IF loan.call_time > 0 THEN loan.call_time + loan.call_window
                        ELSE loan.maturity
    IN  Interest(loan.amount, loan.apr,
                 MinOf(called_until, loan.maturity) - loan.accrual_start_time)

InterestDue(loan) ==
    IF Defaulted(loan) THEN LiquidationInterest(loan) ELSE SettlementInterest(loan)

LiquidationAllowed(loan) ==
    \/ Defaulted(loan)
    \/ /\ LtvReached(loan)
       /\ HealingLiquidation(loan).written_off >= OutstandingDebt(loan)

\* Fault: the protocol's fee is not deducted from what the lender gets.
FaultyLiquidationFunds(loan, price, split, refused) ==
    Sent(Sent(Received(funds, price), loan.lender, price, refused),
         config.protocol_wallet, split.protocol_fee, refused)

\* What the liquidator pays: the debt, or what the collateral is worth.
LiquidationFunds(loan, price, split, refused) ==
    Sent(Sent(Received(funds, price), loan.lender, price - split.protocol_fee, refused),
         config.protocol_wallet, split.protocol_fee, refused)

\* Fault: more is promised than an uncovered loan has.
FaultyToLiquidator(loan, split) == split.for_debt + split.fee

\* The collateral goes to the liquidator, and what a covered debt leaves of it
\* to the borrower; collateral_for_debt <= remaining_collateral then, and a
\* second withdrawal of nothing changes nothing.
ToLiquidator(loan, split) ==
    IF split.covered THEN split.for_debt + split.fee ELSE loan.collateral_amount

ToBorrower(split) == IF split.covered THEN split.remaining - split.for_debt ELSE 0

LoanSplit(loan) ==
    FullLiquidation(loan.collateral_amount, loan.amount + InterestDue(loan), InterestDue(loan),
                    loan.full_liquidation_fee, loan.protocol_settlement_fee, rate)

\* The vaults once the liquidator was sent its collateral.
LiquidatorSent(liquidator, loan, refused) ==
    CollateralSent(vaults, loan.borrower, liquidator, ToLiquidator(loan, LoanSplit(loan)),
                   refused)

\* Everything that liquidate_loan requires: of the loan, the oracle and the vault.
LiquidationPossible(liquidator, loan, refused) ==
    LET split == LoanSplit(loan)
        first == LiquidatorSent(liquidator, loan, refused)
    IN  /\ config.liquidation_addr = LiquidationFacet
        /\ OracleAnswers
        /\ LiquidationAllowed(loan)
        /\ WithdrawAllowed(vaults[loan.borrower], ToLiquidator(loan, split))
        /\ WithdrawAllowed(first[loan.borrower], ToBorrower(split))

LiquidateLoan(tx, loan, refused) ==
    LET liquidator == Actor(tx)
        split == LoanSplit(loan)
        price == IF split.covered THEN loan.amount + InterestDue(loan)
                 ELSE split.remaining_value
        first == LiquidatorSent(liquidator, loan, refused)
    IN  /\ LiquidationPossible(liquidator, loan, refused)
        /\ loans' = loans \ {loan}
        /\ vaults' = CollateralSent(first, loan.borrower, loan.borrower,
                                    ToBorrower(split), refused)
        \* A liquidating lender pays the protocol fee straight from its wallet.
        /\ IF liquidator = loan.lender
           THEN UNCHANGED <<funds, commited_liquidity>>
           ELSE /\ funds' = LiquidationFunds(loan, price, split, refused)
                /\ commited_liquidity' = Reduced(commited_liquidity, loan, price)
        /\ Drifts(loan)
        /\ UNCHANGED <<config, revoked_offers, environment>>
=============================================================================
