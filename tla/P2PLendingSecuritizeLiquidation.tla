------------------- MODULE P2PLendingSecuritizeLiquidation -------------------
(***************************************************************************)
(* The liquidation facet of the Securitize protocol, which also holds the  *)
(* transfer of a loan to another borrower.  A redeemed loan is liquidated  *)
(* over what its redemption brought back: the payment tokens pay the fee   *)
(* first and the debt next, the collateral the rest.                       *)
(***************************************************************************)
EXTENDS P2PLendingSecuritizeBase

CONSTANT LiquidationFacet

Healing == INSTANCE P2PLendingVaultedLiquidation

-----------------------------------------------------------------------------
(* partially_liquidate_loan.                                               *)

PartiallyLiquidateLoan(tx, loan, refused) ==
    LET liquidator == Actor(tx)
        healing == Healing!HealingLiquidation(loan)
        taken == healing.claimed + healing.fee
        updated_loan == [loan EXCEPT !.amount = OutstandingDebt(loan) - healing.written_off,
                                     !.accrual_start_time = now,
                                     !.collateral_amount = @ - taken]
    IN  /\ config.liquidation_addr = LiquidationFacet
        /\ ~Matured(loan)
        /\ ~Redeemed(loan)
        /\ OracleAnswers
        /\ Healing!LtvReached(loan)
        /\ ~Unhealable(loan.initial_ltv, loan.partial_liquidation_fee)
        /\ healing.written_off < OutstandingDebt(loan)
        /\ WithdrawAllowed(vaults[VaultOf(loan)], taken)
        /\ loans' = Stored(loans, updated_loan)
        /\ vaults' = CollateralSent(vaults, VaultOf(loan), liquidator, taken, refused)
        /\ IF liquidator = loan.lender
           THEN UNCHANGED <<funds, commited_liquidity>>
           ELSE /\ funds' = Sent(Received(funds, healing.written_off),
                                 loan.lender, healing.written_off, refused)
                /\ commited_liquidity' = Reduced(commited_liquidity, loan, healing.written_off)
        /\ Healing!Drifts(loan)
        /\ UNCHANGED <<config, revoked_offers, environment, vault_count, redemptions>>

-----------------------------------------------------------------------------
(* liquidate_loan.                                                         *)

LiquidationInterest(loan) ==
    Interest(loan.amount, loan.apr, loan.maturity - loan.accrual_start_time)

InterestDue(loan) ==
    IF Matured(loan) THEN LiquidationInterest(loan) ELSE SettlementInterest(loan)

\* The ltv of what the payment tokens leave of the debt; 0 without collateral.
RedeemedLtv(loan, payment, collateral) ==
    IF collateral = 0 THEN 0
    ELSE Ltv(collateral, MaxOf(0, OutstandingDebt(loan) - payment), rate)

\* An open debt whose ltv rounds down to 0 is liquidatable, whatever the
\* collateral behind it is worth.
RedeemedLiquidatable(loan, payment, collateral) ==
    LET ltv == RedeemedLtv(loan, payment, collateral)
    IN  IF ltv > 0 THEN ltv >= loan.liquidation_ltv ELSE OutstandingDebt(loan) > payment

LiquidationAllowed(loan, payment, collateral) ==
    \/ Matured(loan)
    \/ /\ loan.liquidation_ltv > 0
       /\ IF Redeemed(loan) THEN RedeemedLiquidatable(loan, payment, collateral)
          ELSE /\ Healing!LtvReached(loan)
               /\ ~Unhealable(loan.initial_ltv, loan.partial_liquidation_fee)
               /\ Healing!HealingLiquidation(loan).written_off >= OutstandingDebt(loan)

\* How `payment` and `collateral` in the vault are divided.  `paid` is the
\* payment that is left for the debt, `fee` and `fee_collateral` the
\* liquidation fee in payment tokens and in collateral.
Split(loan, payment, collateral) ==
    LET debt == loan.amount + InterestDue(loan)
        full_fee == Fee(loan.full_liquidation_fee, debt)
        fee == MinOf(full_fee, payment)
        fee_collateral == MinOf(collateral, CollateralFor(full_fee - fee, rate))
        paid == payment - fee
        remaining == collateral - fee_collateral
        value == ValueOf(remaining, rate)
        for_debt == CollateralFor(MaxOf(0, debt - paid), rate)
    IN  [debt |-> debt, fee |-> fee, paid |-> paid, value |-> value,
         \* What the lender and the protocol share.
         price |-> MinOf(debt, paid + value),
         protocol_fee |-> MinOf(Fee(loan.protocol_settlement_fee, InterestDue(loan)),
                                paid + value),
         to_borrower |-> MaxOf(0, paid - debt),
         collateral_to_liquidator |->
             IF paid >= debt THEN 0
             ELSE IF paid + value >= debt
             THEN MinOf(for_debt, remaining) + fee_collateral
             ELSE collateral]

\* Fault: the lender gets the protocol's fee as well.
FaultyLenderShare(split) == split.price

LenderShare(split) == split.price - split.protocol_fee

\* What the liquidator gets in payment tokens (pays, if negative): its fee,
\* less what the payment tokens do not cover of the price.
LiquidatorShare(split) == split.fee - (split.price - MinOf(split.debt, split.paid))

LiquidationFunds(liquidator, loan, split, refused) ==
    LET drawn == Received(funds, split.paid + split.fee)
        traded == IF liquidator = loan.lender
                  THEN Settled(drawn, liquidator,
                               LiquidatorShare(split) + LenderShare(split), refused)
                  ELSE Sent(Sent(Received(drawn, MaxOf(0, -LiquidatorShare(split))),
                                 loan.lender, LenderShare(split), refused),
                            liquidator, MaxOf(0, LiquidatorShare(split)), refused)
        protocol == Sent(traded, config.protocol_wallet, split.protocol_fee, refused)
    IN  Sent(protocol, loan.borrower, split.to_borrower, refused)

\* The debt is given back when the payment tokens cover it; otherwise what the
\* collateral covers, and only by a liquidator who is not the lender.
LiquidationLiquidity(liquidator, loan, split) ==
    IF split.paid >= split.debt THEN Reduced(commited_liquidity, loan, split.debt)
    ELSE IF liquidator = loan.lender THEN commited_liquidity
    ELSE Reduced(commited_liquidity, loan,
                 IF split.paid + split.value >= split.debt THEN split.debt ELSE split.value)

\* Everything that liquidate_loan requires: of the loan, the oracle and the vault.
LiquidationPossible(loan, result) ==
    LET key == VaultOf(loan)
        payment == InVaultPayment(loan, result)
        collateral == InVaultCollateral(loan, result)
    IN  /\ config.liquidation_addr = LiquidationFacet
        /\ vaults[key].deployed
        /\ BalancesConfirmed(loan, result)
        /\ OracleAnswers
        /\ LiquidationAllowed(loan, payment, collateral)
        /\ WithdrawAllowed(vaults[key], collateral)

LiquidateLoan(tx, loan, result, refused) ==
    LET liquidator == Actor(tx)
        key == VaultOf(loan)
        payment == InVaultPayment(loan, result)
        collateral == InVaultCollateral(loan, result)
        split == Split(loan, payment, collateral)
        taken == split.collateral_to_liquidator
        first == CollateralSent(vaults, key, liquidator, taken, refused)
    IN  /\ LiquidationPossible(loan, result)
        /\ proceeds' = FundsWithdrawn(key, payment)
        /\ funds' = LiquidationFunds(liquidator, loan, split, refused)
        /\ commited_liquidity' = LiquidationLiquidity(liquidator, loan, split)
        /\ vaults' = CollateralSent(first, key, loan.borrower, collateral - taken, refused)
        /\ loans' = loans \ {loan}
        /\ Healing!Drifts(loan)
        /\ UNCHANGED <<config, revoked_offers, environment, vault_count, results>>

-----------------------------------------------------------------------------
(* transfer_loan: all that the old vault holds goes to a new vault of the  *)
(* new borrower.                                                           *)

\* Fault: only the collateral is moved.
FaultyProceedsMoved(key, new_key) == proceeds

ProceedsMoved(key, new_key) ==
    [proceeds EXCEPT ![key] = 0, ![new_key] = @ + proceeds[key]]

CollateralMoved(key, new_key, refused) ==
    LET amount == Unclaimed(vaults[key])
        arrived == IF CollateralRefused(new_key, refused) THEN 0 ELSE amount
        sent == CollateralSent(VaultCreated(vaults, new_key), key, new_key, amount, refused)
    IN  [sent EXCEPT ![new_key].balance = @ + arrived]

TransferLoan(tx, loan, new_borrower, refused) ==
    LET new_id == vault_count[new_borrower]
        new_key == <<new_borrower, new_id>>
        updated_loan == [loan EXCEPT !.borrower = new_borrower, !.vault_id = new_id]
    IN  /\ config.liquidation_addr = LiquidationFacet
        /\ CheckUser(tx, config.transfer_agent)
        /\ new_borrower # loan.borrower
        /\ vaults[VaultOf(loan)].deployed
        /\ ResultsFor(loan) # {}
        /\ KycValid(new_borrower)
        /\ new_id \in VaultIds
        /\ loans' = Stored(loans, updated_loan) \ {loan}
        /\ vault_count' = Counted(new_borrower)
        /\ vaults' = CollateralMoved(VaultOf(loan), new_key, refused)
        /\ proceeds' = ProceedsMoved(VaultOf(loan), new_key)
        /\ UNCHANGED <<config, commited_liquidity, revoked_offers, funds, environment,
                       drifted, results>>
=============================================================================
