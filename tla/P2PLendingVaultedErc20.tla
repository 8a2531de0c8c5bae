----------------------- MODULE P2PLendingVaultedErc20 -----------------------
(***************************************************************************)
(* The vaulted lending contract: its entry points on loans and vaults, the *)
(* ones it delegates to the refinance and liquidation facets, those of     *)
(* LendingAdministration, and what it promises.                            *)
(***************************************************************************)
EXTENDS P2PLendingVaultedRefinance, P2PLendingVaultedLiquidation, LendingAdministration

CONSTANTS
    InitialConfig,   \* what __init__ is given, and msg.sender as owner
    VaultAddress     \* _wallet_to_vault: borrower -> its vault's address

ASSUME VaultAddressAssumption ==
    /\ VaultAddress \in [Borrowers -> Wallets]
    /\ \A b, c \in Borrowers :
          VaultAddress[b] \notin Borrowers /\ (VaultAddress[b] = VaultAddress[c] => b = c)

ConfigRecord ==
    [owner: Wallets, proposed_owner: Wallets \cup {NoOne},
     transfer_agent: Wallets \cup {NoOne},
     protocol_wallet: Wallets, protocol_upfront_fee: 0..MaxUpfrontFee,
     protocol_settlement_fee: 0..MaxSettlementFee,
     partial_liquidation_fee: 0..BPS, full_liquidation_fee: 0..BPS,
     authorized_proxies: SUBSET Wallets, vault_registrar: Wallets \cup {NoOne},
     refinance_addr: Wallets, liquidation_addr: Wallets]

\* The constructor takes its fees unchecked: the deployment is assumed to stay
\* within the limits that the setters enforce.
ASSUME ConfigAssumption == InitialConfig \in ConfigRecord

Init ==
    /\ config = InitialConfig
    /\ loans = {}
    /\ commited_liquidity = [k \in LiquidityKeys |-> 0]
    /\ revoked_offers = {}
    /\ funds = [cash |-> 0, pending |-> [w \in Wallets |-> 0]]
    /\ vaults = [b \in Borrowers |-> EmptyVault(FALSE)]
    /\ rate \in OracleRates
    /\ now = 1
    /\ drifted = {}

-----------------------------------------------------------------------------
(* Loans.                                                                  *)

CreateLoan(tx, id, principal, collateral) ==
    LET offer == Offer[id]
        borrower == Actor(tx)
        loan == NewLoan(id, borrower, principal, collateral, AgreedUntil(offer))
        created == VaultCreated(vaults, borrower)
    IN  /\ borrower \in Borrowers
        /\ KycValid(borrower)
        /\ OfferAccepted(offer, borrower, principal, collateral)
        /\ ~Exists(loan)
        /\ OfferUsable(commited_liquidity, id, principal)
        /\ DepositAllowed(created[borrower], collateral, borrower)
        /\ loans' = Stored(loans, loan)
        /\ commited_liquidity' = Committed(commited_liquidity, id, principal)
        /\ revoked_offers' = RevokedAfterUse(id)
        /\ vaults' = CollateralReceived(created, borrower, collateral)
        /\ UNCHANGED <<config, funds, environment, drifted>>

SettlementPossible(loan) ==
    /\ ~Defaulted(loan)
    /\ WithdrawAllowed(vaults[loan.borrower], loan.collateral_amount)

SettleLoan(tx, loan, refused) ==
    LET paid == OutstandingDebt(loan)
        fee == ProtocolSettlementFee(loan)
    IN  /\ SettlementPossible(loan)
        /\ CheckUser(tx, loan.borrower)
        /\ loans' = loans \ {loan}
        /\ commited_liquidity' = Reduced(commited_liquidity, loan, loan.amount)
        /\ funds' = Sent(Sent(Received(funds, paid), loan.lender, paid - fee, refused),
                         config.protocol_wallet, fee, refused)
        /\ vaults' = CollateralSent(vaults, loan.borrower, loan.borrower,
                                    loan.collateral_amount, refused)
        /\ UNCHANGED <<config, revoked_offers, environment, drifted>>

\* Fault: a loan can be called at once.
FaultyCallLoan(tx, loan) ==
    /\ CheckUser(tx, loan.lender)
    /\ loan.call_eligibility > 0
    /\ loan.call_time = 0
    /\ ~Defaulted(loan)
    /\ loans' = Stored(loans, [loan EXCEPT !.call_time = now])
    /\ UNCHANGED <<config, commited_liquidity, revoked_offers, assets, environment, drifted>>

CallLoan(tx, loan) ==
    /\ CheckUser(tx, loan.lender)
    /\ loan.call_eligibility > 0
    /\ loan.call_time = 0
    /\ now >= loan.start_time + loan.call_eligibility
    /\ ~Defaulted(loan)
    /\ loans' = Stored(loans, [loan EXCEPT !.call_time = now])
    /\ UNCHANGED <<config, commited_liquidity, revoked_offers, assets, environment, drifted>>

AddCollateral(tx, loan, amount) ==
    /\ CheckUser(tx, loan.borrower)
    /\ ~Defaulted(loan)
    /\ OracleAnswers
    /\ loan.collateral_amount + amount <= MaxCollateral
    /\ DepositAllowed(vaults[loan.borrower], amount, loan.borrower)
    /\ vaults' = CollateralReceived(vaults, loan.borrower, amount)
    /\ loans' = Stored(loans, [loan EXCEPT !.collateral_amount = @ + amount])
    /\ UNCHANGED <<config, commited_liquidity, revoked_offers, funds, environment, drifted>>

\* Fault: the ltv of what is left is not compared.
FaultyRemoveCollateral(tx, loan, amount, refused) ==
    LET left == loan.collateral_amount - amount
    IN  /\ CheckUser(tx, loan.borrower)
        /\ ~Defaulted(loan)
        /\ loan.min_collateral_amount <= left
        /\ left > 0
        /\ WithdrawAllowed(vaults[loan.borrower], amount)
        /\ loans' = Stored(loans, [loan EXCEPT !.collateral_amount = left])
        /\ vaults' = CollateralSent(vaults, loan.borrower, loan.borrower, amount, refused)
        /\ UNCHANGED <<config, commited_liquidity, revoked_offers, funds, environment, drifted>>

RemoveCollateral(tx, loan, amount, refused) ==
    LET left == loan.collateral_amount - amount
    IN  /\ CheckUser(tx, loan.borrower)
        /\ ~Defaulted(loan)
        /\ loan.min_collateral_amount <= left
        /\ OracleAnswers
        /\ left > 0
        /\ loan.initial_ltv >= Ltv(left, OutstandingDebt(loan), rate)
        /\ WithdrawAllowed(vaults[loan.borrower], amount)
        /\ loans' = Stored(loans, [loan EXCEPT !.collateral_amount = left])
        /\ vaults' = CollateralSent(vaults, loan.borrower, loan.borrower, amount, refused)
        /\ UNCHANGED <<config, commited_liquidity, revoked_offers, funds, environment, drifted>>

\* Fault: the collateral is sent to the new borrower, not to its vault.
FaultyCollateralMoved(loan, new_borrower, refused) ==
    CollateralSent(VaultCreated(vaults, new_borrower), loan.borrower, new_borrower,
                   loan.collateral_amount, refused)

\* The collateral goes to the new borrower's vault by a withdrawal whose
\* recipient is that vault's address.
CollateralMoved(loan, new_borrower, refused) ==
    LET vault == VaultAddress[new_borrower]
        arrived == IF CollateralRefused(vault, refused) THEN 0 ELSE loan.collateral_amount
        sent == CollateralSent(VaultCreated(vaults, new_borrower), loan.borrower, vault,
                               loan.collateral_amount, refused)
    IN  [sent EXCEPT ![new_borrower].balance = @ + arrived]

TransferLoan(tx, loan, new_borrower, refused) ==
    LET updated_loan == [loan EXCEPT !.borrower = new_borrower]
    IN  /\ CheckUser(tx, config.transfer_agent)
        /\ new_borrower # loan.borrower
        /\ KycValid(new_borrower)
        /\ WithdrawAllowed(vaults[loan.borrower], loan.collateral_amount)
        /\ loans' = Stored(loans, updated_loan) \ {loan}
        /\ vaults' = CollateralMoved(loan, new_borrower, refused)
        /\ UNCHANGED <<config, commited_liquidity, revoked_offers, funds, environment, drifted>>

-----------------------------------------------------------------------------
(* Vaults.                                                                 *)

CreateVaultIfNeeded(borrower) ==
    /\ vaults' = VaultCreated(vaults, borrower)
    /\ UNCHANGED <<config, book, funds, environment, drifted>>

\* withdraw_pending, called on the vault itself by one of the accounts, for a
\* step or for all it has pending.
WithdrawPendingCollateral(borrower, wallet) ==
    \E amount \in CollateralSteps \cup {vaults[borrower].pending[wallet]} :
        /\ WithdrawPendingAllowed(vaults[borrower], amount, wallet)
        /\ vaults' = [vaults EXCEPT ![borrower] = PendingWithdrawn(@, amount, wallet)]
        /\ UNCHANGED <<config, book, funds, environment, drifted>>

-----------------------------------------------------------------------------
\* A vault is a contract that never calls anything: it cannot claim.
Accounts == Wallets \ {VaultAddress[b] : b \in Borrowers}

LoanStep(tx, loan) ==
    \/ CallLoan(tx, loan)
    \/ \E amount \in CollateralSteps : AddCollateral(tx, loan, amount)
    \/ \E refused \in SUBSET Refusals :
          \/ SettleLoan(tx, loan, refused)
          \/ PartiallyLiquidateLoan(tx, loan, refused)
          \/ LiquidateLoan(tx, loan, refused)
          \/ \E amount \in CollateralSteps : RemoveCollateral(tx, loan, amount, refused)
          \/ \E b \in Borrowers : TransferLoan(tx, loan, b, refused)
          \/ \E id \in OfferIds, principal \in Principals \cup {0} :
                \/ ReplaceLoanLender(tx, loan, id, principal, refused)
                \/ \E collateral \in CollateralAmounts :
                      ReplaceLoan(tx, loan, id, principal, collateral, refused)

Next ==
    \/ Tick
    \/ OracleUpdate
    \/ \E tx \in Txs, id \in OfferIds :
          \/ RevokeOffer(tx, id)
          \/ \E principal \in Principals, collateral \in CollateralAmounts :
                CreateLoan(tx, id, principal, collateral)
    \/ \E tx \in Txs, loan \in loans : LoanStep(tx, loan)
    \/ \E tx \in Txs : Administration(tx.sender)
    \/ \E wallet \in Accounts : ClaimPendingTransfers(wallet)
    \/ \E b \in Borrowers : CreateVaultIfNeeded(b)
    \/ \E b \in Borrowers, wallet \in Accounts : WithdrawPendingCollateral(b, wallet)

Spec == Init /\ [][Next]_vars

-----------------------------------------------------------------------------
(* What the protocol promises.                                             *)

TypeOK ==
    /\ config \in ConfigRecord
    /\ loans \subseteq LoanRecord
    /\ commited_liquidity \in [LiquidityKeys -> Nat]
    /\ revoked_offers \subseteq OfferIds
    /\ funds \in [cash: Nat, pending: [Wallets -> Nat]]
    /\ vaults \in [Borrowers -> VaultRecord]
    /\ rate \in OracleRates
    /\ now \in Nat
    /\ drifted \subseteq LiquidityKeys

(* Interest runs from a moment that is past, and never later than the      *)
(* moment the loan defaults: block.timestamp - accrual_start_time and the  *)
(* term in _compute_liquidation_interest are never negative, whatever      *)
(* calls, partial liquidations and transfers came before.                  *)
AccrualWithinTerm ==
    \A l \in loans :
        /\ l.start_time <= l.accrual_start_time
        /\ l.accrual_start_time <= now
        /\ l.accrual_start_time <= l.maturity
        /\ l.call_time > 0 =>
              l.call_time <= now /\ l.accrual_start_time <= l.call_time + l.call_window

(* A borrower keeps the time it agreed to: no sequence of calls, partial   *)
(* liquidations, transfers and sales of the loan between lenders makes a   *)
(* loan default at or before the time its borrower last accepted.          *)
BorrowerTermKept == \A l \in loans : Defaulted(l) => now > l.agreed_until

(* What keeps a loan sound through any sequence of operations: it always   *)
(* has collateral (no ltv divides by zero), its ltvs leave room for a      *)
(* partial liquidation, its settlement fee is part of the interest, and    *)
(* neither its maturity nor a call, made or to be made, ends it before the *)
(* time its borrower accepted.                                             *)
TermsSound ==
    \A l \in loans :
        /\ l.collateral_amount > 0
        /\ l.liquidation_ltv > 0 => l.liquidation_ltv > l.initial_ltv
        /\ l.protocol_settlement_fee <= BPS
        /\ l.agreed_until <= l.maturity
        /\ l.call_time > 0 => l.agreed_until <= l.call_time + l.call_window
        /\ l.call_time = 0 /\ l.call_eligibility > 0 =>
              l.agreed_until <= l.start_time + l.call_eligibility + l.call_window

(* Collateral is where the books say: what each vault holds beyond what it *)
(* owes to wallets is exactly the collateral of its borrower's loans, so a *)
(* repaid or liquidated loan always finds its collateral.                  *)
CollateralBacked ==
    \A b \in Borrowers :
        Unclaimed(vaults[b])
            = SumFunction([l \in {m \in loans : m.borrower = b} |-> l.collateral_amount])

(* The contract keeps no payment tokens but those whose transfer failed:   *)
(* every operation pays out all it takes in, and every pending transfer    *)
(* can be claimed.                                                         *)
FundsAccounted == funds.cash = SumFunction(funds.pending)

PrincipalLent(key) ==
    SumFunction([l \in {m \in loans : LiquidityKey(m.lender, m.offer_tracing_id) = key}
                    |-> l.amount])

(* commited_liquidity is the principal of the live loans, through every    *)
(* creation, repayment, refinancing and transfer, as long as none of the   *)
(* key's loans was liquidated; no lender has lent more through its offers  *)
(* than the largest of them allows.                                        *)
LiquidityRespected ==
    \A key \in LiquidityKeys \ drifted :
        /\ commited_liquidity[key] = PrincipalLent(key)
        /\ \E o \in OfferIds :
              /\ LiquidityKey(Offer[o].lender, Offer[o].tracing_id) = key
              /\ PrincipalLent(key) <= Offer[o].available_liquidity

(* An offer made to one borrower is spent by its first use: it never backs *)
(* two loans at once, and whatever it backs it cannot be used again.       *)
NamedOfferUsedOnce ==
    \A l \in loans : Offer[l.offer_id].borrower # NoOne =>
        /\ l.offer_id \in revoked_offers
        /\ \A m \in loans : m.offer_id = l.offer_id => m = l

Liquidatable(loan) == loan.collateral_amount > 0 /\ LtvReached(loan)

(* No operation takes a loan from safe to liquidatable: only time and the  *)
(* oracle do.  A loan that is created, refinanced, sold, called, reduced   *)
(* in collateral or partially liquidated can be liquidated right after     *)
(* only if the step took over a loan that already could be.                *)
OperationsKeepLoansSafe ==
    [][\A l \in loans' \ loans :
          rate'.num > 0 /\ Liquidatable(l)' => \E m \in loans \ loans' : Liquidatable(m)]_vars

(* No collateral gets stuck: whatever happened before, anyone can          *)
(* liquidate a defaulted loan while the oracle answers, and the borrower   *)
(* can repay any other one even when it does not.                          *)
LoansCanBeClosed ==
    \A l \in loans :
        IF Defaulted(l)
        THEN OracleAnswers /\ config.liquidation_addr = LiquidationFacet =>
                \A tx \in Txs, refused \in SUBSET Refusals :
                    LiquidationPossible(Actor(tx), l, refused)
        ELSE SettlementPossible(l)
=============================================================================
