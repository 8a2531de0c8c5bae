---------------------- MODULE P2PLendingSecuritizeBase ----------------------
(***************************************************************************)
(* State and shared steps of the Securitize lending protocol.  Every loan  *)
(* has a vault of its own, and its collateral can be redeemed with the     *)
(* issuer while the loan runs: the tokens go to the issuer's wallet, and   *)
(* what comes back to the vault, payment tokens or collateral, counts once *)
(* the owner of the protocol has signed a result that says how much.       *)
(*                                                                         *)
(* What P2PLendingSecuritizeBase has in common with P2PLendingVaultedBase, *)
(* offers, KYC, liquidity, payments, the oracle and the clock, is taken    *)
(* from there.  Here `vaults` is a function of <<borrower, vault_id>>, the *)
(* pair from which _wallet_to_vault computes the vault's address, and that *)
(* pair stands for the address: CREATE2 gives each pair its own.           *)
(***************************************************************************)
EXTENDS P2PLendingVaultedBase

CONSTANTS
    MaxVaults,     \* bound of a borrower's vaults
    MaxMaturity,   \* bound of an extended maturity
    Returns        \* what the issuer may send back: [payment, collateral]

VaultIds == 0..MaxVaults - 1

VaultKeys == Borrowers \X VaultIds

\* The call fields of the source's Loan are 0 in every loan.  `returned` is a
\* history field: the issuer has sent back what it redeemed.
SecuritizeLoan ==
    [offer_id: OfferIds, offer_tracing_id: STRING, amount: Nat, apr: Nat,
     maturity: Nat, start_time: Nat, accrual_start_time: Nat,
     borrower: Borrowers, lender: Wallets,
     collateral_amount: Nat, min_collateral_amount: Nat,
     protocol_settlement_fee: Nat, partial_liquidation_fee: Nat,
     full_liquidation_fee: Nat, liquidation_ltv: Nat, initial_ltv: Nat,
     vault_id: VaultIds, redeem_start: Nat, redeem_residual_collateral: Nat,
     returned: BOOLEAN]

\* A RedeemResult and the account whose signature it carries.
RedeemResult ==
    [vault: VaultKeys, collateral_redeemed: Nat, payment_redeemed: Nat,
     timestamp: Nat, signer: Wallets]

ASSUME SecuritizeAssumption ==
    /\ MaxVaults \in Nat /\ MaxMaturity \in Nat
    /\ VaultKeys \subseteq Wallets \ Borrowers
    /\ Returns \subseteq [payment: Nat, collateral: Nat]

VARIABLES
    vault_count,   \* borrower -> how many of its vaults have had a loan
    proceeds,      \* vault -> payment tokens it holds
    results        \* the redeem results that were signed

redemptions == <<proceeds, results>>

secVars == <<vars, vault_count, redemptions>>

VaultOf(loan) == <<loan.borrower, loan.vault_id>>

Matured(loan) == now > loan.maturity

Redeemed(loan) == loan.redeem_start > 0

SentToIssuer(loan) == loan.collateral_amount - loan.redeem_residual_collateral

-----------------------------------------------------------------------------
(* Redeem results.                                                         *)

\* What a caller passes for a loan that was not redeemed.
NoResult == [collateral_redeemed |-> 0, payment_redeemed |-> 0]

\* Fault: any signed result of the vault's borrower will do.
FaultyConcluding(loan) ==
    {r \in results : /\ r.timestamp >= loan.redeem_start
                     /\ r.vault[1] = loan.borrower
                     /\ r.signer = config.owner}

\* _is_loan_redeem_concluded.
Concluding(loan) ==
    {r \in results : /\ r.timestamp >= loan.redeem_start
                     /\ r.vault = VaultOf(loan)
                     /\ r.signer = config.owner}

ResultsFor(loan) == IF Redeemed(loan) THEN Concluding(loan) ELSE {NoResult}

InVaultPayment(loan, result) ==
    IF Redeemed(loan) THEN result.payment_redeemed ELSE 0

InVaultCollateral(loan, result) ==
    IF Redeemed(loan) THEN loan.redeem_residual_collateral + result.collateral_redeemed
    ELSE loan.collateral_amount

\* _get_redeem_balances: the vault holds what the result says.
BalancesConfirmed(loan, result) ==
    Redeemed(loan) =>
        /\ proceeds[VaultOf(loan)] >= InVaultPayment(loan, result)
        /\ Unclaimed(vaults[VaultOf(loan)]) >= InVaultCollateral(loan, result)

\* withdraw_funds.
FundsWithdrawn(key, amount) == [proceeds EXCEPT ![key] = @ - amount]

-----------------------------------------------------------------------------
(* Vaults.                                                                 *)

CollateralPaidIn(vs, key, amount) == [vs EXCEPT ![key] = Deposited(@, amount, key[1])]

\* Fault: the count stays, and the next loan uses the same vault.
FaultyCounted(borrower) == vault_count

\* _create_new_vault.
Counted(borrower) == [vault_count EXCEPT ![borrower] = @ + 1]

-----------------------------------------------------------------------------
(* What create_loan, replace_loan and replace_loan_lender share.           *)

HealingPossible(offer, principal) ==
    offer.liquidation_ltv > 0 =>
        ~Unhealable(MaxInitialLtv(offer, principal), config.partial_liquidation_fee)

RedeemableOfferAccepted(offer, borrower, principal, collateral) ==
    /\ OfferAccepted(offer, borrower, principal, collateral)
    /\ offer.call_eligibility = 0 /\ offer.call_window = 0
    /\ HealingPossible(offer, principal)

NewRedeemableLoan(id, borrower, principal, collateral, vault_id) ==
    LET offer == Offer[id]
    IN  [offer_id |-> id, offer_tracing_id |-> offer.tracing_id,
         amount |-> principal, apr |-> offer.apr,
         maturity |-> now + offer.duration, start_time |-> now, accrual_start_time |-> now,
         borrower |-> borrower, lender |-> offer.lender,
         collateral_amount |-> collateral,
         min_collateral_amount |-> offer.min_collateral_amount,
         protocol_settlement_fee |-> config.protocol_settlement_fee,
         partial_liquidation_fee |-> config.partial_liquidation_fee,
         full_liquidation_fee |-> config.full_liquidation_fee,
         liquidation_ltv |-> offer.liquidation_ltv,
         initial_ltv |-> MaxInitialLtv(offer, principal),
         vault_id |-> vault_id, redeem_start |-> 0, redeem_residual_collateral |-> 0,
         returned |-> FALSE]
=============================================================================
