------------------------ MODULE P2PLendingVaultedBase ------------------------
(***************************************************************************)
(* State and shared steps of the vaulted lending protocol: the storage     *)
(* that P2PLendingVaultedErc20 and its two facets share through            *)
(* delegatecall, the borrowers' vaults, the token balances the contract    *)
(* relies on, the oracle and the clock.                                    *)
(*                                                                         *)
(* A transaction is one action.  A call that reverts changes nothing, so   *)
(* its asserts are the action's guard; a checked subtraction that          *)
(* AccrualWithinTerm or a proof about LendingMath shows to be              *)
(* non-negative has no guard of its own.  A transferFrom that fails        *)
(* reverts, so the payers' balances are not kept.  A `transfer` that fails *)
(* does not revert: `refused` is the set of <<token, wallet>> whose        *)
(* transfers fail in that transaction.                                     *)
(*                                                                         *)
(* Only offers signed by their lender and naming this market's tokens and  *)
(* oracle are in OfferIds: the others always revert.                       *)
(***************************************************************************)
EXTENDS LendingMath, P2PLendingVault

CONSTANTS
    NoOne,             \* empty(address)
    Borrowers,         \* accounts that may borrow
    Txs,               \* transactions' senders and origins
    OfferIds, Offer,   \* the signed offers: id -> contents
    Attestations,      \* the KYC validations signed by the validator
    Principals,        \* principal arguments tried
    CollateralAmounts, \* collateral arguments tried when a loan is made
    CollateralSteps,   \* collateral arguments tried when a loan's is changed
    MaxCollateral,     \* bound of a loan's collateral
    OracleRates,       \* rates the oracle may report; num = 0 is an answer <= 0
    Refusals,          \* <<token, wallet>> whose transfers may fail
    MaxTime            \* bound of the clock

OfferRecord ==
    [principal: Nat, apr: Nat, duration: Nat, origination_fee_bps: Nat,
     min_collateral_amount: Nat, max_iltv: Nat, available_liquidity: Nat,
     call_eligibility: Nat, call_window: Nat, liquidation_ltv: Nat,
     expiration: Nat, lender: Wallets, borrower: Wallets \cup {NoOne},
     tracing_id: STRING]

\* initial_amount, the fee amounts paid at origination, the tokens and the
\* oracle are recorded in the source's Loan too, but no operation reads them.
\* agreed_until is a history field: the time up to which the borrower accepted
\* that the loan cannot default (see BorrowerTermKept).
LoanRecord ==
    [offer_id: OfferIds, offer_tracing_id: STRING, amount: Nat, apr: Nat,
     maturity: Nat, start_time: Nat, accrual_start_time: Nat,
     borrower: Borrowers, lender: Wallets,
     collateral_amount: Nat, min_collateral_amount: Nat,
     protocol_settlement_fee: Nat, partial_liquidation_fee: Nat,
     full_liquidation_fee: Nat, call_eligibility: Nat, call_window: Nat,
     liquidation_ltv: Nat, initial_ltv: Nat, call_time: Nat, agreed_until: Nat]

LiquidityKeys == {<<Offer[o].lender, Offer[o].tracing_id>> : o \in OfferIds}

ASSUME BaseAssumption ==
    /\ Borrowers \subseteq Wallets
    /\ NoOne \notin Wallets
    /\ \A tx \in Txs : {tx.sender, tx.origin} \subseteq Wallets
    /\ Offer \in [OfferIds -> OfferRecord]
    /\ Attestations \subseteq [wallet: Wallets, expiration: Nat]
    /\ Principals \subseteq Nat
    /\ CollateralAmounts \subseteq Nat /\ CollateralSteps \subseteq Nat
    /\ MaxCollateral \in Nat
    /\ OracleRates \subseteq [num: Nat, den: Nat \ {0}]
    /\ Refusals \subseteq {"payment", "collateral"} \X Wallets
    /\ MaxTime \in Nat

VARIABLES
    config,              \* owner, fees, protocol wallet, proxies, facets, ...
    loans,               \* the loans whose state hash is stored
    commited_liquidity,  \* <<lender, tracing_id>> -> principal lent out
    revoked_offers,      \* ids of the offers that cannot be used again
    funds,               \* the contract's payment tokens and pending_transfers
    vaults,              \* borrower -> storage of its vault
    rate,                \* what the oracle reports
    now,                 \* block.timestamp
    drifted              \* history: liquidity keys that a liquidation touched

vars == <<config, loans, commited_liquidity, revoked_offers, funds, vaults, rate, now, drifted>>

environment == <<rate, now>>

-----------------------------------------------------------------------------
(* Loans.                                                                  *)

\* _compute_loan_id: what the hash is taken of.
LoanId(loan) == <<loan.borrower, loan.lender, loan.start_time, loan.offer_id>>

Exists(loan) == \E l \in loans : LoanId(l) = LoanId(loan)

\* loans[loan.id] = hash(loan), in a set of loans: whatever was there is gone.
Stored(ls, loan) == {l \in ls : LoanId(l) # LoanId(loan)} \cup {loan}

\* Fault: a call that was not answered does not default the loan.
FaultyDefaulted(loan) == now > loan.maturity

Defaulted(loan) ==
    \/ now > loan.maturity
    \/ loan.call_time > 0 /\ now > loan.call_time + loan.call_window

SettlementInterest(loan) == Interest(loan.amount, loan.apr, now - loan.accrual_start_time)

OutstandingDebt(loan) == loan.amount + SettlementInterest(loan)

CurrentLtv(loan) == Ltv(loan.collateral_amount, OutstandingDebt(loan), rate)

OracleAnswers == rate.num > 0

-----------------------------------------------------------------------------
(* Callers.                                                                *)

\* The account a transaction acts for, in the calls anyone may make.
Actor(tx) == IF tx.sender \in config.authorized_proxies THEN tx.origin ELSE tx.sender

CheckUser(tx, user) ==
    \/ tx.sender = user
    \/ tx.sender \in config.authorized_proxies /\ user = tx.origin

KycValid(wallet) == \E a \in Attestations : a.wallet = wallet /\ a.expiration >= now

-----------------------------------------------------------------------------
(* Offers.                                                                 *)

OfferValid(offer) ==
    /\ offer.expiration > now
    /\ offer.duration > 0
    /\ offer.call_window # 0 \/ offer.call_eligibility = 0
    /\ offer.min_collateral_amount > 0 \/ offer.max_iltv > 0

LiquidityKey(lender, tracing_id) == <<lender, tracing_id>>

\* Fault: the amount is compared without what is committed already.
FaultyOfferUsable(liquidity, id, amount) ==
    /\ id \notin revoked_offers
    /\ amount <= Offer[id].available_liquidity

\* _check_and_update_offer_state, on the liquidity left by the earlier steps
\* of the same transaction.
OfferUsable(liquidity, id, amount) ==
    /\ id \notin revoked_offers
    /\ liquidity[LiquidityKey(Offer[id].lender, Offer[id].tracing_id)] + amount
            <= Offer[id].available_liquidity

Committed(liquidity, id, amount) ==
    [liquidity EXCEPT ![LiquidityKey(Offer[id].lender, Offer[id].tracing_id)] = @ + amount]

\* Fault: offers made to one borrower can be used again.
FaultyRevokedAfterUse(id) == revoked_offers

RevokedAfterUse(id) ==
    IF Offer[id].borrower = NoOne THEN revoked_offers ELSE revoked_offers \cup {id}

\* Fault: no saturation.
FaultyReduced(liquidity, loan, amount) ==
    [liquidity EXCEPT ![LiquidityKey(loan.lender, loan.offer_tracing_id)] = @ - amount]

\* _reduce_commited_liquidity saturates at zero.
Reduced(liquidity, loan, amount) ==
    [liquidity EXCEPT ![LiquidityKey(loan.lender, loan.offer_tracing_id)] =
        IF amount > @ THEN 0 ELSE @ - amount]

-----------------------------------------------------------------------------
(* What create_loan, replace_loan and replace_loan_lender share.           *)

MaxInitialLtv(offer, principal) ==
    IF offer.max_iltv = 0 THEN Ltv(offer.min_collateral_amount, principal, rate)
    ELSE offer.max_iltv

\* Fault: the collateral is not compared with the maximum ltv.
FaultyLtvAccepted(offer, principal, collateral) ==
    /\ OracleAnswers
    /\ collateral > 0
    /\ offer.liquidation_ltv > 0 => offer.liquidation_ltv > MaxInitialLtv(offer, principal)

\* No collateral is a division by zero: it reverts.
LtvAccepted(offer, principal, collateral) ==
    /\ OracleAnswers
    /\ collateral > 0
    /\ Ltv(collateral, principal, rate) <= MaxInitialLtv(offer, principal)
    /\ offer.liquidation_ltv > 0 => offer.liquidation_ltv > MaxInitialLtv(offer, principal)

OfferAccepted(offer, borrower, principal, collateral) ==
    /\ OfferValid(offer)
    /\ KycValid(offer.lender)
    /\ offer.borrower \in {NoOne, borrower}
    /\ offer.principal \in {0, principal}
    /\ offer.min_collateral_amount <= collateral
    /\ offer.origination_fee_bps <= BPS
    /\ LtvAccepted(offer, principal, collateral)

\* The earliest moment up to which terms taken now keep a loan from default.
AgreedUntil(offer) ==
    IF offer.call_eligibility = 0 THEN now + offer.duration
    ELSE now + MinOf(offer.duration, offer.call_eligibility + offer.call_window)

NewLoan(id, borrower, principal, collateral, agreed_until) ==
    LET offer == Offer[id]
    IN  [offer_id |-> id, offer_tracing_id |-> offer.tracing_id,
         amount |-> principal, apr |-> offer.apr,
         maturity |-> now + offer.duration, start_time |-> now, accrual_start_time |-> now,
         borrower |-> borrower, lender |-> offer.lender,
         collateral_amount |-> collateral,
         min_collateral_amount |-> offer.min_collateral_amount,
         protocol_settlement_fee |-> config.protocol_settlement_fee,
         partial_liquidation_fee |-> config.partial_liquidation_fee,
         full_liquidation_fee |-> config.full_liquidation_fee,
         call_eligibility |-> offer.call_eligibility, call_window |-> offer.call_window,
         liquidation_ltv |-> offer.liquidation_ltv,
         initial_ltv |-> MaxInitialLtv(offer, principal),
         call_time |-> 0, agreed_until |-> agreed_until]

-----------------------------------------------------------------------------
(* Payment tokens.  f is the record [cash, pending].                       *)

Received(f, amount) == [f EXCEPT !.cash = @ + amount]

\* _send_funds: a transfer fails when the token refuses the wallet or the
\* contract holds too little, and is then owed.
Sent(f, to, amount, refused) ==
    IF <<"payment", to>> \in refused \/ f.cash < amount
    THEN [f EXCEPT !.pending[to] = @ + amount]
    ELSE [f EXCEPT !.cash = @ - amount]

\* _receive_funds(from, -delta) or _send_funds(to, delta), by the sign of delta.
Settled(f, party, delta, refused) ==
    IF delta < 0 THEN Received(f, -delta) ELSE Sent(f, party, delta, refused)

-----------------------------------------------------------------------------
(* Collateral.  vs is the function borrower -> vault storage.              *)

\* _create_vault_if_needed; a registrar that reverts makes the call revert.
VaultCreated(vs, borrower) == [vs EXCEPT ![borrower].deployed = TRUE]

CollateralRefused(wallet, refused) == <<"collateral", wallet>> \in refused

CollateralReceived(vs, borrower, amount) ==
    [vs EXCEPT ![borrower] = Deposited(@, amount, borrower)]

CollateralSent(vs, borrower, wallet, amount, refused) ==
    [vs EXCEPT ![borrower] = Withdrawn(@, amount, wallet, CollateralRefused(wallet, refused))]

-----------------------------------------------------------------------------
(* The environment: blocks pass and the oracle is updated.                 *)

Tick ==
    /\ now < MaxTime
    /\ now' = now + 1
    /\ UNCHANGED <<config, loans, commited_liquidity, revoked_offers, funds, vaults, rate, drifted>>

OracleUpdate ==
    /\ rate' \in OracleRates \ {rate}
    /\ UNCHANGED <<config, loans, commited_liquidity, revoked_offers, funds, vaults, now, drifted>>
=============================================================================
