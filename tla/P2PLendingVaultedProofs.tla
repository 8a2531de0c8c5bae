----------------------- MODULE P2PLendingVaultedProofs -----------------------
(***************************************************************************)
(* What the vaulted protocol guarantees for every set of accounts, offers, *)
(* fees, amounts, rates and refused transfers.                             *)
(*                                                                         *)
(* The inductive invariant Inv adds to the type invariant what a step      *)
(* needs of the loan it starts from: interest accrues from a moment within *)
(* the loan's term, the collateral is not zero, the initial ltv is below   *)
(* the liquidation ltv, the settlement fee is at most BPS, the terms the   *)
(* borrower accepted are kept, the loan's offer is its lender's, an offer  *)
(* made to one borrower is spent.                                          *)
(***************************************************************************)
EXTENDS P2PLendingVaultedErc20, P2PLendingVaultedBaseProofs

\* Nothing is paid into a vault before it is deployed.
Opened(v) == v.deployed \/ v.balance = 0

VaultsOK(vs) ==
    /\ vs \in [Borrowers -> VaultRecord]
    /\ \A b \in Borrowers : vs[b].total <= vs[b].balance /\ Summed(vs[b]) /\ Opened(vs[b])

\* A loan at time t.
SoundLoan(l, t) ==
    /\ l \in LoanRecord
    /\ l.lender = Offer[l.offer_id].lender
    /\ l.offer_tracing_id = Offer[l.offer_id].tracing_id
    /\ l.start_time <= l.accrual_start_time
    /\ l.accrual_start_time <= t
    /\ l.accrual_start_time <= l.maturity
    /\ l.call_time > 0 =>
          l.call_time <= t /\ l.accrual_start_time <= l.call_time + l.call_window
    /\ l.collateral_amount > 0
    /\ l.liquidation_ltv > 0 => l.liquidation_ltv > l.initial_ltv
    /\ l.protocol_settlement_fee <= BPS
    /\ l.agreed_until <= l.maturity
    /\ l.call_time > 0 => l.agreed_until <= l.call_time + l.call_window
    /\ l.call_time = 0 /\ l.call_eligibility > 0 =>
          l.agreed_until <= l.start_time + l.call_eligibility + l.call_window

LoansOK(ls, t) == \A l \in ls : SoundLoan(l, t)

\* Offers made to one borrower back at most one loan of ls and are in revoked.
NamedOK(ls, revoked) ==
    \A l \in ls : Offer[l.offer_id].borrower # NoOne =>
        /\ l.offer_id \in revoked
        /\ \A m \in ls : m.offer_id = l.offer_id => m = l

Inv ==
    /\ config \in ConfigRecord
    /\ LoansOK(loans, now)
    /\ commited_liquidity \in [LiquidityKeys -> Nat]
    /\ revoked_offers \subseteq OfferIds
    /\ NamedOK(loans, revoked_offers)
    /\ funds \in Funds /\ Unowed(funds) = 0
    /\ VaultsOK(vaults)
    /\ rate \in OracleRates
    /\ now \in Nat
    /\ drifted \subseteq LiquidityKeys

-----------------------------------------------------------------------------
(* Vaults.                                                                 *)

LEMMA VaultCreatedOK ==
  ASSUME NEW vs, VaultsOK(vs), NEW b \in Borrowers
  PROVE  VaultsOK(VaultCreated(vs, b))
  BY DEF VaultsOK, VaultCreated, VaultRecord, Summed, Opened

LEMMA CollateralReceivedOK ==
  ASSUME NEW vs, VaultsOK(vs), NEW b \in Borrowers, NEW amount \in Nat,
         DepositAllowed(vs[b], amount, b)
  PROVE  VaultsOK(CollateralReceived(vs, b, amount))
  <1>1. vs[b] \in VaultRecord /\ vs[b].total <= vs[b].balance /\ b \in Wallets /\ Summed(vs[b])
    BY BaseAssumption DEF VaultsOK
  <1>2. /\ Deposited(vs[b], amount, b) \in VaultRecord
        /\ Deposited(vs[b], amount, b).total <= Deposited(vs[b], amount, b).balance
        /\ Summed(Deposited(vs[b], amount, b))
    BY <1>1, DepositSafe, DepositSummed
  <1>3. Opened(Deposited(vs[b], amount, b))
    BY <1>1 DEF DepositAllowed, Deposited, VaultRecord, Opened
  <1> QED BY <1>2, <1>3 DEF VaultsOK, CollateralReceived

LEMMA CollateralSentOK ==
  ASSUME NEW vs, VaultsOK(vs), NEW b \in Borrowers, NEW amount \in Nat,
         NEW wallet \in Wallets, NEW refused, WithdrawAllowed(vs[b], amount)
  PROVE  VaultsOK(CollateralSent(vs, b, wallet, amount, refused))
  <1> DEFINE r == CollateralRefused(wallet, refused)
  <1>1. vs[b] \in VaultRecord /\ vs[b].total <= vs[b].balance /\ Summed(vs[b])
    BY DEF VaultsOK
  <1>2. r \in BOOLEAN
    BY DEF CollateralRefused
  <1> HIDE DEF r
  <1>3. /\ Withdrawn(vs[b], amount, wallet, r) \in VaultRecord
        /\ Withdrawn(vs[b], amount, wallet, r).total
             <= Withdrawn(vs[b], amount, wallet, r).balance
        /\ Summed(Withdrawn(vs[b], amount, wallet, r))
    BY <1>1, <1>2, WithdrawSafe, WithdrawSummed
  <1>4. Opened(Withdrawn(vs[b], amount, wallet, r))
    BY <1>1 DEF WithdrawAllowed, Withdrawn, VaultRecord, Opened
  <1> QED BY <1>3, <1>4 DEF VaultsOK, CollateralSent, r

LEMMA CollateralMovedOK ==
  ASSUME VaultsOK(vaults), NEW loan, NEW new_borrower \in Borrowers, NEW refused,
         loan.borrower \in Borrowers, loan.collateral_amount \in Nat,
         new_borrower # loan.borrower,
         WithdrawAllowed(vaults[loan.borrower], loan.collateral_amount)
  PROVE  VaultsOK(CollateralMoved(loan, new_borrower, refused))
  <1> DEFINE vault == VaultAddress[new_borrower]
             created == VaultCreated(vaults, new_borrower)
             arrived == IF CollateralRefused(vault, refused) THEN 0
                        ELSE loan.collateral_amount
             sent == CollateralSent(created, loan.borrower, vault,
                                    loan.collateral_amount, refused)
  <1>1. vault \in Wallets
    BY VaultAddressAssumption
  <1>2. VaultsOK(created)
    BY VaultCreatedOK
  <1>3. created[loan.borrower] = vaults[loan.borrower] /\ created[new_borrower].deployed
    BY DEF VaultCreated, VaultsOK, VaultRecord
  <1>4. arrived \in Nat
    OBVIOUS
  <1> HIDE DEF vault, created, arrived
  <1>5. VaultsOK(sent)
    BY <1>1, <1>2, <1>3, CollateralSentOK
  <1>6. CollateralMoved(loan, new_borrower, refused)
          = [sent EXCEPT ![new_borrower].balance = @ + arrived]
    BY DEF CollateralMoved, vault, created, arrived
  <1>7. sent[new_borrower].deployed
    <2> DEFINE v == Withdrawn(created[loan.borrower], loan.collateral_amount, vault,
                              CollateralRefused(vault, refused))
    <2>1. sent = [created EXCEPT ![loan.borrower] = v]
      BY DEF CollateralSent
    <2> HIDE DEF v, sent
    <2>2. sent[new_borrower] = created[new_borrower]
      BY <1>2, <2>1 DEF VaultsOK
    <2> QED BY <1>3, <2>2
  <1> HIDE DEF sent
  <1> DEFINE v == [sent[new_borrower] EXCEPT !.balance = @ + arrived]
  <1>8. /\ sent \in [Borrowers -> VaultRecord]
        /\ \A b \in Borrowers : sent[b].total <= sent[b].balance /\ Summed(sent[b])
                                /\ Opened(sent[b])
    BY <1>5 DEF VaultsOK
  <1>9. v \in VaultRecord /\ v.total <= v.balance /\ Summed(v) /\ Opened(v)
    BY <1>4, <1>7, <1>8 DEF VaultRecord, Summed, Opened
  <1>10. CollateralMoved(loan, new_borrower, refused) = [sent EXCEPT ![new_borrower] = v]
    BY <1>6, <1>8
  <1> HIDE DEF v
  <1> QED BY <1>8, <1>9, <1>10 DEF VaultsOK

-----------------------------------------------------------------------------
(* The book of loans.                                                      *)

\* Time passing keeps a loan sound.
LEMMA SoundLater ==
  ASSUME NEW t \in Nat, NEW u \in Nat, t <= u, NEW l, SoundLoan(l, t)
  PROVE  SoundLoan(l, u)
  BY DEF SoundLoan, LoanRecord

LEMMA LoansUpdated ==
  ASSUME NEW t, NEW ls, LoansOK(ls, t), NEW new, SoundLoan(new, t),
         NEW rs, rs \subseteq ls \cup {new}
  PROVE  LoansOK(rs, t)
  BY DEF LoansOK

\* One loan changes, under the same offer.
LEMMA NamedUpdated ==
  ASSUME NEW ls, NEW revoked, NamedOK(ls, revoked), NEW loan \in ls, NEW new,
         new.offer_id = loan.offer_id, NEW rs, rs \subseteq (ls \ {loan}) \cup {new}
  PROVE  NamedOK(rs, revoked)
  BY DEF NamedOK

\* A loan is made from an offer that was not revoked.
LEMMA NamedUsed ==
  ASSUME NEW ls, NamedOK(ls, revoked_offers), NEW new, new.offer_id \notin revoked_offers,
         NEW rs, rs \subseteq ls \cup {new}
  PROVE  NamedOK(rs, RevokedAfterUse(new.offer_id))
  <1>1. revoked_offers \subseteq RevokedAfterUse(new.offer_id)
    BY DEF RevokedAfterUse
  <1>2. Offer[new.offer_id].borrower # NoOne => new.offer_id \in RevokedAfterUse(new.offer_id)
    BY DEF RevokedAfterUse
  <1> QED BY <1>1, <1>2 DEF NamedOK

LEMMA StoredIn ==
  ASSUME NEW ls, NEW new
  PROVE  /\ Stored(ls, new) \subseteq ls \cup {new}
         /\ \A l \in ls : LoanId(l) = LoanId(new) =>
               Stored(ls, new) \subseteq (ls \ {l}) \cup {new}
  BY DEF Stored

-----------------------------------------------------------------------------
(* What a sound loan owes and what new terms make of it.                   *)

LEMMA DebtNat ==
  ASSUME now \in Nat, NEW loan, SoundLoan(loan, now)
  PROVE  /\ SettlementInterest(loan) \in Nat
         /\ OutstandingDebt(loan) \in Nat
         /\ loan.amount <= OutstandingDebt(loan)
         /\ SettlementInterest(loan) <= OutstandingDebt(loan)
         /\ ProtocolSettlementFee(loan) \in Nat
         /\ ProtocolSettlementFee(loan) <= SettlementInterest(loan)
  <1>1. /\ loan.amount \in Nat /\ loan.apr \in Nat
        /\ now - loan.accrual_start_time \in Nat
        /\ loan.protocol_settlement_fee \in 0..BPS
    BY MathAssumption DEF SoundLoan, LoanRecord
  <1>2. SettlementInterest(loan) \in Nat
    BY <1>1, InterestNat DEF SettlementInterest
  <1>3. /\ ProtocolSettlementFee(loan) \in Nat
        /\ ProtocolSettlementFee(loan) <= SettlementInterest(loan)
    BY <1>1, <1>2, FeeBound DEF ProtocolSettlementFee
  <1> QED BY <1>1, <1>2, <1>3 DEF OutstandingDebt

LEMMA MaxInitialLtvNat ==
  ASSUME rate \in OracleRates, OracleAnswers, NEW offer \in OfferRecord,
         OfferValid(offer), NEW principal \in Nat
  PROVE  MaxInitialLtv(offer, principal) \in Nat
  <1>1. offer.max_iltv \in Nat /\ offer.min_collateral_amount \in Nat
    BY DEF OfferRecord
  <1>2. CASE offer.max_iltv = 0
    <2>1. offer.min_collateral_amount \in Nat \ {0}
      BY <1>1, <1>2 DEF OfferValid
    <2> QED BY <1>2, <2>1, LtvNat, RateTyped DEF MaxInitialLtv
  <1>3. CASE offer.max_iltv # 0
    BY <1>1, <1>3 DEF MaxInitialLtv
  <1> QED BY <1>2, <1>3

LEMMA AgreedUntilBounds ==
  ASSUME now \in Nat, NEW offer \in OfferRecord
  PROVE  /\ AgreedUntil(offer) \in Nat
         /\ AgreedUntil(offer) <= now + offer.duration
         /\ offer.call_eligibility > 0 =>
               AgreedUntil(offer) <= now + offer.call_eligibility + offer.call_window
  BY DEF AgreedUntil, MinOf, OfferRecord

\* A loan made on an accepted offer is sound, up to the time it is promised to
\* last.
LEMMA NewLoanSound ==
  ASSUME Inv, NEW id \in OfferIds, NEW borrower \in Borrowers, NEW principal \in Nat,
         NEW collateral \in Nat, NEW until \in Nat,
         OfferAccepted(Offer[id], borrower, principal, collateral),
         until <= now + Offer[id].duration,
         Offer[id].call_eligibility > 0 =>
            until <= now + Offer[id].call_eligibility + Offer[id].call_window
  PROVE  SoundLoan(NewLoan(id, borrower, principal, collateral, until), now)
  <1> DEFINE offer == Offer[id]
             ltv == MaxInitialLtv(offer, principal)
             new == NewLoan(id, borrower, principal, collateral, until)
  <1>1. offer \in OfferRecord
    BY OfferTyped
  <1>2. /\ now \in Nat /\ rate \in OracleRates
        /\ config.protocol_settlement_fee \in Nat /\ config.protocol_settlement_fee <= BPS
        /\ config.partial_liquidation_fee \in Nat /\ config.full_liquidation_fee \in Nat
    BY ConfigAssumption, LimitsAssumption, MathAssumption DEF Inv, ConfigRecord
  <1>3. /\ OracleAnswers /\ OfferValid(offer) /\ collateral > 0
        /\ offer.liquidation_ltv > 0 => offer.liquidation_ltv > ltv
    BY DEF OfferAccepted, LtvAccepted
  <1>4. ltv \in Nat
    BY <1>1, <1>2, <1>3, MaxInitialLtvNat
  <1>5. /\ offer.apr \in Nat /\ offer.duration \in Nat
        /\ offer.min_collateral_amount \in Nat /\ offer.call_eligibility \in Nat
        /\ offer.call_window \in Nat /\ offer.liquidation_ltv \in Nat
        /\ offer.lender \in Wallets /\ offer.tracing_id \in STRING
    BY <1>1 DEF OfferRecord
  <1>6. now + offer.duration \in Nat
    BY <1>2, <1>5
  <1>7. new \in LoanRecord
    <2> HIDE DEF ltv
    <2> QED BY <1>2, <1>4, <1>5, <1>6 DEF NewLoan, LoanRecord, ltv
  <1>8. /\ new.offer_id = id /\ new.lender = offer.lender
        /\ new.offer_tracing_id = offer.tracing_id
        /\ new.start_time = now /\ new.accrual_start_time = now
        /\ new.maturity = now + offer.duration /\ new.call_time = 0
        /\ new.collateral_amount = collateral
        /\ new.liquidation_ltv = offer.liquidation_ltv /\ new.initial_ltv = ltv
        /\ new.protocol_settlement_fee = config.protocol_settlement_fee
        /\ new.agreed_until = until /\ new.call_eligibility = offer.call_eligibility
        /\ new.call_window = offer.call_window
    BY DEF NewLoan
  <1> HIDE DEF new, ltv
  <1>9. SoundLoan(new, now)
    BY <1>2, <1>3, <1>4, <1>5, <1>6, <1>7, <1>8 DEF SoundLoan
  <1> QED BY <1>9 DEF new

\* The terms a lender may sell a loan under end no earlier than the borrower
\* accepted.
LEMMA SaleKeepsTerm ==
  ASSUME now \in Nat, NEW loan, SoundLoan(loan, now), NEW id \in OfferIds,
         NEW borrower, NEW principal, NEW collateral, NEW until,
         TermsNotWorse(loan, NewLoan(id, borrower, principal, collateral, until))
  PROVE  /\ loan.agreed_until <= now + Offer[id].duration
         /\ Offer[id].call_eligibility > 0 =>
               loan.agreed_until <= now + Offer[id].call_eligibility + Offer[id].call_window
  <1> DEFINE new == NewLoan(id, borrower, principal, collateral, until)
             offer == Offer[id]
  <1>1. /\ loan.agreed_until \in Nat /\ loan.maturity \in Nat /\ loan.start_time \in Nat
        /\ loan.call_eligibility \in Nat /\ loan.call_window \in Nat /\ loan.call_time \in Nat
    BY DEF SoundLoan, LoanRecord
  <1>2. RepaymentTime(loan) \in Nat /\ loan.agreed_until <= RepaymentTime(loan)
    BY <1>1 DEF SoundLoan, RepaymentTime, MinOf, MaxOf
  <1>3. RepaymentTime(new) >= RepaymentTime(loan)
    BY DEF TermsNotWorse
  <1>4. /\ new.maturity = now + offer.duration /\ new.start_time = now /\ new.call_time = 0
        /\ new.call_eligibility = offer.call_eligibility
        /\ new.call_window = offer.call_window
    BY DEF NewLoan
  <1>5. offer.duration \in Nat /\ offer.call_eligibility \in Nat /\ offer.call_window \in Nat
    BY OfferTyped DEF OfferRecord
  <1> HIDE DEF new, offer
  <1>6. /\ RepaymentTime(new) <= now + offer.duration
        /\ offer.call_eligibility > 0 =>
              RepaymentTime(new) <= now + offer.call_eligibility + offer.call_window
    BY <1>4, <1>5 DEF RepaymentTime, MinOf, MaxOf
  <1>7. RepaymentTime(new) \in Nat
    BY <1>4, <1>5 DEF RepaymentTime, MinOf, MaxOf
  <1> QED BY <1>1, <1>2, <1>3, <1>5, <1>6, <1>7 DEF offer

\* Changes an operation makes to a live loan.
LEMMA CalledSound ==
  ASSUME now \in Nat, NEW loan, SoundLoan(loan, now), loan.call_eligibility > 0,
         loan.call_time = 0, now >= loan.start_time + loan.call_eligibility
  PROVE  SoundLoan([loan EXCEPT !.call_time = now], now)
  <1> DEFINE new == [loan EXCEPT !.call_time = now]
  <1>1. new \in LoanRecord
    BY DEF SoundLoan, LoanRecord
  <1>2. new.call_time = now
    BY DEF SoundLoan, LoanRecord
  <1>3. /\ new.lender = loan.lender /\ new.offer_id = loan.offer_id
        /\ new.offer_tracing_id = loan.offer_tracing_id
        /\ new.start_time = loan.start_time /\ new.maturity = loan.maturity
        /\ new.accrual_start_time = loan.accrual_start_time
        /\ new.collateral_amount = loan.collateral_amount
        /\ new.liquidation_ltv = loan.liquidation_ltv
        /\ new.initial_ltv = loan.initial_ltv
        /\ new.protocol_settlement_fee = loan.protocol_settlement_fee
        /\ new.agreed_until = loan.agreed_until
        /\ new.call_eligibility = loan.call_eligibility
        /\ new.call_window = loan.call_window
    OBVIOUS
  <1>4. /\ loan.start_time \in Nat /\ loan.accrual_start_time \in Nat
        /\ loan.agreed_until \in Nat /\ loan.call_window \in Nat
        /\ loan.call_eligibility \in Nat
    BY DEF SoundLoan, LoanRecord
  <1> HIDE DEF new
  <1>5. SoundLoan(new, now)
    BY <1>1, <1>2, <1>3, <1>4 DEF SoundLoan
  <1> QED BY <1>5 DEF new

LEMMA CollateralChangedSound ==
  ASSUME NEW t, NEW loan, SoundLoan(loan, t), NEW amount \in Nat \ {0}
  PROVE  SoundLoan([loan EXCEPT !.collateral_amount = amount], t)
  BY DEF SoundLoan, LoanRecord

LEMMA TransferredSound ==
  ASSUME NEW t, NEW loan, SoundLoan(loan, t), NEW borrower \in Borrowers
  PROVE  SoundLoan([loan EXCEPT !.borrower = borrower], t)
  BY DEF SoundLoan, LoanRecord

LEMMA ReducedLoanSound ==
  ASSUME now \in Nat, NEW loan, SoundLoan(loan, now), ~Defaulted(loan),
         NEW amount \in Nat, NEW collateral \in Nat \ {0}
  PROVE  SoundLoan([loan EXCEPT !.amount = amount, !.accrual_start_time = now,
                                !.collateral_amount = collateral], now)
  <1> DEFINE new == [loan EXCEPT !.amount = amount, !.accrual_start_time = now,
                                 !.collateral_amount = collateral]
  <1>1. new \in LoanRecord
    BY DEF SoundLoan, LoanRecord
  <1>2. new.accrual_start_time = now /\ new.collateral_amount = collateral
    BY DEF SoundLoan, LoanRecord
  <1>3. /\ new.lender = loan.lender /\ new.offer_id = loan.offer_id
        /\ new.offer_tracing_id = loan.offer_tracing_id
        /\ new.start_time = loan.start_time /\ new.maturity = loan.maturity
        /\ new.call_time = loan.call_time
        /\ new.liquidation_ltv = loan.liquidation_ltv
        /\ new.initial_ltv = loan.initial_ltv
        /\ new.protocol_settlement_fee = loan.protocol_settlement_fee
        /\ new.agreed_until = loan.agreed_until
        /\ new.call_eligibility = loan.call_eligibility
        /\ new.call_window = loan.call_window
    OBVIOUS
  <1>4. /\ loan.start_time \in Nat /\ loan.accrual_start_time \in Nat
        /\ loan.start_time <= now /\ loan.maturity \in Nat
        /\ loan.call_time \in Nat /\ loan.call_window \in Nat
    BY DEF SoundLoan, LoanRecord
  <1>5. now <= loan.maturity /\ (loan.call_time > 0 => now <= loan.call_time + loan.call_window)
    BY <1>4 DEF Defaulted
  <1> HIDE DEF new
  <1>6. SoundLoan(new, now)
    BY <1>1, <1>2, <1>3, <1>4, <1>5 DEF SoundLoan
  <1> QED BY <1>6 DEF new

-----------------------------------------------------------------------------
(* The payments of the operations.                                         *)

\* What is used of the invariant to type payments about a loan.
LEMMA LoanParties ==
  ASSUME Inv, NEW loan \in loans
  PROVE  /\ SoundLoan(loan, now) /\ now \in Nat
         /\ loan.borrower \in Borrowers /\ loan.borrower \in Wallets
         /\ loan.lender \in Wallets
         /\ config.protocol_wallet \in Wallets
         /\ loan.collateral_amount \in Nat /\ loan.collateral_amount > 0
         /\ loan.amount \in Nat
         /\ LiquidityKey(loan.lender, loan.offer_tracing_id) \in LiquidityKeys
  <1>1. SoundLoan(loan, now) /\ now \in Nat
    BY DEF Inv, LoansOK
  <1>2. LiquidityKey(loan.lender, loan.offer_tracing_id) \in LiquidityKeys
    BY <1>1, OfferTyped DEF SoundLoan, LoanRecord
  <1>3. config.protocol_wallet \in Wallets
    BY DEF Inv, ConfigRecord
  <1> QED BY <1>1, <1>2, <1>3, BaseAssumption DEF SoundLoan, LoanRecord

LEMMA NewTerms ==
  ASSUME Inv, NEW loan \in loans, NEW id \in OfferIds, NEW principal \in Nat
  PROVE  /\ NewPrincipal(loan, principal) \in Nat
         /\ \A p \in Nat : /\ Fee(Offer[id].origination_fee_bps, p) \in Nat
                           /\ Fee(config.protocol_upfront_fee, p) \in Nat
                           /\ NewLenderDelta(Offer[id], p) \in Int
  <1>1. NewPrincipal(loan, principal) \in Nat
    BY LoanParties, DebtNat DEF NewPrincipal
  <1>2. Offer[id].origination_fee_bps \in Nat /\ config.protocol_upfront_fee \in Nat
    BY OfferTyped, ConfigAssumption, LimitsAssumption DEF OfferRecord, Inv, ConfigRecord
  <1>3. \A p \in Nat : /\ Fee(Offer[id].origination_fee_bps, p) \in Nat
                       /\ Fee(config.protocol_upfront_fee, p) \in Nat
    BY <1>2, FeeNat
  <1> QED BY <1>1, <1>3 DEF NewLenderDelta

\* An accepted offer's origination fee is part of the principal.
LEMMA OriginationWithin ==
  ASSUME NEW id \in OfferIds, Offer[id].origination_fee_bps <= BPS, NEW principal \in Nat
  PROVE  Fee(Offer[id].origination_fee_bps, principal) <= principal
  <1>1. Offer[id].origination_fee_bps \in 0..BPS
    BY OfferTyped, MathAssumption DEF OfferRecord
  <1> QED BY <1>1, FeeBound

\* What the parties of a refinancing pay and get cancels out.
LEMMA ReplaceFundsSettled ==
  ASSUME Inv, NEW loan \in loans, NEW id \in OfferIds, NEW principal \in Nat, NEW refused,
         Offer[id].origination_fee_bps <= BPS
  PROVE  /\ ReplaceFunds(loan, Offer[id], principal, refused) \in Funds
         /\ Unowed(ReplaceFunds(loan, Offer[id], principal, refused)) = 0
  <1> DEFINE offer == Offer[id]
             debt == OutstandingDebt(loan)
             origination == Fee(offer.origination_fee_bps, principal)
             upfront == Fee(config.protocol_upfront_fee, principal)
             fee == ProtocolSettlementFee(loan)
             borrower_delta == principal - (debt + origination)
             old_lender_delta == debt - fee
             new_lender_delta == NewLenderDelta(offer, principal)
             paid_in == Received(funds, MaxOf(0, -borrower_delta))
             lenders == IF loan.lender = offer.lender
                   THEN Settled(paid_in, loan.lender, old_lender_delta + new_lender_delta, refused)
                   ELSE Sent(Received(paid_in, MaxOf(0, -new_lender_delta)),
                             loan.lender, old_lender_delta, refused)
             borrower == Sent(lenders, loan.borrower, MaxOf(0, borrower_delta), refused)
  <1>1. /\ origination \in Nat /\ upfront \in Nat
        /\ debt \in Nat /\ fee \in Nat /\ fee <= debt
        /\ origination <= principal
        /\ new_lender_delta = origination - (principal + upfront)
    BY NewTerms, LoanParties, DebtNat, OriginationWithin DEF NewLenderDelta
  <1>2. /\ loan.borrower \in Wallets /\ loan.lender \in Wallets
        /\ config.protocol_wallet \in Wallets /\ funds \in Funds
    BY LoanParties DEF Inv
  <1> HIDE DEF origination, upfront, new_lender_delta, debt, fee
  <1>3. /\ borrower_delta \in Int /\ old_lender_delta \in Nat /\ fee + upfront \in Nat
        /\ MaxOf(0, -borrower_delta) \in Nat /\ MaxOf(0, borrower_delta) \in Nat
        /\ MaxOf(0, -new_lender_delta) \in Nat
        /\ new_lender_delta \in Int /\ old_lender_delta + new_lender_delta \in Int
    BY <1>1 DEF MaxOf
  <1>4. paid_in \in Funds /\ Unowed(paid_in) = MaxOf(0, -borrower_delta)
    BY <1>2, <1>3, ReceivedTyped DEF Inv
  <1>5. lenders \in Funds /\ Unowed(lenders) = MaxOf(0, -borrower_delta)
                                            - (old_lender_delta + new_lender_delta)
    <2> HIDE DEF borrower_delta, old_lender_delta, paid_in
    <2>1. CASE loan.lender = offer.lender
      BY <1>2, <1>3, <1>4, <2>1, SettledTyped
    <2>2. CASE loan.lender # offer.lender
      <3> DEFINE both == Received(paid_in, MaxOf(0, -new_lender_delta))
      <3>1. both \in Funds /\ Unowed(both) = Unowed(paid_in) + MaxOf(0, -new_lender_delta)
        BY <1>3, <1>4, ReceivedTyped
      <3> HIDE DEF both
      <3>2. /\ Sent(both, loan.lender, old_lender_delta, refused) \in Funds
            /\ Unowed(Sent(both, loan.lender, old_lender_delta, refused))
                 = Unowed(both) - old_lender_delta
        BY <1>2, <1>3, <3>1, SentTyped
      <3>3. lenders = Sent(both, loan.lender, old_lender_delta, refused)
        BY <2>2 DEF both
      <3>4. MaxOf(0, -new_lender_delta) = -new_lender_delta
        BY <1>1 DEF MaxOf
      <3> HIDE DEF lenders
      <3> QED BY <1>1, <1>3, <1>4, <3>1, <3>2, <3>3, <3>4
    <2> QED BY <2>1, <2>2
  <1> HIDE DEF lenders, paid_in
  <1>6. borrower \in Funds /\ Unowed(borrower) = Unowed(lenders) - MaxOf(0, borrower_delta)
    BY <1>2, <1>3, <1>5, SentTyped
  <1> HIDE DEF borrower
  <1>7. /\ Sent(borrower, config.protocol_wallet, fee + upfront, refused) \in Funds
        /\ Unowed(Sent(borrower, config.protocol_wallet, fee + upfront, refused))
             = Unowed(borrower) - (fee + upfront)
    BY <1>2, <1>3, <1>6, SentTyped
  <1>8. MaxOf(0, -borrower_delta) - MaxOf(0, borrower_delta) = -borrower_delta
    BY <1>3 DEF MaxOf
  <1>9. Unowed(borrower) - (fee + upfront) = 0
    BY <1>1, <1>3, <1>5, <1>6, <1>8 DEF borrower_delta, old_lender_delta
  <1> QED BY <1>7, <1>9 DEF ReplaceFunds, borrower, lenders, paid_in, old_lender_delta,
             borrower_delta, origination, upfront, new_lender_delta, debt, fee

\* borrower_delta is never negative: the compensation covers what is missing,
\* so the borrower never pays for a sale.
LEMMA ReplaceLenderFundsSettled ==
  ASSUME Inv, NEW loan \in loans, NEW id \in OfferIds, NEW principal \in Nat, NEW refused,
         Offer[id].origination_fee_bps <= BPS
  PROVE  /\ ReplaceLenderFunds(loan, Offer[id], principal, refused) \in Funds
         /\ Unowed(ReplaceLenderFunds(loan, Offer[id], principal, refused)) = 0
  <1> DEFINE offer == Offer[id]
             debt == OutstandingDebt(loan)
             origination == Fee(offer.origination_fee_bps, principal)
             upfront == Fee(config.protocol_upfront_fee, principal)
             fee == ProtocolSettlementFee(loan)
             max_interest_delta == MaxInterestDelta(loan, offer, principal, origination)
             compensation == MaxOf(max_interest_delta, debt + origination - principal)
             borrower_delta == principal + compensation - (debt + origination)
             old_lender_delta == debt - fee - compensation
             new_lender_delta == NewLenderDelta(offer, principal)
             lenders == IF loan.lender = offer.lender
                   THEN Received(funds, MaxOf(0, -(old_lender_delta + new_lender_delta)))
                   ELSE Settled(Received(funds, MaxOf(0, -new_lender_delta)),
                                loan.lender, old_lender_delta, refused)
             borrower == Sent(lenders, loan.borrower, borrower_delta, refused)
  <1>1. /\ origination \in Nat /\ upfront \in Nat /\ debt \in Nat /\ fee \in Nat
        /\ origination <= principal
        /\ new_lender_delta = origination - (principal + upfront)
    BY NewTerms, LoanParties, DebtNat, OriginationWithin DEF NewLenderDelta
  <1>2. /\ loan.borrower \in Wallets /\ loan.lender \in Wallets
        /\ config.protocol_wallet \in Wallets /\ funds \in Funds
    BY LoanParties DEF Inv
  <1> HIDE DEF origination, upfront, new_lender_delta, debt, fee
  <1>3. max_interest_delta \in Int
    <2> DEFINE extra == (origination + principal * offer.apr - loan.amount * loan.apr)
                            * (loan.maturity - now)
               unit == YEAR * BPS
    <2>1. /\ offer.apr \in Int /\ loan.apr \in Int /\ loan.amount \in Int
          /\ loan.maturity \in Int /\ now \in Int
      BY OfferTyped, LoanParties DEF OfferRecord, SoundLoan, LoanRecord
    <2>2. extra \in Int
      BY <1>1, <2>1
    <2>3. unit \in Nat \ {0}
      BY MathAssumption, MulNat
    <2> HIDE DEF extra, unit
    <2>4. extra \div unit \in Int
      BY <2>2, <2>3
    <2>5. MaxOf(origination, MaxOf(0, extra \div unit)) \in Int
      BY <1>1, <2>4 DEF MaxOf
    <2> QED BY <2>5 DEF MaxInterestDelta, extra, unit
  <1> HIDE DEF max_interest_delta
  <1>4. compensation \in Int /\ compensation >= debt + origination - principal
    BY <1>1, <1>3 DEF MaxOf
  <1> HIDE DEF compensation
  <1>5. /\ borrower_delta \in Nat /\ old_lender_delta \in Int /\ fee + upfront \in Nat
        /\ MaxOf(0, -new_lender_delta) \in Nat
        /\ MaxOf(0, -new_lender_delta) = -new_lender_delta
        /\ MaxOf(0, -(old_lender_delta + new_lender_delta)) \in Nat
        /\ MaxOf(0, -(old_lender_delta + new_lender_delta))
             = -(old_lender_delta + new_lender_delta)
    BY <1>1, <1>4 DEF MaxOf
  <1>6. lenders \in Funds /\ Unowed(lenders) = -(old_lender_delta + new_lender_delta)
    <2> HIDE DEF borrower_delta, old_lender_delta
    <2>1. CASE loan.lender = offer.lender
      BY <1>2, <1>5, <2>1, ReceivedTyped DEF Inv
    <2>2. CASE loan.lender # offer.lender
      <3> DEFINE paid_in == Received(funds, MaxOf(0, -new_lender_delta))
      <3>1. paid_in \in Funds /\ Unowed(paid_in) = -new_lender_delta
        BY <1>2, <1>5, ReceivedTyped DEF Inv
      <3> HIDE DEF paid_in
      <3>2. /\ Settled(paid_in, loan.lender, old_lender_delta, refused) \in Funds
            /\ Unowed(Settled(paid_in, loan.lender, old_lender_delta, refused))
                 = Unowed(paid_in) - old_lender_delta
        BY <1>2, <1>5, <3>1, SettledTyped
      <3>3. lenders = Settled(paid_in, loan.lender, old_lender_delta, refused)
        BY <2>2 DEF paid_in
      <3> HIDE DEF lenders
      <3> QED BY <1>1, <1>5, <3>1, <3>2, <3>3
    <2> QED BY <2>1, <2>2
  <1> HIDE DEF lenders
  <1>7. borrower \in Funds /\ Unowed(borrower) = Unowed(lenders) - borrower_delta
    <2> HIDE DEF borrower_delta
    <2> QED BY <1>2, <1>5, <1>6, SentTyped
  <1> HIDE DEF borrower
  <1>8. /\ Sent(borrower, config.protocol_wallet, fee + upfront, refused) \in Funds
        /\ Unowed(Sent(borrower, config.protocol_wallet, fee + upfront, refused))
             = Unowed(borrower) - (fee + upfront)
    BY <1>2, <1>5, <1>7, SentTyped
  <1>9. Unowed(borrower) - (fee + upfront) = 0
    BY <1>1, <1>4, <1>5, <1>6, <1>7
  <1> QED BY <1>8, <1>9 DEF ReplaceLenderFunds, borrower, lenders, old_lender_delta,
             borrower_delta, compensation, max_interest_delta, origination, upfront,
             new_lender_delta, debt, fee

-----------------------------------------------------------------------------
(* Every step keeps the invariant.                                         *)

LEMMA InitInv ==
  ASSUME Init
  PROVE  Inv
  <1>1. VaultsOK(vaults)
    <2>1. vaults = [b \in Borrowers |-> EmptyVault(FALSE)]
      BY DEF Init
    <2>2. /\ EmptyVault(FALSE) \in VaultRecord
          /\ EmptyVault(FALSE).total <= EmptyVault(FALSE).balance
          /\ Summed(EmptyVault(FALSE)) /\ Opened(EmptyVault(FALSE))
      BY EmptyVaultSafe, EmptyVaultSummed DEF EmptyVault, Opened
    <2> QED BY <2>1, <2>2 DEF VaultsOK
  <1>2. funds \in Funds /\ Unowed(funds) = 0
    BY SumZeros, WalletsAssumption DEF Init, Funds, Unowed
  <1> QED BY <1>1, <1>2, ConfigAssumption, LimitsAssumption DEF Init, Inv, LoansOK, NamedOK

LEMMA EnvironmentInv ==
  ASSUME Inv, Tick \/ OracleUpdate \/ UNCHANGED vars
  PROVE  Inv'
  <1>1. CASE Tick
    <2>1. LoansOK(loans, now')
      BY <1>1, SoundLater DEF Tick, Inv, LoansOK
    <2> QED BY <1>1, <2>1 DEF Tick, Inv
  <1>2. CASE OracleUpdate
    BY <1>2 DEF OracleUpdate, Inv
  <1>3. CASE UNCHANGED vars
    BY <1>3 DEF vars, Inv
  <1> QED BY <1>1, <1>2, <1>3

LEMMA AdministrationInv ==
  ASSUME Inv, NEW sender \in Wallets, Administration(sender)
  PROVE  Inv'
  <1>1. UNCHANGED <<book, assets, environment, drifted>>
    BY DEF Administration, SetPartialLiquidationFee, SetFullLiquidationFee, SetProtocolFee,
       ChangeProtocolWallet, ChangeVaultRegistrar, SetRefinanceAddr, SetLiquidationAddr,
       SetProxyAuthorization, ProposeOwner, ClaimOwnership, SetTransferAgent, OwnerSets
  <1>2. config \in ConfigRecord
    BY DEF Inv
  <1>3. config' \in ConfigRecord
    <2>1. CASE SetPartialLiquidationFee(sender)
      BY <1>2, <2>1 DEF SetPartialLiquidationFee, OwnerSets, ConfigRecord
    <2>2. CASE SetFullLiquidationFee(sender)
      BY <1>2, <2>2 DEF SetFullLiquidationFee, OwnerSets, ConfigRecord
    <2>3. CASE SetProtocolFee(sender)
      <3>1. PICK upfront \in AdminValues.fees, settlement \in AdminValues.fees :
              /\ upfront <= MaxUpfrontFee /\ settlement <= MaxSettlementFee
              /\ config' = [config EXCEPT !.protocol_upfront_fee = upfront,
                                          !.protocol_settlement_fee = settlement]
        BY <2>3 DEF SetProtocolFee
      <3>2. upfront \in 0..MaxUpfrontFee /\ settlement \in 0..MaxSettlementFee
        BY <3>1, ConfigAssumption, LimitsAssumption, AdminAssumption
      <3> QED BY <1>2, <3>1, <3>2 DEF ConfigRecord
    <2>4. CASE ChangeProtocolWallet(sender)
      BY <1>2, <2>4, AdminAssumption DEF ChangeProtocolWallet, OwnerSets, ConfigRecord
    <2>5. CASE ChangeVaultRegistrar(sender)
      BY <1>2, <2>5, AdminAssumption DEF ChangeVaultRegistrar, OwnerSets, ConfigRecord
    <2>6. CASE SetRefinanceAddr(sender)
      BY <1>2, <2>6, AdminAssumption DEF SetRefinanceAddr, OwnerSets, ConfigRecord
    <2>7. CASE SetLiquidationAddr(sender)
      BY <1>2, <2>7, AdminAssumption DEF SetLiquidationAddr, OwnerSets, ConfigRecord
    <2>8. CASE SetProxyAuthorization(sender)
      BY <1>2, <2>8, AdminAssumption DEF SetProxyAuthorization, ConfigRecord
    <2>9. CASE ProposeOwner(sender)
      BY <1>2, <2>9, AdminAssumption DEF ProposeOwner, OwnerSets, ConfigRecord
    <2>10. CASE ClaimOwnership(sender)
      BY <1>2, <2>10 DEF ClaimOwnership, ConfigRecord
    <2>11. CASE SetTransferAgent(sender)
      BY <1>2, <2>11, AdminAssumption DEF SetTransferAgent, ConfigRecord
    <2> QED BY <2>1, <2>2, <2>3, <2>4, <2>5, <2>6, <2>7, <2>8, <2>9, <2>10, <2>11
            DEF Administration
  <1> QED BY <1>1, <1>3 DEF Inv, book, assets, environment

LEMMA CreateLoanInv ==
  ASSUME Inv, NEW tx \in Txs, NEW id \in OfferIds, NEW principal \in Principals,
         NEW collateral \in CollateralAmounts, CreateLoan(tx, id, principal, collateral)
  PROVE  Inv'
  <1> DEFINE borrower == Actor(tx)
             offer == Offer[id]
             new == NewLoan(id, borrower, principal, collateral, AgreedUntil(offer))
             created == VaultCreated(vaults, borrower)
  <1>1. principal \in Nat /\ collateral \in Nat /\ borrower \in Borrowers
    BY BaseAssumption DEF CreateLoan
  <1>2. SoundLoan(new, now)
    BY <1>1, OfferTyped, AgreedUntilBounds, NewLoanSound DEF CreateLoan, Inv
  <1>3. new.offer_id = id /\ id \notin revoked_offers
    BY DEF CreateLoan, NewLoan, OfferUsable
  <1>4. /\ loans' = Stored(loans, new) /\ revoked_offers' = RevokedAfterUse(id)
        /\ commited_liquidity' = Committed(commited_liquidity, id, principal)
        /\ vaults' = CollateralReceived(created, borrower, collateral)
        /\ UNCHANGED <<config, funds, environment, drifted>>
        /\ DepositAllowed(created[borrower], collateral, borrower)
    BY DEF CreateLoan
  <1> HIDE DEF new
  <1>5. LoansOK(loans', now)
    BY <1>2, <1>4, StoredIn, LoansUpdated DEF Inv
  <1>6. NamedOK(loans', revoked_offers')
    BY <1>3, <1>4, StoredIn, NamedUsed DEF Inv
  <1>7. revoked_offers' \subseteq OfferIds
    BY <1>4 DEF Inv, RevokedAfterUse
  <1>8. commited_liquidity' \in [LiquidityKeys -> Nat]
    BY <1>1, <1>4, CommittedTyped DEF Inv
  <1>9. VaultsOK(created)
    BY <1>1, VaultCreatedOK DEF Inv
  <1> HIDE DEF created
  <1>10. VaultsOK(vaults')
    BY <1>1, <1>4, <1>9, CollateralReceivedOK
  <1> QED BY <1>4, <1>5, <1>6, <1>7, <1>8, <1>10 DEF Inv, environment

LEMMA SettleLoanInv ==
  ASSUME Inv, NEW tx \in Txs, NEW loan \in loans, NEW refused, SettleLoan(tx, loan, refused)
  PROVE  Inv'
  <1> DEFINE paid == OutstandingDebt(loan)
             fee == ProtocolSettlementFee(loan)
             to_lender == Sent(Received(funds, paid), loan.lender, paid - fee, refused)
  <1>1. /\ loans' = loans \ {loan}
        /\ commited_liquidity' = Reduced(commited_liquidity, loan, loan.amount)
        /\ funds' = Sent(to_lender, config.protocol_wallet, fee, refused)
        /\ vaults' = CollateralSent(vaults, loan.borrower, loan.borrower,
                                    loan.collateral_amount, refused)
        /\ UNCHANGED <<config, revoked_offers, environment, drifted>>
        /\ WithdrawAllowed(vaults[loan.borrower], loan.collateral_amount)
    BY DEF SettleLoan, SettlementPossible
  <1>2. paid \in Nat /\ fee \in Nat /\ paid - fee \in Nat
    BY LoanParties, DebtNat
  <1> HIDE DEF paid, fee
  <1>3. Received(funds, paid) \in Funds /\ Unowed(Received(funds, paid)) = paid
    BY <1>2, ReceivedTyped DEF Inv
  <1>4. to_lender \in Funds /\ Unowed(to_lender) = paid - (paid - fee)
    BY <1>2, <1>3, LoanParties, SentTyped
  <1> HIDE DEF to_lender
  <1>5. funds' \in Funds /\ Unowed(funds') = 0
    BY <1>1, <1>2, <1>4, LoanParties, SentTyped
  <1>6. VaultsOK(vaults')
    BY <1>1, LoanParties, CollateralSentOK DEF Inv
  <1>7. commited_liquidity' \in [LiquidityKeys -> Nat]
    BY <1>1, LoanParties, ReducedTyped DEF Inv
  <1> QED BY <1>1, <1>5, <1>6, <1>7 DEF Inv, LoansOK, NamedOK, environment

LEMMA CallLoanInv ==
  ASSUME Inv, NEW tx \in Txs, NEW loan \in loans, CallLoan(tx, loan)
  PROVE  Inv'
  <1> DEFINE new == [loan EXCEPT !.call_time = now]
  <1>1. SoundLoan(new, now)
    BY LoanParties, CalledSound DEF CallLoan
  <1>2. new.offer_id = loan.offer_id /\ LoanId(loan) = LoanId(new)
    BY DEF LoanId
  <1>3. /\ loans' = Stored(loans, new)
        /\ UNCHANGED <<config, commited_liquidity, revoked_offers, assets, environment, drifted>>
    BY DEF CallLoan
  <1> HIDE DEF new
  <1>4. LoansOK(loans', now)
    BY <1>1, <1>3, StoredIn, LoansUpdated DEF Inv
  <1>5. NamedOK(loans', revoked_offers)
    BY <1>2, <1>3, StoredIn, NamedUpdated DEF Inv
  <1> QED BY <1>3, <1>4, <1>5 DEF Inv, assets, environment

LEMMA AddCollateralInv ==
  ASSUME Inv, NEW tx \in Txs, NEW loan \in loans, NEW amount \in CollateralSteps,
         AddCollateral(tx, loan, amount)
  PROVE  Inv'
  <1> DEFINE more == loan.collateral_amount + amount
             new == [loan EXCEPT !.collateral_amount = more]
  <1>1. amount \in Nat /\ more \in Nat \ {0}
    BY LoanParties, BaseAssumption
  <1>2. /\ loans' = Stored(loans, new)
        /\ vaults' = CollateralReceived(vaults, loan.borrower, amount)
        /\ DepositAllowed(vaults[loan.borrower], amount, loan.borrower)
        /\ UNCHANGED <<config, commited_liquidity, revoked_offers, funds, environment, drifted>>
    BY DEF AddCollateral
  <1> HIDE DEF more
  <1>3. SoundLoan(new, now)
    BY <1>1, LoanParties, CollateralChangedSound
  <1>4. new.offer_id = loan.offer_id /\ LoanId(loan) = LoanId(new)
    BY DEF LoanId
  <1> HIDE DEF new
  <1>5. LoansOK(loans', now)
    BY <1>2, <1>3, StoredIn, LoansUpdated DEF Inv
  <1>6. NamedOK(loans', revoked_offers)
    BY <1>2, <1>4, StoredIn, NamedUpdated DEF Inv
  <1>7. VaultsOK(vaults')
    BY <1>1, <1>2, LoanParties, CollateralReceivedOK DEF Inv
  <1> QED BY <1>2, <1>5, <1>6, <1>7 DEF Inv, environment

LEMMA RemoveCollateralInv ==
  ASSUME Inv, NEW tx \in Txs, NEW loan \in loans, NEW amount \in CollateralSteps,
         NEW refused, RemoveCollateral(tx, loan, amount, refused)
  PROVE  Inv'
  <1> DEFINE left == loan.collateral_amount - amount
             new == [loan EXCEPT !.collateral_amount = left]
  <1>1. amount \in Nat /\ left \in Nat \ {0}
    BY LoanParties, BaseAssumption DEF RemoveCollateral
  <1>2. /\ loans' = Stored(loans, new)
        /\ vaults' = CollateralSent(vaults, loan.borrower, loan.borrower, amount, refused)
        /\ WithdrawAllowed(vaults[loan.borrower], amount)
        /\ UNCHANGED <<config, commited_liquidity, revoked_offers, funds, environment, drifted>>
    BY DEF RemoveCollateral
  <1> HIDE DEF left
  <1>3. SoundLoan(new, now)
    BY <1>1, LoanParties, CollateralChangedSound
  <1>4. new.offer_id = loan.offer_id /\ LoanId(loan) = LoanId(new)
    BY DEF LoanId
  <1> HIDE DEF new
  <1>5. LoansOK(loans', now)
    BY <1>2, <1>3, StoredIn, LoansUpdated DEF Inv
  <1>6. NamedOK(loans', revoked_offers)
    BY <1>2, <1>4, StoredIn, NamedUpdated DEF Inv
  <1>7. VaultsOK(vaults')
    BY <1>1, <1>2, LoanParties, CollateralSentOK DEF Inv
  <1> QED BY <1>2, <1>5, <1>6, <1>7 DEF Inv, environment

LEMMA TransferLoanInv ==
  ASSUME Inv, NEW tx \in Txs, NEW loan \in loans, NEW new_borrower \in Borrowers,
         NEW refused, TransferLoan(tx, loan, new_borrower, refused)
  PROVE  Inv'
  <1> DEFINE new == [loan EXCEPT !.borrower = new_borrower]
  <1>1. /\ loans' = Stored(loans, new) \ {loan}
        /\ vaults' = CollateralMoved(loan, new_borrower, refused)
        /\ new_borrower # loan.borrower
        /\ WithdrawAllowed(vaults[loan.borrower], loan.collateral_amount)
        /\ UNCHANGED <<config, commited_liquidity, revoked_offers, funds, environment, drifted>>
    BY DEF TransferLoan
  <1>2. SoundLoan(new, now)
    BY LoanParties, TransferredSound
  <1>3. new.offer_id = loan.offer_id
    OBVIOUS
  <1> HIDE DEF new
  <1>4. LoansOK(loans', now)
    BY <1>1, <1>2, StoredIn, LoansUpdated DEF Inv
  <1>5. NamedOK(loans', revoked_offers)
    BY <1>1, <1>3, StoredIn, NamedUpdated DEF Inv
  <1>6. VaultsOK(vaults')
    BY <1>1, LoanParties, CollateralMovedOK DEF Inv
  <1> QED BY <1>1, <1>4, <1>5, <1>6 DEF Inv, environment

\* What both refinancings leave in the book.
LEMMA ReplacedOK ==
  ASSUME Inv, NEW loan \in loans, NEW id \in OfferIds, NEW principal \in Nat,
         NEW new, SoundLoan(new, now), new.offer_id = id, id \notin revoked_offers
  PROVE  /\ LoansOK(Replaced(loan, new), now)
         /\ NamedOK(Replaced(loan, new), RevokedAfterUse(id))
         /\ RevokedAfterUse(id) \subseteq OfferIds
         /\ ReplacedLiquidity(loan, id, principal) \in [LiquidityKeys -> Nat]
  <1>1. Replaced(loan, new) \subseteq loans \cup {new}
    BY DEF Replaced, Stored
  <1>2. LoansOK(Replaced(loan, new), now)
    BY <1>1, LoansUpdated DEF Inv
  <1>3. NamedOK(Replaced(loan, new), RevokedAfterUse(id))
    BY <1>1, NamedUsed DEF Inv
  <1>4. RevokedAfterUse(id) \subseteq OfferIds
    BY DEF Inv, RevokedAfterUse
  <1>5. Reduced(commited_liquidity, loan, loan.amount) \in [LiquidityKeys -> Nat]
    BY LoanParties, ReducedTyped DEF Inv
  <1>6. ReplacedLiquidity(loan, id, principal) \in [LiquidityKeys -> Nat]
    BY <1>5, CommittedTyped DEF ReplacedLiquidity
  <1> QED BY <1>2, <1>3, <1>4, <1>6

LEMMA CollateralAdjustedOK ==
  ASSUME Inv, NEW loan \in loans, NEW collateral \in Nat, NEW refused,
         AdjustmentAllowed(loan, collateral)
  PROVE  VaultsOK(CollateralAdjusted(loan, collateral, refused))
  <1> DEFINE delta == collateral - loan.collateral_amount
  <1>1. delta \in Int /\ VaultsOK(vaults) /\ loan.borrower \in Borrowers /\ loan.borrower \in Wallets
    BY LoanParties DEF Inv
  <1>2. /\ delta > 0 => DepositAllowed(vaults[loan.borrower], delta, loan.borrower)
        /\ delta < 0 => WithdrawAllowed(vaults[loan.borrower], -delta)
    BY DEF AdjustmentAllowed
  <1>3. CollateralAdjusted(loan, collateral, refused) =
          IF delta > 0 THEN CollateralReceived(vaults, loan.borrower, delta)
          ELSE IF delta < 0
          THEN CollateralSent(vaults, loan.borrower, loan.borrower, -delta, refused)
          ELSE vaults
    BY DEF CollateralAdjusted
  <1> HIDE DEF delta
  <1>4. CASE delta > 0
    <2>1. delta \in Nat
      BY <1>1, <1>4
    <2>2. VaultsOK(CollateralReceived(vaults, loan.borrower, delta))
      BY <1>1, <1>2, <1>4, <2>1, CollateralReceivedOK
    <2> QED BY <1>3, <1>4, <2>2
  <1>5. CASE delta < 0
    <2>1. -delta \in Nat /\ ~(delta > 0)
      BY <1>1, <1>5
    <2>2. VaultsOK(CollateralSent(vaults, loan.borrower, loan.borrower, -delta, refused))
      BY <1>1, <1>2, <1>5, <2>1, CollateralSentOK
    <2> QED BY <1>3, <1>5, <2>1, <2>2
  <1>6. CASE delta = 0
    BY <1>1, <1>3, <1>6
  <1> QED BY <1>1, <1>4, <1>5, <1>6

LEMMA ReplaceLoanInv ==
  ASSUME Inv, NEW tx \in Txs, NEW loan \in loans, NEW id \in OfferIds,
         NEW principal \in Principals \cup {0}, NEW collateral \in CollateralAmounts,
         NEW refused, ReplaceLoan(tx, loan, id, principal, collateral, refused)
  PROVE  Inv'
  <1> DEFINE offer == Offer[id]
             new_principal == NewPrincipal(loan, principal)
             new == NewLoan(id, loan.borrower, new_principal, collateral, AgreedUntil(offer))
  <1>1. new_principal \in Nat /\ collateral \in Nat /\ loan.borrower \in Borrowers
    BY NewTerms, LoanParties, BaseAssumption
  <1>2. /\ OfferAccepted(offer, loan.borrower, new_principal, collateral)
        /\ id \notin revoked_offers
        /\ AdjustmentAllowed(loan, collateral)
        /\ loans' = Replaced(loan, new)
        /\ commited_liquidity' = ReplacedLiquidity(loan, id, new_principal)
        /\ revoked_offers' = RevokedAfterUse(id)
        /\ vaults' = CollateralAdjusted(loan, collateral, refused)
        /\ funds' = ReplaceFunds(loan, offer, new_principal, refused)
        /\ UNCHANGED <<config, environment, drifted>>
    BY DEF ReplaceLoan, OfferTaken, OfferUsable
  <1> HIDE DEF new_principal
  <1>3. SoundLoan(new, now)
    BY <1>1, <1>2, OfferTyped, AgreedUntilBounds, NewLoanSound DEF Inv
  <1>4. new.offer_id = id
    BY DEF NewLoan
  <1> HIDE DEF new, offer
  <1>5. /\ LoansOK(loans', now) /\ NamedOK(loans', revoked_offers')
        /\ revoked_offers' \subseteq OfferIds
        /\ commited_liquidity' \in [LiquidityKeys -> Nat]
    BY <1>1, <1>2, <1>3, <1>4, ReplacedOK
  <1>6. VaultsOK(vaults')
    BY <1>1, <1>2, CollateralAdjustedOK
  <1>7. funds' \in Funds /\ Unowed(funds') = 0
    BY <1>1, <1>2, ReplaceFundsSettled DEF offer, OfferAccepted
  <1> QED BY <1>2, <1>5, <1>6, <1>7 DEF Inv, environment

LEMMA ReplaceLoanLenderInv ==
  ASSUME Inv, NEW tx \in Txs, NEW loan \in loans, NEW id \in OfferIds,
         NEW principal \in Principals \cup {0}, NEW refused,
         ReplaceLoanLender(tx, loan, id, principal, refused)
  PROVE  Inv'
  <1> DEFINE offer == Offer[id]
             new_principal == NewPrincipal(loan, principal)
             new == NewLoan(id, loan.borrower, new_principal, loan.collateral_amount,
                            loan.agreed_until)
  <1>1. /\ new_principal \in Nat /\ loan.collateral_amount \in Nat
        /\ loan.borrower \in Borrowers /\ loan.agreed_until \in Nat
    BY NewTerms, LoanParties, BaseAssumption DEF SoundLoan, LoanRecord
  <1>2. /\ OfferAccepted(offer, loan.borrower, new_principal, loan.collateral_amount)
        /\ id \notin revoked_offers
        /\ TermsNotWorse(loan, new)
        /\ loans' = Replaced(loan, new)
        /\ commited_liquidity' = ReplacedLiquidity(loan, id, new_principal)
        /\ revoked_offers' = RevokedAfterUse(id)
        /\ funds' = ReplaceLenderFunds(loan, offer, new_principal, refused)
        /\ UNCHANGED <<config, vaults, environment, drifted>>
    BY DEF ReplaceLoanLender, OfferTaken, OfferUsable
  <1> HIDE DEF new_principal
  <1>3. /\ loan.agreed_until <= now + offer.duration
        /\ offer.call_eligibility > 0 =>
              loan.agreed_until <= now + offer.call_eligibility + offer.call_window
    BY <1>2, LoanParties, SaleKeepsTerm
  <1>4. SoundLoan(new, now)
    BY <1>1, <1>2, <1>3, NewLoanSound
  <1>5. new.offer_id = id
    BY DEF NewLoan
  <1> HIDE DEF new, offer
  <1>6. /\ LoansOK(loans', now) /\ NamedOK(loans', revoked_offers')
        /\ revoked_offers' \subseteq OfferIds
        /\ commited_liquidity' \in [LiquidityKeys -> Nat]
    BY <1>1, <1>2, <1>4, <1>5, ReplacedOK
  <1>7. funds' \in Funds /\ Unowed(funds') = 0
    BY <1>1, <1>2, ReplaceLenderFundsSettled DEF offer, OfferAccepted
  <1> QED BY <1>2, <1>6, <1>7 DEF Inv, environment

\* A partial liquidation that the facet lets through is one that heals: the
\* maximum that stands for "cannot be healed" is not below any debt.
LEMMA HealingSafe ==
  ASSUME Inv, NEW loan \in loans, OracleAnswers, LtvReached(loan),
         OutstandingDebt(loan) <= MaxUint256,
         HealingLiquidation(loan).written_off < OutstandingDebt(loan)
  PROVE  LET healing == HealingLiquidation(loan)
         IN  /\ healing.written_off \in Nat /\ healing.claimed \in Nat /\ healing.fee \in Nat
             /\ healing.claimed + healing.fee < loan.collateral_amount
  <1> DEFINE collateral == loan.collateral_amount
             debt == OutstandingDebt(loan)
             initial == loan.initial_ltv
             fee == loan.partial_liquidation_fee
             p == PartialLiquidation(collateral, debt, initial, fee, rate)
  <1>1. /\ collateral \in Nat \ {0} /\ debt \in Nat /\ initial \in Nat /\ fee \in Nat
        /\ loan.liquidation_ltv \in Nat
        /\ loan.liquidation_ltv > 0 => loan.liquidation_ltv > initial
    BY LoanParties, DebtNat DEF SoundLoan, LoanRecord
  <1>2. rate \in Rates
    BY RateTyped DEF Inv
  <1>3. HealingLiquidation(loan) = p
    BY DEF HealingLiquidation
  <1>4. initial < Ltv(collateral, debt, rate)
    <2>1. loan.liquidation_ltv > 0 /\ Ltv(collateral, debt, rate) >= loan.liquidation_ltv
      BY DEF LtvReached, CurrentLtv
    <2>2. Ltv(collateral, debt, rate) \in Nat
      BY <1>1, <1>2, LtvNat
    <2> QED BY <1>1, <2>1, <2>2
  <1>5. debt <= MaxUint256 /\ MaxUint256 \in Nat /\ p.written_off < debt
    BY <1>3, MathAssumption
  <1> HIDE DEF collateral, debt, initial, fee
  <1>6. ~Unhealable(initial, fee)
    <2>1. ASSUME Unhealable(initial, fee) PROVE p.written_off = MaxUint256
      BY <2>1 DEF PartialLiquidation
    <2> HIDE DEF p
    <2> QED BY <1>1, <1>5, <2>1
  <1>7. p.written_off = WriteOff(collateral, debt, initial, fee, rate)
    BY <1>6 DEF PartialLiquidation
  <1>8. /\ p.written_off \in Nat /\ p.claimed \in Nat /\ p.fee \in Nat
        /\ p.claimed + p.fee < collateral
    BY <1>1, <1>2, <1>4, <1>5, <1>6, <1>7, PartialLiquidationSafe
  <1> HIDE DEF p
  <1> QED BY <1>3, <1>8 DEF collateral

LEMMA PartiallyLiquidateLoanInv ==
  ASSUME Inv, NEW tx \in Txs, NEW loan \in loans, NEW refused,
         PartiallyLiquidateLoan(tx, loan, refused)
  PROVE  Inv'
  <1> DEFINE liquidator == Actor(tx)
             healing == HealingLiquidation(loan)
             taken == healing.claimed + healing.fee
             amount == OutstandingDebt(loan) - healing.written_off
             left == loan.collateral_amount - taken
             new == [loan EXCEPT !.amount = amount, !.accrual_start_time = now,
                                 !.collateral_amount = left]
  <1>1. /\ ~Defaulted(loan) /\ OracleAnswers /\ LtvReached(loan)
        /\ OutstandingDebt(loan) <= MaxUint256
        /\ healing.written_off < OutstandingDebt(loan)
        /\ WithdrawAllowed(vaults[loan.borrower], taken)
        /\ loans' = Stored(loans, new)
        /\ vaults' = CollateralSent(vaults, loan.borrower, liquidator, taken, refused)
        /\ IF liquidator = loan.lender
           THEN UNCHANGED <<funds, commited_liquidity>>
           ELSE /\ funds' = Sent(Received(funds, healing.written_off),
                                 loan.lender, healing.written_off, refused)
                /\ commited_liquidity' = Reduced(commited_liquidity, loan, healing.written_off)
        /\ drifted' = drifted \cup {LiquidityKey(loan.lender, loan.offer_tracing_id)}
        /\ UNCHANGED <<config, revoked_offers, environment>>
    BY DEF PartiallyLiquidateLoan, Drifts
  <1>2. /\ healing.written_off \in Nat /\ healing.claimed \in Nat /\ healing.fee \in Nat
        /\ healing.claimed + healing.fee < loan.collateral_amount
    BY <1>1, HealingSafe
  <1> HIDE DEF healing
  <1>3. taken \in Nat /\ left \in Nat \ {0} /\ amount \in Nat
    BY <1>1, <1>2, LoanParties, DebtNat
  <1> HIDE DEF taken, left, amount
  <1>4. SoundLoan(new, now)
    BY <1>1, <1>3, LoanParties, ReducedLoanSound
  <1>5. new.offer_id = loan.offer_id /\ LoanId(loan) = LoanId(new)
    BY DEF LoanId
  <1> HIDE DEF new
  <1>6. LoansOK(loans', now)
    BY <1>1, <1>4, StoredIn, LoansUpdated DEF Inv
  <1>7. NamedOK(loans', revoked_offers)
    BY <1>1, <1>5, StoredIn, NamedUpdated DEF Inv
  <1>8. liquidator \in Wallets
    BY ActorTyped
  <1> HIDE DEF liquidator
  <1>9. VaultsOK(vaults')
    BY <1>1, <1>3, <1>8, LoanParties, CollateralSentOK DEF Inv
  <1>10. funds' \in Funds /\ Unowed(funds') = 0
    <2> DEFINE price == healing.written_off
               paid_in == Received(funds, price)
               paid == Sent(paid_in, loan.lender, price, refused)
    <2>1. price \in Nat /\ 0 + price = price /\ price - price = 0
      BY <1>2
    <2> HIDE DEF price
    <2>2. paid_in \in Funds /\ Unowed(paid_in) = price
      BY <2>1, ReceivedTyped DEF Inv
    <2> HIDE DEF paid_in
    <2>3. paid \in Funds /\ Unowed(paid) = 0
      BY <2>1, <2>2, LoanParties, SentTyped
    <2> QED BY <1>1, <2>3 DEF Inv, paid_in, price
  <1>11. commited_liquidity' \in [LiquidityKeys -> Nat]
    <2>1. Reduced(commited_liquidity, loan, healing.written_off) \in [LiquidityKeys -> Nat]
      BY <1>2, LoanParties, ReducedTyped DEF Inv
    <2> QED BY <1>1, <2>1 DEF Inv
  <1>12. drifted' \subseteq LiquidityKeys
    BY <1>1, LoanParties DEF Inv
  <1> QED BY <1>1, <1>6, <1>7, <1>9, <1>10, <1>11, <1>12 DEF Inv, environment

\* block.timestamp and the default's moment are past the start of the accrual.
LEMMA InterestDueNat ==
  ASSUME Inv, NEW loan \in loans
  PROVE  InterestDue(loan) \in Nat
  <1>1. /\ loan.amount \in Nat /\ loan.apr \in Nat /\ loan.accrual_start_time \in Nat
        /\ loan.maturity \in Nat /\ loan.call_time \in Nat /\ loan.call_window \in Nat
        /\ loan.accrual_start_time <= loan.maturity
        /\ loan.call_time > 0 => loan.accrual_start_time <= loan.call_time + loan.call_window
    BY LoanParties DEF SoundLoan, LoanRecord
  <1> DEFINE until == IF loan.call_time > 0 THEN loan.call_time + loan.call_window
                      ELSE loan.maturity
             seconds == MinOf(until, loan.maturity) - loan.accrual_start_time
  <1>2. seconds \in Nat
    BY <1>1 DEF MinOf
  <1>3. LiquidationInterest(loan) = Interest(loan.amount, loan.apr, seconds)
    BY DEF LiquidationInterest
  <1> HIDE DEF seconds
  <1>4. Interest(loan.amount, loan.apr, seconds) \in Nat
    BY <1>1, <1>2, InterestNat
  <1> QED BY <1>3, <1>4, LoanParties, DebtNat DEF InterestDue

\* A full liquidation divides the collateral of the loan, and the fee and the
\* debt it pays are within what there is.
LEMMA LoanSplitSafe ==
  ASSUME Inv, OracleAnswers, NEW loan \in loans
  PROVE  LET split == LoanSplit(loan)
             debt == loan.amount + InterestDue(loan)
         IN  /\ debt \in Nat /\ split.remaining_value \in Nat
             /\ split.protocol_fee \in Nat /\ split.protocol_fee <= split.remaining_value
             /\ split.protocol_fee <= debt
             /\ ToLiquidator(loan, split) \in Nat /\ ToBorrower(split) \in Nat
             /\ ToLiquidator(loan, split) + ToBorrower(split) = loan.collateral_amount
  <1> DEFINE collateral == loan.collateral_amount
             interest == InterestDue(loan)
             debt == loan.amount + interest
             full_fee == loan.full_liquidation_fee
             settlement_fee == loan.protocol_settlement_fee
             p == FullLiquidation(collateral, debt, interest, full_fee, settlement_fee, rate)
  <1>1. /\ full_fee \in Nat /\ settlement_fee \in 0..BPS
        /\ rate \in Rates /\ collateral \in Nat
    BY LoanParties, RateTyped, MathAssumption DEF Inv, SoundLoan, LoanRecord
  <1>2. interest \in Nat /\ debt \in Nat /\ interest <= debt
    BY LoanParties, InterestDueNat
  <1>3. LoanSplit(loan) = p
    BY DEF LoanSplit
  <1> HIDE DEF collateral, debt, interest, full_fee, settlement_fee
  <1>4. /\ p.fee \in Nat /\ p.remaining \in Nat /\ p.fee + p.remaining = collateral
        /\ p.for_debt \in Nat /\ p.remaining_value \in Nat /\ p.protocol_fee \in Nat
        /\ p.protocol_fee <= p.remaining_value /\ p.protocol_fee <= debt
        /\ p.covered => p.for_debt <= p.remaining
    BY <1>1, <1>2, FullLiquidationSafe
  <1> HIDE DEF p
  <1>5. /\ ToLiquidator(loan, p) \in Nat /\ ToBorrower(p) \in Nat
        /\ ToLiquidator(loan, p) + ToBorrower(p) = collateral
    BY <1>1, <1>4 DEF ToLiquidator, ToBorrower, collateral
  <1> QED BY <1>2, <1>3, <1>4, <1>5 DEF debt, interest, collateral

LEMMA LiquidateLoanInv ==
  ASSUME Inv, NEW tx \in Txs, NEW loan \in loans, NEW refused, LiquidateLoan(tx, loan, refused)
  PROVE  Inv'
  <1> DEFINE liquidator == Actor(tx)
             debt == loan.amount + InterestDue(loan)
             split == LoanSplit(loan)
             price == IF split.covered THEN debt ELSE split.remaining_value
             taken == ToLiquidator(loan, split)
             rest == ToBorrower(split)
             first == LiquidatorSent(liquidator, loan, refused)
  <1>1. /\ OracleAnswers
        /\ WithdrawAllowed(vaults[loan.borrower], taken)
        /\ WithdrawAllowed(first[loan.borrower], rest)
        /\ loans' = loans \ {loan}
        /\ vaults' = CollateralSent(first, loan.borrower, loan.borrower, rest, refused)
        /\ IF liquidator = loan.lender
           THEN UNCHANGED <<funds, commited_liquidity>>
           ELSE /\ funds' = LiquidationFunds(loan, price, split, refused)
                /\ commited_liquidity' = Reduced(commited_liquidity, loan, price)
        /\ drifted' = drifted \cup {LiquidityKey(loan.lender, loan.offer_tracing_id)}
        /\ UNCHANGED <<config, revoked_offers, environment>>
    BY DEF LiquidateLoan, LiquidationPossible, Drifts
  <1>2. first = CollateralSent(vaults, loan.borrower, liquidator, taken, refused)
    BY DEF LiquidatorSent
  <1>3. /\ debt \in Nat /\ split.remaining_value \in Nat
        /\ split.protocol_fee \in Nat /\ split.protocol_fee <= split.remaining_value
        /\ split.protocol_fee <= debt
        /\ taken \in Nat /\ rest \in Nat
    BY <1>1, LoanSplitSafe
  <1> HIDE DEF split, debt, first
  <1>6. price \in Nat /\ price - split.protocol_fee \in Nat
    BY <1>3
  <1>7. liquidator \in Wallets
    BY ActorTyped
  <1> HIDE DEF taken, rest, price, liquidator
  <1>8. VaultsOK(first)
    BY <1>1, <1>2, <1>3, <1>7, LoanParties, CollateralSentOK DEF Inv
  <1>9. VaultsOK(vaults')
    BY <1>1, <1>3, <1>8, LoanParties, CollateralSentOK
  <1>10. /\ LiquidationFunds(loan, price, split, refused) \in Funds
         /\ Unowed(LiquidationFunds(loan, price, split, refused)) = 0
    <2> DEFINE to_lender == Sent(Received(funds, price), loan.lender,
                                 price - split.protocol_fee, refused)
    <2>1. Received(funds, price) \in Funds /\ Unowed(Received(funds, price)) = price
      BY <1>6, ReceivedTyped DEF Inv
    <2>2. to_lender \in Funds /\ Unowed(to_lender) = price - (price - split.protocol_fee)
      BY <1>6, <2>1, LoanParties, SentTyped
    <2> HIDE DEF to_lender
    <2>3. /\ Sent(to_lender, config.protocol_wallet, split.protocol_fee, refused) \in Funds
          /\ Unowed(Sent(to_lender, config.protocol_wallet, split.protocol_fee, refused)) = 0
      BY <1>3, <1>6, <2>2, LoanParties, SentTyped
    <2> QED BY <2>3 DEF LiquidationFunds, to_lender
  <1>11. Reduced(commited_liquidity, loan, price) \in [LiquidityKeys -> Nat]
    BY <1>6, LoanParties, ReducedTyped DEF Inv
  <1>12. /\ funds' \in Funds /\ Unowed(funds') = 0
         /\ commited_liquidity' \in [LiquidityKeys -> Nat]
         /\ drifted' \subseteq LiquidityKeys
    BY <1>1, <1>10, <1>11, LoanParties DEF Inv
  <1> QED BY <1>1, <1>9, <1>12 DEF Inv, LoansOK, NamedOK, environment

LEMMA RevokeOfferInv ==
  ASSUME Inv, NEW tx \in Txs, NEW id \in OfferIds, RevokeOffer(tx, id)
  PROVE  Inv'
  <1>1. /\ revoked_offers' = revoked_offers \cup {id}
        /\ UNCHANGED <<config, loans, commited_liquidity, assets, environment, drifted>>
    BY DEF RevokeOffer
  <1>2. NamedOK(loans, revoked_offers')
    BY <1>1 DEF Inv, NamedOK
  <1> QED BY <1>1, <1>2 DEF Inv, assets, environment

LEMMA ClaimPendingTransfersInv ==
  ASSUME Inv, NEW wallet \in Wallets, ClaimPendingTransfers(wallet)
  PROVE  Inv'
  <1>1. funds' \in Funds /\ Unowed(funds') = 0
    BY ClaimedTyped DEF Inv
  <1>2. UNCHANGED <<config, book, vaults, environment, drifted>>
    BY DEF ClaimPendingTransfers
  <1> QED BY <1>1, <1>2 DEF Inv, book, environment

LEMMA VaultStepInv ==
  ASSUME Inv, NEW borrower \in Borrowers, NEW wallet \in Wallets,
         CreateVaultIfNeeded(borrower) \/ WithdrawPendingCollateral(borrower, wallet)
  PROVE  Inv'
  <1>1. VaultsOK(vaults')
    <2>1. CASE CreateVaultIfNeeded(borrower)
      BY <2>1, VaultCreatedOK DEF CreateVaultIfNeeded, Inv
    <2>2. CASE WithdrawPendingCollateral(borrower, wallet)
      <3>1. /\ vaults[borrower] \in VaultRecord /\ Summed(vaults[borrower])
            /\ vaults[borrower].total <= vaults[borrower].balance
        BY DEF Inv, VaultsOK
      <3>2. vaults[borrower].pending[wallet] \in Nat
        BY <3>1 DEF VaultRecord
      <3>3. PICK amount \in CollateralSteps \cup {vaults[borrower].pending[wallet]} :
              /\ WithdrawPendingAllowed(vaults[borrower], amount, wallet)
              /\ vaults' = [vaults EXCEPT ![borrower] = PendingWithdrawn(@, amount, wallet)]
        BY <2>2 DEF WithdrawPendingCollateral
      <3>4. amount \in Nat
        BY <3>2, BaseAssumption
      <3> DEFINE v == PendingWithdrawn(vaults[borrower], amount, wallet)
      <3>5. /\ v \in VaultRecord /\ v.total <= v.balance /\ Summed(v)
            /\ Opened(v)
        BY <3>1, <3>3, <3>4, WithdrawPendingSafe, WithdrawPendingSummed
           DEF WithdrawPendingAllowed, PendingWithdrawn, VaultRecord, Opened
      <3>6. vaults' = [vaults EXCEPT ![borrower] = v]
        BY <3>3
      <3> HIDE DEF v
      <3> QED BY <3>5, <3>6 DEF Inv, VaultsOK
    <2> QED BY <2>1, <2>2
  <1>2. UNCHANGED <<config, book, funds, environment, drifted>>
    BY DEF CreateVaultIfNeeded, WithdrawPendingCollateral
  <1> QED BY <1>1, <1>2 DEF Inv, book, environment

LEMMA LoanStepInv ==
  ASSUME Inv, NEW tx \in Txs, NEW loan \in loans, LoanStep(tx, loan)
  PROVE  Inv'
  <1>1. CASE CallLoan(tx, loan)
    BY <1>1, CallLoanInv
  <1>2. CASE \E amount \in CollateralSteps : AddCollateral(tx, loan, amount)
    BY <1>2, AddCollateralInv
  <1>3. ASSUME NEW refused \in SUBSET Refusals,
               \/ SettleLoan(tx, loan, refused)
               \/ PartiallyLiquidateLoan(tx, loan, refused)
               \/ LiquidateLoan(tx, loan, refused)
               \/ \E amount \in CollateralSteps : RemoveCollateral(tx, loan, amount, refused)
               \/ \E b \in Borrowers : TransferLoan(tx, loan, b, refused)
               \/ \E id \in OfferIds, principal \in Principals \cup {0} :
                     \/ ReplaceLoanLender(tx, loan, id, principal, refused)
                     \/ \E collateral \in CollateralAmounts :
                           ReplaceLoan(tx, loan, id, principal, collateral, refused)
        PROVE  Inv'
    <2>1. CASE SettleLoan(tx, loan, refused)
      BY <2>1, SettleLoanInv
    <2>2. CASE PartiallyLiquidateLoan(tx, loan, refused)
      BY <2>2, PartiallyLiquidateLoanInv
    <2>3. CASE LiquidateLoan(tx, loan, refused)
      BY <2>3, LiquidateLoanInv
    <2>4. CASE \E amount \in CollateralSteps : RemoveCollateral(tx, loan, amount, refused)
      BY <2>4, RemoveCollateralInv
    <2>5. CASE \E b \in Borrowers : TransferLoan(tx, loan, b, refused)
      BY <2>5, TransferLoanInv
    <2>6. CASE \E id \in OfferIds, principal \in Principals \cup {0} :
                  ReplaceLoanLender(tx, loan, id, principal, refused)
      BY <2>6, ReplaceLoanLenderInv
    <2>7. CASE \E id \in OfferIds, principal \in Principals \cup {0},
                  collateral \in CollateralAmounts :
                  ReplaceLoan(tx, loan, id, principal, collateral, refused)
      BY <2>7, ReplaceLoanInv
    <2> QED BY <1>3, <2>1, <2>2, <2>3, <2>4, <2>5, <2>6, <2>7
  <1> QED BY <1>1, <1>2, <1>3 DEF LoanStep

LEMMA NextInv == Inv /\ [Next]_vars => Inv'
  <1> SUFFICES ASSUME Inv, [Next]_vars PROVE Inv'
    OBVIOUS
  <1>1. CASE Tick \/ OracleUpdate \/ UNCHANGED vars
    BY <1>1, EnvironmentInv
  <1>2. CASE \E tx \in Txs, id \in OfferIds : RevokeOffer(tx, id)
    BY <1>2, RevokeOfferInv
  <1>3. CASE \E tx \in Txs, id \in OfferIds, principal \in Principals,
                collateral \in CollateralAmounts : CreateLoan(tx, id, principal, collateral)
    BY <1>3, CreateLoanInv
  <1>4. CASE \E tx \in Txs, loan \in loans : LoanStep(tx, loan)
    BY <1>4, LoanStepInv
  <1>5. CASE \E tx \in Txs : Administration(tx.sender)
    BY <1>5, AdministrationInv, BaseAssumption
  <1>6. CASE \E wallet \in Accounts : ClaimPendingTransfers(wallet)
    BY <1>6, ClaimPendingTransfersInv DEF Accounts
  <1>7. CASE \E b \in Borrowers : CreateVaultIfNeeded(b)
    BY <1>7, VaultStepInv, BaseAssumption
  <1>8. CASE \E b \in Borrowers, wallet \in Accounts : WithdrawPendingCollateral(b, wallet)
    BY <1>8, VaultStepInv DEF Accounts
  <1> QED BY <1>1, <1>2, <1>3, <1>4, <1>5, <1>6, <1>7, <1>8 DEF Next

LEMMA AlwaysInv == Spec => []Inv
  BY InitInv, NextInv, PTL DEF Spec

-----------------------------------------------------------------------------
(* What follows from the invariant.                                        *)

(* Every state has its type: no balance, debt, collateral, pending         *)
(* transfer or committed liquidity is ever negative, so no operation       *)
(* leaves the storage of the contract or of a vault below zero.            *)
THEOREM TypeCorrect == Spec => []TypeOK
  <1>1. Inv => TypeOK
    BY DEF Inv, TypeOK, LoansOK, SoundLoan, Funds, VaultsOK
  <1> QED BY <1>1, AlwaysInv, PTL

(* Interest always runs from a moment that is past and within the loan's   *)
(* term: the subtractions of _compute_settlement_interest and              *)
(* _compute_liquidation_interest never underflow.                          *)
THEOREM AccrualIsWithinTerm == Spec => []AccrualWithinTerm
  <1>1. Inv => AccrualWithinTerm
    BY DEF Inv, AccrualWithinTerm, LoansOK, SoundLoan
  <1> QED BY <1>1, AlwaysInv, PTL

(* Every loan has collateral, room for a partial liquidation, a settlement *)
(* fee within its interest, and terms that end no earlier than agreed.     *)
THEOREM TermsAreSound == Spec => []TermsSound
  <1>1. Inv => TermsSound
    BY DEF Inv, TermsSound, LoansOK, SoundLoan
  <1> QED BY <1>1, AlwaysInv, PTL

(* No sequence of calls, partial liquidations, transfers and sales between *)
(* lenders makes a loan default at or before the time that its borrower    *)
(* last accepted.                                                          *)
THEOREM BorrowersTermIsKept == Spec => []BorrowerTermKept
  <1>1. Inv => BorrowerTermKept
    <2> SUFFICES ASSUME Inv, NEW loan \in loans, Defaulted(loan)
                 PROVE  now > loan.agreed_until
      BY DEF BorrowerTermKept
    <2>1. /\ now \in Nat /\ loan.maturity \in Nat /\ loan.agreed_until \in Nat
          /\ loan.call_time \in Nat /\ loan.call_window \in Nat
          /\ loan.agreed_until <= loan.maturity
          /\ loan.call_time > 0 => loan.agreed_until <= loan.call_time + loan.call_window
      BY LoanParties DEF SoundLoan, LoanRecord
    <2> QED BY <2>1 DEF Defaulted
  <1> QED BY <1>1, AlwaysInv, PTL

(* The contract holds exactly the payment tokens it owes: every operation  *)
(* pays out what it takes in, whatever fees, offers and refused transfers, *)
(* so that every pending transfer can be claimed.                          *)
THEOREM FundsAreAccounted == Spec => []FundsAccounted
  <1>1. Inv => FundsAccounted
    BY UnowedInt DEF Inv, Unowed, FundsAccounted
  <1> QED BY <1>1, AlwaysInv, PTL

(* An offer made to one borrower backs at most one loan at a time and is   *)
(* revoked by its first use, whatever transfers and refinancings follow.   *)
THEOREM NamedOffersUsedOnce == Spec => []NamedOfferUsedOnce
  <1>1. Inv => NamedOfferUsedOnce
    BY DEF Inv, NamedOfferUsedOnce, NamedOK
  <1> QED BY <1>1, AlwaysInv, PTL

VaultsSolvent ==
    \A b \in Borrowers : /\ vaults[b].total = SumFunction(vaults[b].pending)
                         /\ vaults[b].total <= vaults[b].balance

(* No borrower's vault ever owes its wallets more than it holds, and what  *)
(* it owes is what its pending transfers add up to.                        *)
THEOREM VaultsStaySolvent == Spec => []VaultsSolvent
  <1>1. Inv => VaultsSolvent
    BY DEF Inv, VaultsOK, Summed, VaultsSolvent
  <1> QED BY <1>1, AlwaysInv, PTL
=============================================================================
