---------------------- MODULE P2PLendingSecuritizeProofs ----------------------
(***************************************************************************)
(* What the Securitize protocol guarantees for every set of accounts,      *)
(* offers, fees, amounts, rates and refused transfers.                     *)
(*                                                                         *)
(* That no two loans share a vault is kept by a loan that takes the next   *)
(* vault only if the count of its borrower is above the vaults in use, so  *)
(* that the count is part of the invariant; and by a loan that takes the   *)
(* place of another only if it stays with its borrower and vault, or takes *)
(* the next one of another borrower.                                       *)
(*                                                                         *)
(* That every state has its type and that the contract keeps no payment    *)
(* tokens but those whose transfer failed is one induction (Sound): a fee  *)
(* or a payment that went negative would leave the type, and so would an   *)
(* amount that was paid out and never taken in.                            *)
(***************************************************************************)
EXTENDS P2PLendingSecuritizeErc20, P2PLendingVaultedBaseProofs

LoanFields ==
    {"offer_id", "offer_tracing_id", "amount", "apr", "maturity", "start_time",
     "accrual_start_time", "borrower", "lender", "collateral_amount",
     "min_collateral_amount", "protocol_settlement_fee", "partial_liquidation_fee",
     "full_liquidation_fee", "liquidation_ltv", "initial_ltv", "vault_id", "redeem_start",
     "redeem_residual_collateral", "returned"}

IsLoan(l) ==
    /\ l = [f \in LoanFields |-> l[f]]
    /\ l.borrower \in Borrowers
    /\ l.vault_id \in Nat

VaultInv ==
    /\ vault_count \in [Borrowers -> Nat]
    /\ \A l \in loans : IsLoan(l)
    /\ VaultsNotShared

-----------------------------------------------------------------------------
\* What keeps a loan's vault: every loan that is left had the same vault before.
LEMMA VaultKept ==
  ASSUME VaultInv, NEW loan \in loans, NEW new, IsLoan(new), VaultOf(new) = VaultOf(loan),
         loans' \subseteq (loans \ {loan}) \cup {new}, vault_count' = vault_count
  PROVE  VaultInv'
  <1>1. new.borrower = loan.borrower /\ new.vault_id = loan.vault_id
    BY DEF VaultOf
  <1>2. \A l \in loans' : IsLoan(l) /\ l.vault_id < vault_count[l.borrower]
    BY <1>1 DEF VaultInv, VaultsNotShared
  <1>3. ASSUME NEW l \in loans', NEW m \in loans', VaultOf(l) = VaultOf(m)
        PROVE  l = m
    BY <1>3 DEF VaultInv, VaultsNotShared
  <1> QED BY <1>2, <1>3 DEF VaultInv, VaultsNotShared, VaultOf, IsLoan

\* Loans only go.
LEMMA LoansGone ==
  ASSUME VaultInv, loans' \subseteq loans, vault_count' = vault_count
  PROVE  VaultInv'
  BY DEF VaultInv, VaultsNotShared, VaultOf, IsLoan

\* A loan that takes the next vault of its borrower.
LEMMA NextVaultTaken ==
  ASSUME VaultInv, NEW new, IsLoan(new), new.vault_id = vault_count[new.borrower],
         loans' \subseteq loans \cup {new}, vault_count' = Counted(new.borrower)
  PROVE  VaultInv'
  <1>1. new.borrower \in Borrowers
    BY DEF IsLoan
  <1>2. /\ vault_count' \in [Borrowers -> Nat]
        /\ vault_count'[new.borrower] = vault_count[new.borrower] + 1
        /\ \A b \in Borrowers : vault_count'[b] >= vault_count[b]
    BY <1>1 DEF VaultInv, Counted
  <1>3. \A l \in loans : l.borrower \in Borrowers /\ l.vault_id \in Nat
                         /\ l.vault_id < vault_count[l.borrower]
    BY DEF VaultInv, VaultsNotShared, IsLoan
  <1>4. \A l \in loans' : IsLoan(l)
    BY DEF VaultInv
  <1>5. \A l \in loans' : l.vault_id < vault_count'[l.borrower]
    <2>1. ASSUME NEW l \in loans PROVE l.vault_id < vault_count'[l.borrower]
      BY <2>1, <1>2, <1>3 DEF VaultInv
    <2>2. new.vault_id < vault_count'[new.borrower]
      BY <1>1, <1>2 DEF VaultInv
    <2> QED BY <2>1, <2>2
  <1>6. ASSUME NEW l \in loans PROVE VaultOf(l) # VaultOf(new)
    BY <1>3, <1>6, <1>1 DEF VaultOf, VaultInv
  <1>7. ASSUME NEW l \in loans', NEW m \in loans', VaultOf(l) = VaultOf(m)
        PROVE  l = m
    BY <1>6, <1>7 DEF VaultInv, VaultsNotShared
  <1> QED BY <1>2, <1>4, <1>5, <1>7 DEF VaultInv, VaultsNotShared, VaultOf, IsLoan

-----------------------------------------------------------------------------
(* Loans that are changed, and new ones.                                   *)

\* A loan in the same place is stored over the one that was there.
LEMMA UpdateKept ==
  ASSUME VaultInv, NEW loan \in loans, NEW new, IsLoan(new), VaultOf(new) = VaultOf(loan),
         LoanId(new) = LoanId(loan), loans' = Stored(loans, new), vault_count' = vault_count
  PROVE  VaultInv'
  <1>1. loans' \subseteq (loans \ {loan}) \cup {new}
    BY DEF Stored
  <1> QED BY <1>1, VaultKept

\* The fields that operations change name neither loan nor vault.
LEMMA SamePlace ==
  ASSUME NEW loan, IsLoan(loan), NEW new, new = [f \in LoanFields |-> new[f]],
         \A f \in {"borrower", "vault_id", "lender", "start_time", "offer_id"} :
            new[f] = loan[f]
  PROVE  IsLoan(new) /\ VaultOf(new) = VaultOf(loan) /\ LoanId(new) = LoanId(loan)
  BY DEF IsLoan, VaultOf, LoanId

LEMMA UpdatedLoan ==
  ASSUME NEW loan, IsLoan(loan), NEW v,
         NEW new \in {[loan EXCEPT !.collateral_amount = v], [loan EXCEPT !.maturity = v],
                      [loan EXCEPT !.returned = v]}
  PROVE  IsLoan(new) /\ VaultOf(new) = VaultOf(loan) /\ LoanId(new) = LoanId(loan)
  BY SamePlace DEF IsLoan, LoanFields

LEMMA NewLoanInItsVault ==
  ASSUME NEW id, NEW borrower \in Borrowers, NEW principal, NEW collateral, NEW vault_id \in Nat
  PROVE  LET new == NewRedeemableLoan(id, borrower, principal, collateral, vault_id)
         IN  IsLoan(new) /\ new.borrower = borrower /\ new.vault_id = vault_id
  BY DEF NewRedeemableLoan, IsLoan, LoanFields

-----------------------------------------------------------------------------
(* The actions: the loan stays in its vault.                               *)

LEMMA AddCollateralShares ==
  ASSUME VaultInv, NEW loan \in loans, NEW tx, NEW amount, AddCollateral(tx, loan, amount)
  PROVE  VaultInv'
  <1>1. IsLoan(loan)
    BY DEF VaultInv
  <1> DEFINE new == [loan EXCEPT !.collateral_amount = @ + amount]
  <1>2. IsLoan(new) /\ VaultOf(new) = VaultOf(loan) /\ LoanId(new) = LoanId(loan)
    BY <1>1, UpdatedLoan
  <1>3. loans' = Stored(loans, new) /\ vault_count' = vault_count
    BY DEF AddCollateral
  <1> QED BY <1>2, <1>3, UpdateKept

LEMMA RemoveCollateralShares ==
  ASSUME VaultInv, NEW loan \in loans, NEW tx, NEW amount, NEW refused,
         RemoveCollateral(tx, loan, amount, refused)
  PROVE  VaultInv'
  <1>1. IsLoan(loan)
    BY DEF VaultInv
  <1> DEFINE new == [loan EXCEPT !.collateral_amount = loan.collateral_amount - amount]
  <1>2. IsLoan(new) /\ VaultOf(new) = VaultOf(loan) /\ LoanId(new) = LoanId(loan)
    BY <1>1, UpdatedLoan
  <1>3. loans' = Stored(loans, new) /\ vault_count' = vault_count
    BY DEF RemoveCollateral
  <1> QED BY <1>2, <1>3, UpdateKept

LEMMA RedeemShares ==
  ASSUME VaultInv, NEW loan \in loans, NEW tx, NEW residual, NEW refused,
         Redeem(tx, loan, residual, refused)
  PROVE  VaultInv'
  <1>1. IsLoan(loan)
    BY DEF VaultInv
  <1> DEFINE new == [loan EXCEPT !.redeem_start = now, !.redeem_residual_collateral = residual]
  <1>2. loans' = Stored(loans, new) /\ vault_count' = vault_count
    BY DEF Redeem
  <1>3. new = [f \in LoanFields |-> new[f]]
    BY <1>1 DEF IsLoan, LoanFields
  <1>4. \A f \in LoanFields \ {"redeem_start", "redeem_residual_collateral"} : new[f] = loan[f]
    BY <1>1 DEF IsLoan, LoanFields
  <1> HIDE DEF new
  <1>5. IsLoan(new) /\ VaultOf(new) = VaultOf(loan) /\ LoanId(new) = LoanId(loan)
    BY <1>1, <1>3, <1>4, SamePlace DEF LoanFields
  <1> QED BY <1>2, <1>5, UpdateKept

LEMMA IssuerReturnsShares ==
  ASSUME VaultInv, NEW loan \in loans, IssuerReturns(loan)
  PROVE  VaultInv'
  <1>1. IsLoan(loan)
    BY DEF VaultInv
  <1> DEFINE new == [loan EXCEPT !.returned = TRUE]
  <1>2. IsLoan(new) /\ VaultOf(new) = VaultOf(loan) /\ LoanId(new) = LoanId(loan)
    BY <1>1, UpdatedLoan
  <1>3. loans' = Stored(loans, new) /\ vault_count' = vault_count
    BY DEF IssuerReturns
  <1> QED BY <1>2, <1>3, UpdateKept

LEMMA MaturityExtendedShares ==
  ASSUME VaultInv, NEW loan \in loans, NEW new_maturity, MaturityExtended(loan, new_maturity)
  PROVE  VaultInv'
  <1>1. IsLoan(loan)
    BY DEF VaultInv
  <1> DEFINE new == [loan EXCEPT !.maturity = new_maturity]
  <1>2. IsLoan(new) /\ VaultOf(new) = VaultOf(loan) /\ LoanId(new) = LoanId(loan)
    BY <1>1, UpdatedLoan
  <1>3. loans' = Stored(loans, new) /\ vault_count' = vault_count
    BY DEF MaturityExtended
  <1> QED BY <1>2, <1>3, UpdateKept

LEMMA PartiallyLiquidateLoanShares ==
  ASSUME VaultInv, NEW loan \in loans, NEW tx, NEW refused,
         PartiallyLiquidateLoan(tx, loan, refused)
  PROVE  VaultInv'
  <1>1. IsLoan(loan)
    BY DEF VaultInv
  <1> DEFINE healing == Healing!HealingLiquidation(loan)
             debt_left == OutstandingDebt(loan) - healing.written_off
             left == loan.collateral_amount - (healing.claimed + healing.fee)
             new == [loan EXCEPT !.amount = debt_left, !.accrual_start_time = now,
                                 !.collateral_amount = left]
  <1>2. loans' = Stored(loans, new) /\ vault_count' = vault_count
    BY DEF PartiallyLiquidateLoan
  <1> HIDE DEF healing, debt_left, left
  <1>3. new = [f \in LoanFields |-> new[f]]
    BY <1>1 DEF IsLoan, LoanFields
  <1>4. \A f \in LoanFields \ {"amount", "accrual_start_time", "collateral_amount"} :
           new[f] = loan[f]
    BY <1>1 DEF IsLoan, LoanFields
  <1> HIDE DEF new
  <1>5. IsLoan(new) /\ VaultOf(new) = VaultOf(loan) /\ LoanId(new) = LoanId(loan)
    BY <1>1, <1>3, <1>4, SamePlace DEF LoanFields
  <1> QED BY <1>2, <1>5, UpdateKept

-----------------------------------------------------------------------------
(* The actions: a loan takes the place of another, goes, or comes.         *)

LEMMA ReplacementShares ==
  ASSUME VaultInv, NEW loan \in loans, NEW id, NEW principal, NEW collateral,
         loans' = Vaulted!Replaced(loan, NewRedeemableLoan(id, loan.borrower, principal,
                                                           collateral, loan.vault_id)),
         vault_count' = vault_count
  PROVE  VaultInv'
  <1> DEFINE new == NewRedeemableLoan(id, loan.borrower, principal, collateral, loan.vault_id)
  <1>1. IsLoan(loan)
    BY DEF VaultInv
  <1>2. loan.borrower \in Borrowers /\ loan.vault_id \in Nat
    BY <1>1 DEF IsLoan
  <1>3. IsLoan(new) /\ new.borrower = loan.borrower /\ new.vault_id = loan.vault_id
    BY <1>2, NewLoanInItsVault
  <1>4. VaultOf(new) = VaultOf(loan)
    BY <1>3 DEF VaultOf
  <1>5. loans' \subseteq (loans \ {loan}) \cup {new}
    BY DEF Vaulted!Replaced, Vaulted!Stored
  <1> QED BY <1>3, <1>4, <1>5, VaultKept

LEMMA CreateLoanShares ==
  ASSUME VaultInv, NEW tx, NEW id, NEW principal, NEW collateral,
         CreateLoan(tx, id, principal, collateral)
  PROVE  VaultInv'
  <1> DEFINE borrower == Actor(tx)
             new == NewRedeemableLoan(id, borrower, principal, collateral, vault_count[borrower])
  <1>1. /\ borrower \in Borrowers
        /\ loans' = Stored(loans, new)
        /\ vault_count' = Counted(borrower)
    BY DEF CreateLoan
  <1>2. vault_count[borrower] \in Nat
    BY <1>1 DEF VaultInv
  <1>3. IsLoan(new) /\ new.borrower = borrower /\ new.vault_id = vault_count[borrower]
    BY <1>1, <1>2, NewLoanInItsVault
  <1>4. loans' \subseteq loans \cup {new}
    BY <1>1 DEF Stored
  <1> HIDE DEF new
  <1> QED BY <1>1, <1>3, <1>4, NextVaultTaken

LEMMA TransferLoanShares ==
  ASSUME VaultInv, NEW loan \in loans, NEW tx, NEW new_borrower \in Borrowers, NEW refused,
         TransferLoan(tx, loan, new_borrower, refused)
  PROVE  VaultInv'
  <1> DEFINE new == [loan EXCEPT !.borrower = new_borrower,
                                 !.vault_id = vault_count[new_borrower]]
  <1>1. /\ loans' = Stored(loans, new) \ {loan}
        /\ vault_count' = Counted(new_borrower)
    BY DEF TransferLoan
  <1>2. IsLoan(loan) /\ vault_count[new_borrower] \in Nat
    BY DEF VaultInv
  <1>3. IsLoan(new) /\ new.borrower = new_borrower /\ new.vault_id = vault_count[new_borrower]
    BY <1>2 DEF IsLoan, LoanFields
  <1>4. loans' \subseteq loans \cup {new}
    BY <1>1 DEF Stored
  <1> HIDE DEF new
  <1> QED BY <1>1, <1>3, <1>4, NextVaultTaken

\* Of the other steps none touches a loan or the count, but for those that close one.
LEMMA CommonStepShares ==
  ASSUME CommonStep
  PROVE  loans' = loans
  <1>1. ASSUME NEW sender, Administration(sender) \/ SetSecuritizeRedemptionWallet(sender)
        PROVE  loans' = loans
    BY <1>1 DEF Administration, SetPartialLiquidationFee, SetFullLiquidationFee, SetProtocolFee,
                ChangeProtocolWallet, ChangeVaultRegistrar, SetRefinanceAddr,
                SetLiquidationAddr, SetProxyAuthorization, ProposeOwner, ClaimOwnership,
                SetTransferAgent, SetSecuritizeRedemptionWallet, OwnerSets, book
  <1>2. ASSUME NEW tx, NEW id, RevokeOffer(tx, id) PROVE loans' = loans
    BY <1>2 DEF RevokeOffer
  <1>3. ASSUME NEW wallet, ClaimPendingTransfers(wallet) PROVE loans' = loans
    BY <1>3 DEF ClaimPendingTransfers, book
  <1>4. CASE Tick
    BY <1>4 DEF Tick
  <1>5. CASE OracleUpdate
    BY <1>5 DEF OracleUpdate
  <1> QED BY <1>1, <1>2, <1>3, <1>4, <1>5 DEF CommonStep

LEMMA LoanStepShares ==
  ASSUME VaultInv, NEW tx, NEW loan \in loans, LoanStep(tx, loan)
  PROVE  VaultInv'
  <1>1. ASSUME NEW amount, AddCollateral(tx, loan, amount) PROVE VaultInv'
    BY <1>1, AddCollateralShares
  <1>2. ASSUME NEW m, ExtendLoan(tx, loan, MaxMaturity, m) \/ ExtendLoanLender(tx, loan, m)
        PROVE  VaultInv'
    BY <1>2, MaturityExtendedShares DEF ExtendLoan, ExtendLoanLender
  <1>3. ASSUME NEW refused, NEW result,
               SettleLoan(tx, loan, result, refused) \/ LiquidateLoan(tx, loan, result, refused)
        PROVE  VaultInv'
    <2>1. loans' \subseteq loans /\ vault_count' = vault_count
      BY <1>3 DEF SettleLoan, LiquidateLoan
    <2> QED BY <2>1, LoansGone
  <1>4. ASSUME NEW refused, PartiallyLiquidateLoan(tx, loan, refused) PROVE VaultInv'
    BY <1>4, PartiallyLiquidateLoanShares
  <1>5. ASSUME NEW refused, NEW amount, RemoveCollateral(tx, loan, amount, refused)
        PROVE  VaultInv'
    BY <1>5, RemoveCollateralShares
  <1>6. ASSUME NEW refused, NEW residual, Redeem(tx, loan, residual, refused) PROVE VaultInv'
    BY <1>6, RedeemShares
  <1>7. ASSUME NEW refused, NEW b \in Borrowers, TransferLoan(tx, loan, b, refused)
        PROVE  VaultInv'
    BY <1>7, TransferLoanShares
  <1>8. ASSUME NEW refused, NEW id, NEW principal,
               ReplaceLoanLender(tx, loan, id, principal, refused)
        PROVE  VaultInv'
    BY <1>8, ReplacementShares DEF ReplaceLoanLender
  <1>9. ASSUME NEW refused, NEW id, NEW principal, NEW collateral,
               ReplaceLoan(tx, loan, id, principal, collateral, refused)
        PROVE  VaultInv'
    BY <1>9, ReplacementShares DEF ReplaceLoan
  <1> QED BY <1>1, <1>2, <1>3, <1>4, <1>5, <1>6, <1>7, <1>8, <1>9 DEF LoanStep

-----------------------------------------------------------------------------
LEMMA VaultInit == Init => VaultInv
  <1> SUFFICES ASSUME Init PROVE VaultInv
    OBVIOUS
  <1>1. loans = {} /\ vault_count \in [Borrowers -> Nat]
    BY DEF Init
  <1> QED BY <1>1 DEF VaultInv, VaultsNotShared

LEMMA VaultNext == VaultInv /\ [Next]_secVars => VaultInv'
  <1> SUFFICES ASSUME VaultInv, [Next]_secVars PROVE VaultInv'
    OBVIOUS
  <1>1. CASE CommonStep /\ UNCHANGED <<vault_count, redemptions>>
    BY <1>1, CommonStepShares, LoansGone
  <1>2. ASSUME NEW tx, NEW id, NEW principal, NEW collateral,
               CreateLoan(tx, id, principal, collateral)
        PROVE  VaultInv'
    BY <1>2, CreateLoanShares
  <1>3. ASSUME NEW tx, NEW loan \in loans, LoanStep(tx, loan) PROVE VaultInv'
    BY <1>3, LoanStepShares
  <1>4. ASSUME NEW loan \in loans, IssuerReturns(loan) PROVE VaultInv'
    BY <1>4, IssuerReturnsShares
  <1>5. ASSUME NEW loan \in loans, SignRedeemResult(loan) PROVE VaultInv'
    <2>1. loans' = loans /\ vault_count' = vault_count
      BY <1>5 DEF SignRedeemResult, vars
    <2> QED BY <2>1, LoansGone
  <1>6. ASSUME NEW b, CreateVaultIfNeeded(b) PROVE VaultInv'
    <2>1. loans' = loans /\ vault_count' = vault_count
      BY <1>6 DEF CreateVaultIfNeeded, book
    <2> QED BY <2>1, LoansGone
  <1>7. ASSUME NEW key, NEW tx, Buy(tx, key) PROVE VaultInv'
    <2>1. loans' = loans /\ vault_count' = vault_count
      BY <1>7 DEF Buy, book
    <2> QED BY <2>1, LoansGone
  <1>8. ASSUME NEW key, NEW wallet, WithdrawPendingCollateral(key, wallet) PROVE VaultInv'
    <2>1. loans' = loans /\ vault_count' = vault_count
      BY <1>8 DEF WithdrawPendingCollateral, book
    <2> QED BY <2>1, LoansGone
  <1>9. CASE UNCHANGED secVars
    <2>1. loans' = loans /\ vault_count' = vault_count
      BY <1>9 DEF secVars, vars
    <2> QED BY <2>1, LoansGone
  <1> QED BY <1>1, <1>2, <1>3, <1>4, <1>5, <1>6, <1>7, <1>8, <1>9 DEF Next

\* No sequence of creations, replacements and transfers gives two loans one
\* vault, or a loan a vault that a later loan would take.
THEOREM VaultsAreNotShared == Spec => []VaultsNotShared
  <1>1. VaultInv => VaultsNotShared
    BY DEF VaultInv
  <1> QED BY <1>1, VaultInit, VaultNext, PTL DEF Spec

-----------------------------------------------------------------------------
(* Types and payments.  The invariant adds to the types what a step needs  *)
(* of the loan it starts from: interest accrues from a moment within the   *)
(* loan's term, the collateral is not zero, the initial ltv is below the   *)
(* liquidation ltv, the settlement fee is at most BPS; that the contract   *)
(* holds what it owes; and that a vault holds what it owes, which is what  *)
(* its pending transfers add up to.                                        *)

\* A loan at time t.
SoundLoan(l, t) ==
    /\ l \in SecuritizeLoan
    /\ l.lender = Offer[l.offer_id].lender
    /\ l.offer_tracing_id = Offer[l.offer_id].tracing_id
    /\ l.accrual_start_time <= t
    /\ l.accrual_start_time <= l.maturity
    /\ l.collateral_amount > 0
    /\ l.liquidation_ltv > 0 => l.liquidation_ltv > l.initial_ltv
    /\ l.protocol_settlement_fee <= BPS

LoansSound(ls, t) == \A l \in ls : SoundLoan(l, t)

VaultSound(v) == v \in VaultRecord /\ v.total <= v.balance /\ Summed(v)

VaultsSound(vs) ==
    /\ vs = [key \in VaultKeys |-> vs[key]]
    /\ \A key \in VaultKeys : VaultSound(vs[key])

Sound ==
    /\ config \in ConfigRecord
    /\ LoansSound(loans, now)
    /\ commited_liquidity \in [LiquidityKeys -> Nat]
    /\ revoked_offers \subseteq OfferIds
    /\ funds \in Funds /\ Unowed(funds) = 0
    /\ VaultsSound(vaults)
    /\ rate \in OracleRates
    /\ now \in Nat
    /\ drifted \subseteq LiquidityKeys
    /\ vault_count \in [Borrowers -> 0..MaxVaults]
    /\ proceeds \in [VaultKeys -> Nat]
    /\ results \subseteq RedeemResult

-----------------------------------------------------------------------------
(* Vaults.                                                                 *)

LEMMA KeyTyped ==
  ASSUME NEW key \in VaultKeys
  PROVE  key[1] \in Borrowers /\ key[1] \in Wallets /\ key \in Wallets
  BY SecuritizeAssumption, BaseAssumption DEF VaultKeys

LEMMA CreatedSound ==
  ASSUME NEW vs, VaultsSound(vs), NEW key \in VaultKeys
  PROVE  /\ VaultsSound(VaultCreated(vs, key))
         /\ \A k \in VaultKeys : /\ Unclaimed(VaultCreated(vs, key)[k]) = Unclaimed(vs[k])
                                 /\ VaultCreated(vs, key)[k].deployed = (k = key \/ vs[k].deployed)
  <1> DEFINE v == [vs[key] EXCEPT !.deployed = TRUE]
             r == VaultCreated(vs, key)
  <1>1. /\ VaultSound(v) /\ v.deployed /\ Unclaimed(v) = Unclaimed(vs[key])
    BY DEF VaultsSound, VaultSound, VaultRecord, Summed, Unclaimed
  <1>2. r = [vs EXCEPT ![key] = v]
    BY DEF VaultCreated
  <1>3. \A k \in VaultKeys : vs[k].deployed \in BOOLEAN
    BY DEF VaultsSound, VaultSound, VaultRecord
  <1> HIDE DEF v
  <1>4. /\ r = [k \in VaultKeys |-> r[k]] /\ r[key] = v
        /\ \A k \in VaultKeys \ {key} : r[k] = vs[k]
    BY <1>2 DEF VaultsSound
  <1> HIDE DEF r
  <1>5. VaultsSound(r)
    BY <1>1, <1>4 DEF VaultsSound
  <1>6. ASSUME NEW k \in VaultKeys
        PROVE  Unclaimed(r[k]) = Unclaimed(vs[k]) /\ r[k].deployed = (k = key \/ vs[k].deployed)
    BY <1>1, <1>3, <1>4
  <1> QED BY <1>5, <1>6 DEF r

LEMMA PaidInSound ==
  ASSUME NEW vs, VaultsSound(vs), NEW key \in VaultKeys, NEW amount \in Nat,
         DepositAllowed(vs[key], amount, key[1])
  PROVE  VaultsSound(CollateralPaidIn(vs, key, amount))
  <1> DEFINE v == Deposited(vs[key], amount, key[1])
  <1>1. VaultSound(vs[key]) /\ key[1] \in Wallets
    BY KeyTyped DEF VaultsSound
  <1>2. VaultSound(v)
    BY <1>1, DepositSafe, DepositSummed DEF VaultSound
  <1>3. CollateralPaidIn(vs, key, amount) = [vs EXCEPT ![key] = v]
    BY DEF CollateralPaidIn
  <1> HIDE DEF v
  <1> QED BY <1>2, <1>3 DEF VaultsSound

\* What the vault may still release is less by the amount.
LEMMA SentSound ==
  ASSUME NEW vs, VaultsSound(vs), NEW key \in VaultKeys, NEW amount \in Nat,
         NEW wallet \in Wallets, NEW refused, WithdrawAllowed(vs[key], amount)
  PROVE  LET sent == CollateralSent(vs, key, wallet, amount, refused)
         IN  /\ VaultsSound(sent)
             /\ Unclaimed(sent[key]) = Unclaimed(vs[key]) - amount
             /\ \A k \in VaultKeys \ {key} : sent[k] = vs[k]
             /\ sent[key].deployed
  <1> DEFINE r == CollateralRefused(wallet, refused)
             v == Withdrawn(vs[key], amount, wallet, r)
  <1>1. VaultSound(vs[key]) /\ r \in BOOLEAN
    BY DEF VaultsSound, CollateralRefused
  <1>2. CollateralSent(vs, key, wallet, amount, refused) = [vs EXCEPT ![key] = v]
    BY DEF CollateralSent
  <1> HIDE DEF r
  <1>3. VaultSound(v) /\ Unclaimed(v) = Unclaimed(vs[key]) - amount
    <2>1. vs[key] \in VaultRecord /\ vs[key].total <= vs[key].balance /\ Summed(vs[key])
      BY <1>1 DEF VaultSound
    <2>2. v \in VaultRecord /\ v.total <= v.balance
      BY <1>1, <2>1, WithdrawSafe
    <2>4. Unclaimed(v) = Unclaimed(vs[key]) - amount
      <3> DEFINE old == vs[key]
      <3>1. old \in VaultRecord /\ old.total <= old.balance /\ WithdrawAllowed(old, amount)
        BY <2>1
      <3> HIDE DEF old
      <3>2. Unclaimed(Withdrawn(old, amount, wallet, r)) = Unclaimed(old) - amount
        BY <1>1, <3>1, WithdrawSafe
      <3> QED BY <3>2 DEF old
    <2>3. Summed(v)
      BY <2>1, WithdrawSummed
    <2> QED BY <2>2, <2>3, <2>4 DEF VaultSound
  <1>4. v.deployed
    <2>1. vs[key].deployed
      BY DEF WithdrawAllowed
    <2>2. CASE r
      BY <1>1, <2>1, <2>2 DEF Withdrawn, VaultSound, VaultRecord
    <2>3. CASE ~r
      BY <1>1, <2>1, <2>3 DEF Withdrawn, VaultSound, VaultRecord
    <2> QED BY <2>2, <2>3
  <1> HIDE DEF v
  <1> QED BY <1>2, <1>3, <1>4 DEF VaultsSound

\* What can be released can be withdrawn.
LEMMA AllWithdrawable ==
  ASSUME NEW v, VaultSound(v), v.deployed
  PROVE  Unclaimed(v) \in Nat /\ WithdrawAllowed(v, Unclaimed(v))
  BY DEF VaultSound, VaultRecord, Unclaimed, WithdrawAllowed

\* What is received without a call adds to what the vault may release.
LEMMA BalanceAdded ==
  ASSUME NEW vs, VaultsSound(vs), NEW key \in VaultKeys, NEW amount \in Nat
  PROVE  VaultsSound([vs EXCEPT ![key].balance = @ + amount])
  <1> DEFINE v == [vs[key] EXCEPT !.balance = @ + amount]
  <1>1. VaultSound(v)
    BY DEF VaultsSound, VaultSound, VaultRecord, Summed
  <1>2. [vs EXCEPT ![key].balance = @ + amount] = [vs EXCEPT ![key] = v]
    OBVIOUS
  <1> HIDE DEF v
  <1> QED BY <1>1, <1>2 DEF VaultsSound

\* What a purchase pays in, the vault owes to its borrower.
LEMMA BoughtSound ==
  ASSUME NEW vs, VaultsSound(vs), NEW key \in VaultKeys, NEW amount \in Nat
  PROVE  VaultsSound([vs EXCEPT ![key].balance = @ + amount,
                                ![key].pending[key[1]] = @ + amount,
                                ![key].total = @ + amount])
  <1> DEFINE w == key[1]
             old == vs[key]
             more == [old.pending EXCEPT ![w] = old.pending[w] + amount]
             v == [old EXCEPT !.balance = old.balance + amount, !.pending = more,
                              !.total = old.total + amount]
  <1>1. w \in Wallets /\ VaultSound(old)
    BY KeyTyped DEF VaultsSound
  <1>2. more \in [Wallets -> Nat] /\ old.balance + amount \in Nat /\ old.total + amount \in Nat
    BY <1>1 DEF VaultSound, VaultRecord
  <1>3. /\ v.balance = old.balance + amount /\ v.pending = more /\ v.total = old.total + amount
        /\ v \in VaultRecord
    <2> HIDE DEF more
    <2> QED BY <1>1, <1>2 DEF VaultSound, VaultRecord
  <1>4. [vs EXCEPT ![key].balance = @ + amount, ![key].pending[key[1]] = @ + amount,
                   ![key].total = @ + amount] = [vs EXCEPT ![key] = v]
    BY DEF VaultsSound
  <1> HIDE DEF v, old
  <1>5. VaultSound(v)
    <2>1. Summed(v)
      BY <1>1, <1>3, EntryChanged DEF VaultSound
    <2> QED BY <1>1, <1>3, <2>1 DEF VaultSound, VaultRecord
  <1> QED BY <1>4, <1>5 DEF VaultsSound

\* transfer_loan moves all that the vault may release.
LEMMA MovedSound ==
  ASSUME VaultsSound(vaults), NEW key \in VaultKeys, NEW new_key \in VaultKeys,
         key # new_key, vaults[key].deployed, NEW refused
  PROVE  VaultsSound(CollateralMoved(key, new_key, refused))
  <1> DEFINE amount == Unclaimed(vaults[key])
             arrived == IF CollateralRefused(new_key, refused) THEN 0 ELSE amount
             created == VaultCreated(vaults, new_key)
             sent == CollateralSent(created, key, new_key, amount, refused)
  <1>1. /\ VaultsSound(created) /\ Unclaimed(created[key]) = amount /\ created[key].deployed
    BY CreatedSound
  <1>2. amount \in Nat /\ WithdrawAllowed(created[key], amount)
    BY <1>1, AllWithdrawable DEF VaultsSound
  <1>3. arrived \in Nat /\ new_key \in Wallets
    BY <1>2, KeyTyped
  <1>4. CollateralMoved(key, new_key, refused) = [sent EXCEPT ![new_key].balance = @ + arrived]
    BY DEF CollateralMoved
  <1> HIDE DEF amount, created
  <1>5. VaultsSound(sent)
    BY <1>1, <1>2, <1>3, SentSound
  <1> HIDE DEF sent, arrived
  <1>6. VaultsSound([sent EXCEPT ![new_key].balance = @ + arrived])
    BY <1>3, <1>5, BalanceAdded
  <1> QED BY <1>4, <1>6
-----------------------------------------------------------------------------
(* The book of loans.                                                      *)

LEMMA SoundLater ==
  ASSUME NEW t \in Nat, NEW u \in Nat, t <= u, NEW l, SoundLoan(l, t)
  PROVE  SoundLoan(l, u)
  BY DEF SoundLoan, SecuritizeLoan

LEMMA LoanAdded ==
  ASSUME NEW t, NEW ls, LoansSound(ls, t), NEW new, SoundLoan(new, t),
         NEW rs, rs \subseteq ls \cup {new}
  PROVE  LoansSound(rs, t)
  BY DEF LoansSound

LEMMA LoanStored ==
  ASSUME NEW t, NEW ls, LoansSound(ls, t), NEW new, SoundLoan(new, t)
  PROVE  LoansSound(Stored(ls, new), t)
  BY LoanAdded DEF Stored

LEMMA LoanParties ==
  ASSUME Sound, NEW loan \in loans
  PROVE  /\ SoundLoan(loan, now) /\ now \in Nat
         /\ loan.borrower \in Borrowers /\ loan.borrower \in Wallets
         /\ loan.lender \in Wallets
         /\ config.protocol_wallet \in Wallets
         /\ loan.collateral_amount \in Nat /\ loan.collateral_amount > 0
         /\ loan.amount \in Nat
         /\ LiquidityKey(loan.lender, loan.offer_tracing_id) \in LiquidityKeys
         /\ VaultOf(loan) \in VaultKeys
  <1>1. SoundLoan(loan, now) /\ now \in Nat
    BY DEF Sound, LoansSound
  <1>2. loan \in SecuritizeLoan
    BY <1>1 DEF SoundLoan
  <1>3. LiquidityKey(loan.lender, loan.offer_tracing_id) \in LiquidityKeys
    BY <1>1, <1>2, OfferTyped DEF SoundLoan, SecuritizeLoan
  <1>4. config.protocol_wallet \in Wallets
    BY DEF Sound, ConfigRecord
  <1>5. VaultOf(loan) \in VaultKeys
    BY <1>2 DEF VaultOf, VaultKeys, SecuritizeLoan
  <1> QED BY <1>1, <1>2, <1>3, <1>4, <1>5, BaseAssumption DEF SoundLoan, SecuritizeLoan

-----------------------------------------------------------------------------
(* What a loan owes and what new terms make of it.  The formulas of the    *)
(* vaulted protocol's facets are those of this one.                        *)

LEMMA SameFormulas ==
  ASSUME NEW loan
  PROVE  /\ Vaulted!OutstandingDebt(loan) = OutstandingDebt(loan)
         /\ Vaulted!ProtocolSettlementFee(loan)
              = Fee(loan.protocol_settlement_fee, SettlementInterest(loan))
  BY DEF Vaulted!OutstandingDebt, Vaulted!SettlementInterest, Vaulted!Interest,
         Vaulted!ProtocolSettlementFee, Vaulted!Fee,
         OutstandingDebt, SettlementInterest, Interest, Fee

LEMMA DebtNat ==
  ASSUME now \in Nat, NEW loan, SoundLoan(loan, now)
  PROVE  /\ SettlementInterest(loan) \in Nat
         /\ OutstandingDebt(loan) \in Nat
         /\ Vaulted!ProtocolSettlementFee(loan) \in Nat
         /\ Vaulted!ProtocolSettlementFee(loan) <= OutstandingDebt(loan)
  <1>1. /\ loan.amount \in Nat /\ loan.apr \in Nat
        /\ now - loan.accrual_start_time \in Nat
        /\ loan.protocol_settlement_fee \in 0..BPS
    BY MathAssumption DEF SoundLoan, SecuritizeLoan
  <1>2. SettlementInterest(loan) \in Nat
    BY <1>1, InterestNat DEF SettlementInterest
  <1>3. /\ Vaulted!ProtocolSettlementFee(loan) \in Nat
        /\ Vaulted!ProtocolSettlementFee(loan) <= SettlementInterest(loan)
    BY <1>1, <1>2, FeeBound, SameFormulas
  <1> QED BY <1>1, <1>2, <1>3 DEF OutstandingDebt

LEMMA MaxInitialLtvNat ==
  ASSUME rate \in OracleRates, OracleAnswers, NEW offer \in OfferRecord,
         OfferValid(offer), NEW principal \in Nat
  PROVE  MaxInitialLtv(offer, principal) \in Nat
  <1>1. offer.max_iltv \in Nat /\ offer.min_collateral_amount \in Nat
    BY DEF OfferRecord
  <1>2. CASE offer.max_iltv = 0
    <2>1. offer.min_collateral_amount \in Nat \ {0}
      BY <1>1, <1>2 DEF OfferValid
    <2> QED BY <1>2, <2>1, LtvNat, RateTyped DEF MaxInitialLtv
  <1>3. CASE offer.max_iltv # 0
    BY <1>1, <1>3 DEF MaxInitialLtv
  <1> QED BY <1>2, <1>3

\* A loan made on an accepted offer is sound.
LEMMA NewLoanSound ==
  ASSUME Sound, NEW id \in OfferIds, NEW borrower \in Borrowers, NEW principal \in Nat,
         NEW collateral \in Nat, NEW vault_id \in VaultIds,
         RedeemableOfferAccepted(Offer[id], borrower, principal, collateral)
  PROVE  SoundLoan(NewRedeemableLoan(id, borrower, principal, collateral, vault_id), now)
  <1> DEFINE offer == Offer[id]
             ltv == MaxInitialLtv(offer, principal)
             new == NewRedeemableLoan(id, borrower, principal, collateral, vault_id)
  <1>1. offer \in OfferRecord
    BY OfferTyped
  <1>2. /\ now \in Nat /\ rate \in OracleRates
        /\ config.protocol_settlement_fee \in Nat /\ config.protocol_settlement_fee <= BPS
        /\ config.partial_liquidation_fee \in Nat /\ config.full_liquidation_fee \in Nat
    BY ConfigAssumption, LimitsAssumption, MathAssumption DEF Sound, ConfigRecord
  <1>3. /\ OracleAnswers /\ OfferValid(offer) /\ collateral > 0
        /\ offer.liquidation_ltv > 0 => offer.liquidation_ltv > ltv
    BY DEF RedeemableOfferAccepted, OfferAccepted, LtvAccepted
  <1>4. ltv \in Nat
    BY <1>1, <1>2, <1>3, MaxInitialLtvNat
  <1>5. /\ offer.apr \in Nat /\ offer.duration \in Nat
        /\ offer.min_collateral_amount \in Nat /\ offer.liquidation_ltv \in Nat
        /\ offer.lender \in Wallets /\ offer.tracing_id \in STRING
    BY <1>1 DEF OfferRecord
  <1>6. now + offer.duration \in Nat
    BY <1>2, <1>5
  <1>7. new \in SecuritizeLoan
    <2> HIDE DEF ltv
    <2> QED BY <1>2, <1>4, <1>5, <1>6 DEF NewRedeemableLoan, SecuritizeLoan, ltv
  <1>8. /\ new.offer_id = id /\ new.lender = offer.lender
        /\ new.offer_tracing_id = offer.tracing_id
        /\ new.accrual_start_time = now /\ new.maturity = now + offer.duration
        /\ new.collateral_amount = collateral
        /\ new.liquidation_ltv = offer.liquidation_ltv /\ new.initial_ltv = ltv
        /\ new.protocol_settlement_fee = config.protocol_settlement_fee
    BY DEF NewRedeemableLoan
  <1> HIDE DEF new, ltv
  <1>9. SoundLoan(new, now)
    BY <1>2, <1>3, <1>4, <1>5, <1>6, <1>7, <1>8 DEF SoundLoan
  <1> QED BY <1>9 DEF new

LEMMA ReducedLoanSound ==
  ASSUME now \in Nat, NEW loan, SoundLoan(loan, now), ~Matured(loan),
         NEW amount \in Nat, NEW collateral \in Nat \ {0}
  PROVE  SoundLoan([loan EXCEPT !.amount = amount, !.accrual_start_time = now,
                                !.collateral_amount = collateral], now)
  <1> DEFINE new == [loan EXCEPT !.amount = amount, !.accrual_start_time = now,
                                 !.collateral_amount = collateral]
  <1>1. new \in SecuritizeLoan
    BY DEF SoundLoan, SecuritizeLoan
  <1>2. new.accrual_start_time = now /\ new.collateral_amount = collateral
    BY DEF SoundLoan, SecuritizeLoan
  <1>3. /\ new.lender = loan.lender /\ new.offer_id = loan.offer_id
        /\ new.offer_tracing_id = loan.offer_tracing_id
        /\ new.maturity = loan.maturity
        /\ new.liquidation_ltv = loan.liquidation_ltv
        /\ new.initial_ltv = loan.initial_ltv
        /\ new.protocol_settlement_fee = loan.protocol_settlement_fee
    OBVIOUS
  <1>4. now <= loan.maturity
    BY DEF Matured, SoundLoan, SecuritizeLoan
  <1> HIDE DEF new
  <1>5. SoundLoan(new, now)
    BY <1>1, <1>2, <1>3, <1>4 DEF SoundLoan
  <1> QED BY <1>5 DEF new

LEMMA NewTerms ==
  ASSUME Sound, NEW loan \in loans, NEW id \in OfferIds, NEW principal \in Nat
  PROVE  /\ Vaulted!NewPrincipal(loan, principal) \in Nat
         /\ Fee(Offer[id].origination_fee_bps, principal) \in Nat
         /\ Fee(config.protocol_upfront_fee, principal) \in Nat
         /\ Offer[id].origination_fee_bps <= BPS =>
               Fee(Offer[id].origination_fee_bps, principal) <= principal
  <1>1. Vaulted!NewPrincipal(loan, principal) \in Nat
    BY LoanParties, DebtNat, SameFormulas DEF Vaulted!NewPrincipal
  <1>2. Offer[id].origination_fee_bps \in Nat /\ config.protocol_upfront_fee \in Nat
    BY OfferTyped, ConfigAssumption, LimitsAssumption DEF OfferRecord, Sound, ConfigRecord
  <1>3. /\ Fee(Offer[id].origination_fee_bps, principal) \in Nat
        /\ Fee(config.protocol_upfront_fee, principal) \in Nat
    BY <1>2, FeeNat
  <1>4. ASSUME Offer[id].origination_fee_bps <= BPS
        PROVE  Fee(Offer[id].origination_fee_bps, principal) <= principal
    <2>1. Offer[id].origination_fee_bps \in 0..BPS
      BY <1>2, <1>4, MathAssumption
    <2> QED BY <2>1, FeeBound
  <1> QED BY <1>1, <1>3, <1>4
-----------------------------------------------------------------------------
(* The payments of the operations.                                         *)

LEMMA PaidIn ==
  ASSUME NEW f \in Funds, NEW amount \in Nat
  PROVE  /\ Vaulted!Received(f, amount) \in Funds
         /\ Unowed(Vaulted!Received(f, amount)) = Unowed(f) + amount
  <1>1. Vaulted!Received(f, amount) = Received(f, amount)
    BY DEF Vaulted!Received, Received
  <1> QED BY <1>1, ReceivedTyped

LEMMA PaidTo ==
  ASSUME NEW f \in Funds, NEW amount \in Nat, NEW to \in Wallets, NEW refused
  PROVE  /\ Vaulted!Sent(f, to, amount, refused) \in Funds
         /\ Unowed(Vaulted!Sent(f, to, amount, refused)) = Unowed(f) - amount
  <1>1. Vaulted!Sent(f, to, amount, refused) = Sent(f, to, amount, refused)
    BY DEF Vaulted!Sent, Sent
  <1> QED BY <1>1, SentTyped

LEMMA PaidEither ==
  ASSUME NEW f \in Funds, NEW delta \in Int, NEW to \in Wallets, NEW refused
  PROVE  /\ Vaulted!Settled(f, to, delta, refused) \in Funds
         /\ Unowed(Vaulted!Settled(f, to, delta, refused)) = Unowed(f) - delta
  <1>1. Vaulted!Settled(f, to, delta, refused) = Settled(f, to, delta, refused)
    BY DEF Vaulted!Settled, Vaulted!Sent, Vaulted!Received, Settled, Sent, Received
  <1> QED BY <1>1, SettledTyped

\* What the parties of a refinancing pay and get cancels out.
LEMMA ReplaceFundsSettled ==
  ASSUME Sound, NEW loan \in loans, NEW id \in OfferIds, NEW principal \in Nat, NEW refused,
         Offer[id].origination_fee_bps <= BPS
  PROVE  /\ Vaulted!ReplaceFunds(loan, Offer[id], principal, refused) \in Funds
         /\ Unowed(Vaulted!ReplaceFunds(loan, Offer[id], principal, refused)) = 0
  <1> DEFINE offer == Offer[id]
             debt == Vaulted!OutstandingDebt(loan)
             origination == Vaulted!Fee(offer.origination_fee_bps, principal)
             upfront == Vaulted!Fee(config.protocol_upfront_fee, principal)
             fee == Vaulted!ProtocolSettlementFee(loan)
             borrower_delta == principal - (debt + origination)
             old_lender_delta == debt - fee
             new_lender_delta == Vaulted!NewLenderDelta(offer, principal)
             paid_in == Vaulted!Received(funds, Vaulted!MaxOf(0, -borrower_delta))
             lenders == IF loan.lender = offer.lender
                   THEN Vaulted!Settled(paid_in, loan.lender,
                                        old_lender_delta + new_lender_delta, refused)
                   ELSE Vaulted!Sent(Vaulted!Received(paid_in, Vaulted!MaxOf(0, -new_lender_delta)),
                             loan.lender, old_lender_delta, refused)
             borrower == Vaulted!Sent(lenders, loan.borrower,
                                      Vaulted!MaxOf(0, borrower_delta), refused)
  <1>1. /\ origination \in Nat /\ upfront \in Nat
        /\ debt \in Nat /\ fee \in Nat /\ fee <= debt
        /\ origination <= principal
        /\ new_lender_delta = origination - (principal + upfront)
    BY NewTerms, LoanParties, DebtNat, SameFormulas DEF Vaulted!NewLenderDelta, Vaulted!Fee, Fee
  <1>2. /\ loan.borrower \in Wallets /\ loan.lender \in Wallets
        /\ config.protocol_wallet \in Wallets /\ funds \in Funds
    BY LoanParties DEF Sound
  <1> HIDE DEF origination, upfront, new_lender_delta, debt, fee
  <1>3. /\ borrower_delta \in Int /\ old_lender_delta \in Nat /\ fee + upfront \in Nat
        /\ Vaulted!MaxOf(0, -borrower_delta) \in Nat /\ Vaulted!MaxOf(0, borrower_delta) \in Nat
        /\ Vaulted!MaxOf(0, -new_lender_delta) \in Nat
        /\ new_lender_delta \in Int /\ old_lender_delta + new_lender_delta \in Int
    BY <1>1 DEF Vaulted!MaxOf
  <1>4. paid_in \in Funds /\ Unowed(paid_in) = Vaulted!MaxOf(0, -borrower_delta)
    BY <1>2, <1>3, PaidIn DEF Sound
  <1>5. lenders \in Funds /\ Unowed(lenders) = Vaulted!MaxOf(0, -borrower_delta)
                                            - (old_lender_delta + new_lender_delta)
    <2> HIDE DEF borrower_delta, old_lender_delta, paid_in
    <2>1. CASE loan.lender = offer.lender
      BY <1>2, <1>3, <1>4, <2>1, PaidEither
    <2>2. CASE loan.lender # offer.lender
      <3> DEFINE both == Vaulted!Received(paid_in, Vaulted!MaxOf(0, -new_lender_delta))
      <3>1. both \in Funds /\ Unowed(both) = Unowed(paid_in) + Vaulted!MaxOf(0, -new_lender_delta)
        BY <1>3, <1>4, PaidIn
      <3> HIDE DEF both
      <3>2. /\ Vaulted!Sent(both, loan.lender, old_lender_delta, refused) \in Funds
            /\ Unowed(Vaulted!Sent(both, loan.lender, old_lender_delta, refused))
                 = Unowed(both) - old_lender_delta
        BY <1>2, <1>3, <3>1, PaidTo
      <3>3. lenders = Vaulted!Sent(both, loan.lender, old_lender_delta, refused)
        BY <2>2 DEF both
      <3>4. Vaulted!MaxOf(0, -new_lender_delta) = -new_lender_delta
        BY <1>1 DEF Vaulted!MaxOf
      <3> HIDE DEF lenders
      <3> QED BY <1>1, <1>3, <1>4, <3>1, <3>2, <3>3, <3>4
    <2> QED BY <2>1, <2>2
  <1> HIDE DEF lenders, paid_in
  <1>6. borrower \in Funds /\ Unowed(borrower) = Unowed(lenders) - Vaulted!MaxOf(0, borrower_delta)
    BY <1>2, <1>3, <1>5, PaidTo
  <1> HIDE DEF borrower
  <1>7. /\ Vaulted!Sent(borrower, config.protocol_wallet, fee + upfront, refused) \in Funds
        /\ Unowed(Vaulted!Sent(borrower, config.protocol_wallet, fee + upfront, refused))
             = Unowed(borrower) - (fee + upfront)
    BY <1>2, <1>3, <1>6, PaidTo
  <1>8. Vaulted!MaxOf(0, -borrower_delta) - Vaulted!MaxOf(0, borrower_delta) = -borrower_delta
    BY <1>3 DEF Vaulted!MaxOf
  <1>9. Unowed(borrower) - (fee + upfront) = 0
    BY <1>1, <1>3, <1>5, <1>6, <1>8 DEF borrower_delta, old_lender_delta
  <1> QED BY <1>7, <1>9 DEF Vaulted!ReplaceFunds, borrower, lenders, paid_in, old_lender_delta,
             borrower_delta, origination, upfront, new_lender_delta, debt, fee

\* borrower_delta is never negative: the compensation covers what is missing,
\* so the borrower never pays for a sale.
LEMMA ReplaceLenderFundsSettled ==
  ASSUME Sound, NEW loan \in loans, NEW id \in OfferIds, NEW principal \in Nat, NEW refused,
         Offer[id].origination_fee_bps <= BPS
  PROVE  /\ Vaulted!ReplaceLenderFunds(loan, Offer[id], principal, refused) \in Funds
         /\ Unowed(Vaulted!ReplaceLenderFunds(loan, Offer[id], principal, refused)) = 0
  <1> DEFINE offer == Offer[id]
             debt == Vaulted!OutstandingDebt(loan)
             origination == Vaulted!Fee(offer.origination_fee_bps, principal)
             upfront == Vaulted!Fee(config.protocol_upfront_fee, principal)
             fee == Vaulted!ProtocolSettlementFee(loan)
             max_interest_delta == Vaulted!MaxInterestDelta(loan, offer, principal, origination)
             compensation == Vaulted!MaxOf(max_interest_delta, debt + origination - principal)
             borrower_delta == principal + compensation - (debt + origination)
             old_lender_delta == debt - fee - compensation
             new_lender_delta == Vaulted!NewLenderDelta(offer, principal)
             lenders == IF loan.lender = offer.lender
                   THEN Vaulted!Received(funds,
                                         Vaulted!MaxOf(0, -(old_lender_delta + new_lender_delta)))
                   ELSE Vaulted!Settled(Vaulted!Received(funds, Vaulted!MaxOf(0, -new_lender_delta)),
                                        loan.lender, old_lender_delta, refused)
             borrower == Vaulted!Sent(lenders, loan.borrower, borrower_delta, refused)
  <1>1. /\ origination \in Nat /\ upfront \in Nat /\ debt \in Nat /\ fee \in Nat
        /\ origination <= principal
        /\ new_lender_delta = origination - (principal + upfront)
    BY NewTerms, LoanParties, DebtNat, SameFormulas DEF Vaulted!NewLenderDelta, Vaulted!Fee, Fee
  <1>2. /\ loan.borrower \in Wallets /\ loan.lender \in Wallets
        /\ config.protocol_wallet \in Wallets /\ funds \in Funds
    BY LoanParties DEF Sound
  <1> HIDE DEF origination, upfront, new_lender_delta, debt, fee
  <1>3. max_interest_delta \in Int
    <2> DEFINE extra == (origination + principal * offer.apr - loan.amount * loan.apr)
                            * (loan.maturity - now)
               unit == YEAR * BPS
    <2>1. /\ offer.apr \in Int /\ loan.apr \in Int /\ loan.amount \in Int
          /\ loan.maturity \in Int /\ now \in Int
      BY OfferTyped, LoanParties DEF OfferRecord, SoundLoan, SecuritizeLoan
    <2>2. extra \in Int
      BY <1>1, <2>1
    <2>3. unit \in Nat \ {0}
      BY MathAssumption, MulNat
    <2> HIDE DEF extra, unit
    <2>4. extra \div unit \in Int
      BY <2>2, <2>3
    <2>5. Vaulted!MaxOf(origination, Vaulted!MaxOf(0, extra \div unit)) \in Int
      BY <1>1, <2>4 DEF Vaulted!MaxOf
    <2> QED BY <2>5 DEF Vaulted!MaxInterestDelta, extra, unit
  <1> HIDE DEF max_interest_delta
  <1>4. compensation \in Int /\ compensation >= debt + origination - principal
    BY <1>1, <1>3 DEF Vaulted!MaxOf
  <1> HIDE DEF compensation
  <1>5. /\ borrower_delta \in Nat /\ old_lender_delta \in Int /\ fee + upfront \in Nat
        /\ Vaulted!MaxOf(0, -new_lender_delta) \in Nat
        /\ Vaulted!MaxOf(0, -new_lender_delta) = -new_lender_delta
        /\ Vaulted!MaxOf(0, -(old_lender_delta + new_lender_delta)) \in Nat
        /\ Vaulted!MaxOf(0, -(old_lender_delta + new_lender_delta))
             = -(old_lender_delta + new_lender_delta)
    BY <1>1, <1>4 DEF Vaulted!MaxOf
  <1>6. lenders \in Funds /\ Unowed(lenders) = -(old_lender_delta + new_lender_delta)
    <2> HIDE DEF borrower_delta, old_lender_delta
    <2>1. CASE loan.lender = offer.lender
      BY <1>2, <1>5, <2>1, PaidIn DEF Sound
    <2>2. CASE loan.lender # offer.lender
      <3> DEFINE paid_in == Vaulted!Received(funds, Vaulted!MaxOf(0, -new_lender_delta))
      <3>1. paid_in \in Funds /\ Unowed(paid_in) = -new_lender_delta
        BY <1>2, <1>5, PaidIn DEF Sound
      <3> HIDE DEF paid_in
      <3>2. /\ Vaulted!Settled(paid_in, loan.lender, old_lender_delta, refused) \in Funds
            /\ Unowed(Vaulted!Settled(paid_in, loan.lender, old_lender_delta, refused))
                 = Unowed(paid_in) - old_lender_delta
        BY <1>2, <1>5, <3>1, PaidEither
      <3>3. lenders = Vaulted!Settled(paid_in, loan.lender, old_lender_delta, refused)
        BY <2>2 DEF paid_in
      <3> HIDE DEF lenders
      <3> QED BY <1>1, <1>5, <3>1, <3>2, <3>3
    <2> QED BY <2>1, <2>2
  <1> HIDE DEF lenders
  <1>7. borrower \in Funds /\ Unowed(borrower) = Unowed(lenders) - borrower_delta
    <2> HIDE DEF borrower_delta
    <2> QED BY <1>2, <1>5, <1>6, PaidTo
  <1> HIDE DEF borrower
  <1>8. /\ Vaulted!Sent(borrower, config.protocol_wallet, fee + upfront, refused) \in Funds
        /\ Unowed(Vaulted!Sent(borrower, config.protocol_wallet, fee + upfront, refused))
             = Unowed(borrower) - (fee + upfront)
    BY <1>2, <1>5, <1>7, PaidTo
  <1>9. Unowed(borrower) - (fee + upfront) = 0
    BY <1>1, <1>4, <1>5, <1>6, <1>7
  <1> QED BY <1>8, <1>9 DEF Vaulted!ReplaceLenderFunds, borrower, lenders, old_lender_delta,
             borrower_delta, compensation, max_interest_delta, origination, upfront,
             new_lender_delta, debt, fee
\* A settlement pays the lender and the protocol the debt, of the borrower's
\* tokens and of what the redemption paid, and the rest back.
LEMMA SettlementFundsSettled ==
  ASSUME Sound, NEW loan \in loans, NEW payment \in Nat, NEW refused
  PROVE  /\ SettlementFunds(loan, payment, refused) \in Funds
         /\ Unowed(SettlementFunds(loan, payment, refused)) = 0
  <1> DEFINE debt == OutstandingDebt(loan)
             fee == Vaulted!ProtocolSettlementFee(loan)
             delta == payment - debt
             to_lender == debt - fee
             drawn == Received(funds, payment)
             borrower == Settled(drawn, loan.borrower, delta, refused)
             lender == Sent(borrower, loan.lender, to_lender, refused)
             protocol == Sent(lender, config.protocol_wallet, fee, refused)
  <1>1. debt \in Nat /\ fee \in Nat /\ to_lender \in Nat /\ delta \in Int
    BY LoanParties, DebtNat
  <1>2. /\ loan.borrower \in Wallets /\ loan.lender \in Wallets
        /\ config.protocol_wallet \in Wallets
    BY LoanParties
  <1>3. /\ payment - delta = debt /\ debt - to_lender = fee /\ fee - fee = 0
        /\ 0 + payment = payment
    BY <1>1
  <1> HIDE DEF debt, fee, delta, to_lender
  <1>4. drawn \in Funds /\ Unowed(drawn) = payment
    BY <1>3, ReceivedTyped DEF Sound
  <1> HIDE DEF drawn
  <1>5. borrower \in Funds /\ Unowed(borrower) = debt
    BY <1>1, <1>2, <1>3, <1>4, SettledTyped
  <1> HIDE DEF borrower
  <1>6. lender \in Funds /\ Unowed(lender) = fee
    BY <1>1, <1>2, <1>3, <1>5, SentTyped
  <1> HIDE DEF lender
  <1>7. protocol \in Funds /\ Unowed(protocol) = 0
    BY <1>1, <1>2, <1>3, <1>6, SentTyped
  <1> QED BY <1>7 DEF SettlementFunds, protocol, lender, borrower, drawn, to_lender, delta,
             fee, debt

\* The maturity is past the start of the accrual.
LEMMA InterestDueNat ==
  ASSUME Sound, NEW loan \in loans
  PROVE  InterestDue(loan) \in Nat
  <1>1. /\ loan.amount \in Nat /\ loan.apr \in Nat
        /\ loan.maturity - loan.accrual_start_time \in Nat
    BY LoanParties DEF SoundLoan, SecuritizeLoan
  <1>2. LiquidationInterest(loan) \in Nat
    BY <1>1, InterestNat DEF LiquidationInterest
  <1> QED BY <1>2, LoanParties, DebtNat DEF InterestDue

\* A full liquidation divides what the vault holds to the last token: the
\* shares of the payment tokens add up to the payment, and the liquidator gets
\* no more collateral than there is.
LEMMA SplitSound ==
  ASSUME Sound, OracleAnswers, NEW loan \in loans, NEW payment \in Nat, NEW collateral \in Nat
  PROVE  LET split == Split(loan, payment, collateral)
         IN  /\ split.debt \in Nat /\ split.value \in Nat /\ split.fee \in Nat
             /\ split.paid \in Nat /\ split.paid + split.fee = payment
             /\ split.protocol_fee \in Nat /\ split.to_borrower \in Nat
             /\ LenderShare(split) \in Nat /\ LiquidatorShare(split) \in Int
             /\ LiquidatorShare(split) + LenderShare(split) + split.protocol_fee
                   + split.to_borrower = payment
             /\ split.collateral_to_liquidator \in Nat
             /\ collateral - split.collateral_to_liquidator \in Nat
  <1> DEFINE interest == InterestDue(loan)
             debt == loan.amount + interest
             full_fee == Fee(loan.full_liquidation_fee, debt)
             fee == MinOf(full_fee, payment)
             fee_value == CollateralFor(full_fee - fee, rate)
             fee_collateral == MinOf(collateral, fee_value)
             paid == payment - fee
             remaining == collateral - fee_collateral
             value == ValueOf(remaining, rate)
             for_debt == CollateralFor(MaxOf(0, debt - paid), rate)
             settlement_fee == Fee(loan.protocol_settlement_fee, interest)
             price == MinOf(debt, paid + value)
             protocol_fee == MinOf(settlement_fee, paid + value)
             to_borrower == MaxOf(0, paid - debt)
             taken == IF paid >= debt THEN 0
                      ELSE IF paid + value >= debt
                      THEN MinOf(for_debt, remaining) + fee_collateral
                      ELSE collateral
             split == Split(loan, payment, collateral)
  <1>1. /\ loan.amount \in Nat /\ loan.full_liquidation_fee \in Nat
        /\ loan.protocol_settlement_fee \in 0..BPS /\ interest \in Nat
    BY LoanParties, InterestDueNat, MathAssumption DEF SoundLoan, SecuritizeLoan
  <1>2. rate.num \in Nat \ {0} /\ rate.den \in Nat \ {0}
    BY RateTyped DEF Sound, Rates
  <1> HIDE DEF interest
  <1>3. debt \in Nat /\ interest <= debt
    BY <1>1
  <1>4. settlement_fee \in Nat /\ settlement_fee <= debt
    <2>1. settlement_fee \in Nat /\ settlement_fee <= interest
      BY <1>1, FeeBound
    <2> HIDE DEF settlement_fee, debt
    <2> QED BY <2>1, <1>1, <1>3
  <1> HIDE DEF debt, settlement_fee
  <1>5. full_fee \in Nat
    BY <1>1, <1>3, FeeNat
  <1> HIDE DEF full_fee
  <1>6. fee \in Nat /\ paid \in Nat /\ paid + fee = payment /\ full_fee - fee \in Nat
    BY <1>5 DEF MinOf
  <1> HIDE DEF fee, paid
  <1>7. \A x \in Nat : CollateralFor(x, rate) \in Nat /\ ValueOf(x, rate) \in Nat
    <2> SUFFICES ASSUME NEW x \in Nat
                 PROVE  CollateralFor(x, rate) \in Nat /\ ValueOf(x, rate) \in Nat
      OBVIOUS
    <2>1. x * rate.den \in Nat /\ x * rate.num \in Nat
      BY <1>2, MulNat
    <2> QED BY <1>2, <2>1, DivBounds DEF CollateralFor, ValueOf
  <1>8. fee_value \in Nat
    BY <1>6, <1>7
  <1> HIDE DEF fee_value
  <1>9. fee_collateral \in Nat /\ remaining \in Nat /\ fee_collateral + remaining = collateral
    BY <1>8 DEF MinOf
  <1> HIDE DEF fee_collateral, remaining
  <1>10. value \in Nat
    BY <1>7, <1>9
  <1>11. for_debt \in Nat
    <2>1. MaxOf(0, debt - paid) \in Nat
      BY <1>3, <1>6 DEF MaxOf
    <2> QED BY <1>7, <2>1
  <1> HIDE DEF value, for_debt
  <1>12. /\ price \in Nat /\ protocol_fee \in Nat /\ protocol_fee <= price
         /\ to_borrower \in Nat
    BY <1>3, <1>4, <1>6, <1>10 DEF MinOf, MaxOf
  <1>13. taken \in Nat /\ collateral - taken \in Nat
    BY <1>9, <1>11 DEF MinOf
  <1>14. MinOf(debt, paid) \in Int /\ MinOf(debt, paid) + to_borrower = paid
    BY <1>3, <1>6 DEF MinOf, MaxOf
  <1>15. /\ split.debt = debt /\ split.fee = fee /\ split.paid = paid /\ split.value = value
         /\ split.price = price /\ split.protocol_fee = protocol_fee
         /\ split.to_borrower = to_borrower /\ split.collateral_to_liquidator = taken
    BY DEF Split, price, protocol_fee, to_borrower, taken, value, for_debt, remaining,
           fee_collateral, fee_value, paid, fee, full_fee, debt, interest, settlement_fee
  <1> HIDE DEF split, price, protocol_fee, to_borrower, taken
  <1>16. /\ LenderShare(split) = price - protocol_fee
         /\ LiquidatorShare(split) = fee - (price - MinOf(debt, paid))
    BY <1>15 DEF LenderShare, LiquidatorShare
  <1>17. (fee - (price - MinOf(debt, paid))) + (price - protocol_fee) + protocol_fee + to_borrower
           = payment
    BY <1>6, <1>12, <1>14
  <1> QED BY <1>3, <1>6, <1>10, <1>12, <1>13, <1>14, <1>15, <1>16, <1>17 DEF split

\* What the parties of a liquidation pay and get cancels out.
LEMMA LiquidationFundsSettled ==
  ASSUME Sound, OracleAnswers, NEW loan \in loans, NEW payment \in Nat, NEW collateral \in Nat,
         NEW liquidator \in Wallets, NEW refused
  PROVE  LET paid_out == LiquidationFunds(liquidator, loan, Split(loan, payment, collateral),
                                          refused)
         IN  paid_out \in Funds /\ Unowed(paid_out) = 0
  <1> DEFINE split == Split(loan, payment, collateral)
             drawn == Received(funds, split.paid + split.fee)
             to_liquidator == LiquidatorShare(split)
             to_lender == LenderShare(split)
             advanced == Received(drawn, MaxOf(0, -to_liquidator))
             lender == Sent(advanced, loan.lender, to_lender, refused)
             traded == IF liquidator = loan.lender
                       THEN Settled(drawn, liquidator, to_liquidator + to_lender, refused)
                       ELSE Sent(lender, liquidator, MaxOf(0, to_liquidator), refused)
             protocol == Sent(traded, config.protocol_wallet, split.protocol_fee, refused)
             borrower == Sent(protocol, loan.borrower, split.to_borrower, refused)
  <1>1. /\ split.paid + split.fee = payment
        /\ split.protocol_fee \in Nat /\ split.to_borrower \in Nat
        /\ to_lender \in Nat /\ to_liquidator \in Int
        /\ to_liquidator + to_lender + split.protocol_fee + split.to_borrower = payment
    BY SplitSound
  <1>2. /\ loan.borrower \in Wallets /\ loan.lender \in Wallets
        /\ config.protocol_wallet \in Wallets
    BY LoanParties
  <1> HIDE DEF split, to_liquidator, to_lender
  <1>3. drawn \in Funds /\ Unowed(drawn) = payment
    BY <1>1, ReceivedTyped DEF Sound
  <1> HIDE DEF drawn
  <1>4. /\ MaxOf(0, -to_liquidator) \in Nat /\ MaxOf(0, to_liquidator) \in Nat
        /\ MaxOf(0, -to_liquidator) - MaxOf(0, to_liquidator) = -to_liquidator
    BY <1>1 DEF MaxOf
  <1>5. traded \in Funds /\ Unowed(traded) = payment - (to_liquidator + to_lender)
    <2>1. CASE liquidator = loan.lender
      <3>1. to_liquidator + to_lender \in Int
        BY <1>1
      <3> QED BY <1>3, <2>1, <3>1, SettledTyped
    <2>2. CASE liquidator # loan.lender
      <3>1. advanced \in Funds /\ Unowed(advanced) = payment + MaxOf(0, -to_liquidator)
        BY <1>3, <1>4, ReceivedTyped
      <3> HIDE DEF advanced
      <3>2. lender \in Funds /\ Unowed(lender) = Unowed(advanced) - to_lender
        BY <1>1, <1>2, <3>1, SentTyped
      <3> HIDE DEF lender
      <3>3. /\ Sent(lender, liquidator, MaxOf(0, to_liquidator), refused) \in Funds
            /\ Unowed(Sent(lender, liquidator, MaxOf(0, to_liquidator), refused))
                 = Unowed(lender) - MaxOf(0, to_liquidator)
        BY <1>4, <3>2, SentTyped
      <3>4. traded = Sent(lender, liquidator, MaxOf(0, to_liquidator), refused)
        BY <2>2
      <3> HIDE DEF traded
      <3> QED BY <1>1, <1>4, <3>1, <3>2, <3>3, <3>4
    <2> QED BY <2>1, <2>2
  <1> HIDE DEF traded
  <1>6. protocol \in Funds /\ Unowed(protocol) = Unowed(traded) - split.protocol_fee
    BY <1>1, <1>2, <1>5, SentTyped
  <1> HIDE DEF protocol
  <1>7. borrower \in Funds /\ Unowed(borrower) = Unowed(protocol) - split.to_borrower
    BY <1>1, <1>2, <1>6, SentTyped
  <1>8. LiquidationFunds(liquidator, loan, split, refused) = borrower
    BY DEF LiquidationFunds, borrower, protocol, traded, lender, advanced, drawn,
           to_liquidator, to_lender
  <1> HIDE DEF borrower
  <1>9. Unowed(borrower) = 0
    BY <1>1, <1>5, <1>6, <1>7
  <1> QED BY <1>7, <1>8, <1>9 DEF split
-----------------------------------------------------------------------------
(* Every step keeps the types and the balances.                            *)

LEMMA InitSound == Init => Sound
  <1> SUFFICES ASSUME Init PROVE Sound
    OBVIOUS
  <1>1. VaultsSound(vaults)
    <2>1. vaults = [key \in VaultKeys |-> EmptyVault(FALSE)]
      BY DEF Init
    <2>2. VaultSound(EmptyVault(FALSE))
      BY EmptyVaultSafe, EmptyVaultSummed DEF VaultSound
    <2> HIDE DEF Init
    <2> QED BY <2>1, <2>2 DEF VaultsSound
  <1>2. funds \in Funds /\ Unowed(funds) = 0
    BY SumZeros, WalletsAssumption DEF Init, Funds, Unowed
  <1>3. vault_count \in [Borrowers -> 0..MaxVaults] /\ proceeds \in [VaultKeys -> Nat]
    BY SecuritizeAssumption DEF Init
  <1> QED BY <1>1, <1>2, <1>3, ConfigAssumption DEF Init, Sound, LoansSound

LEMMA AdministrationSound ==
  ASSUME config \in ConfigRecord, NEW sender \in Wallets,
         Administration(sender) \/ SetSecuritizeRedemptionWallet(sender)
  PROVE  config' \in ConfigRecord /\ UNCHANGED <<book, assets, environment, drifted>>
  <1>1. UNCHANGED <<book, assets, environment, drifted>>
    BY DEF Administration, SetPartialLiquidationFee, SetFullLiquidationFee, SetProtocolFee,
       ChangeProtocolWallet, ChangeVaultRegistrar, SetRefinanceAddr, SetLiquidationAddr,
       SetProxyAuthorization, ProposeOwner, ClaimOwnership, SetTransferAgent,
       SetSecuritizeRedemptionWallet, OwnerSets
  <1>2. CASE SetPartialLiquidationFee(sender)
    BY <1>1, <1>2 DEF SetPartialLiquidationFee, OwnerSets, ConfigRecord
  <1>3. CASE SetFullLiquidationFee(sender)
    BY <1>1, <1>3 DEF SetFullLiquidationFee, OwnerSets, ConfigRecord
  <1>4. CASE SetProtocolFee(sender)
    <2>1. PICK upfront \in AdminValues.fees, settlement \in AdminValues.fees :
            /\ upfront <= MaxUpfrontFee /\ settlement <= MaxSettlementFee
            /\ config' = [config EXCEPT !.protocol_upfront_fee = upfront,
                                        !.protocol_settlement_fee = settlement]
      BY <1>4 DEF SetProtocolFee
    <2>2. upfront \in 0..MaxUpfrontFee /\ settlement \in 0..MaxSettlementFee
      BY <2>1, LimitsAssumption, AdminAssumption
    <2> QED BY <1>1, <2>1, <2>2 DEF ConfigRecord
  <1>5. CASE ChangeProtocolWallet(sender)
    BY <1>1, <1>5, AdminAssumption DEF ChangeProtocolWallet, OwnerSets, ConfigRecord
  <1>6. CASE ChangeVaultRegistrar(sender)
    BY <1>1, <1>6, AdminAssumption DEF ChangeVaultRegistrar, OwnerSets, ConfigRecord
  <1>7. CASE SetRefinanceAddr(sender)
    BY <1>1, <1>7, AdminAssumption DEF SetRefinanceAddr, OwnerSets, ConfigRecord
  <1>8. CASE SetLiquidationAddr(sender)
    BY <1>1, <1>8, AdminAssumption DEF SetLiquidationAddr, OwnerSets, ConfigRecord
  <1>9. CASE SetProxyAuthorization(sender)
    BY <1>1, <1>9, AdminAssumption DEF SetProxyAuthorization, ConfigRecord
  <1>10. CASE ProposeOwner(sender)
    BY <1>1, <1>10, AdminAssumption DEF ProposeOwner, OwnerSets, ConfigRecord
  <1>11. CASE ClaimOwnership(sender)
    BY <1>1, <1>11 DEF ClaimOwnership, ConfigRecord
  <1>12. CASE SetTransferAgent(sender)
    BY <1>1, <1>12, AdminAssumption DEF SetTransferAgent, ConfigRecord
  <1>13. CASE SetSecuritizeRedemptionWallet(sender)
    BY <1>1, <1>13, ConfigAssumption DEF SetSecuritizeRedemptionWallet, OwnerSets, ConfigRecord
  <1> QED BY <1>2, <1>3, <1>4, <1>5, <1>6, <1>7, <1>8, <1>9, <1>10, <1>11, <1>12, <1>13
          DEF Administration

LEMMA CommonStepSound ==
  ASSUME Sound, CommonStep, UNCHANGED <<vault_count, redemptions>>
  PROVE  Sound'
  <1>1. CASE Tick
    <2>1. LoansSound(loans, now')
      BY <1>1, SoundLater DEF Tick, Sound, LoansSound
    <2> QED BY <1>1, <2>1 DEF Tick, Sound, redemptions
  <1>2. CASE OracleUpdate
    BY <1>2 DEF OracleUpdate, Sound, redemptions
  <1>3. ASSUME NEW tx \in Txs, NEW id \in OfferIds, RevokeOffer(tx, id) PROVE Sound'
    BY <1>3 DEF RevokeOffer, Sound, redemptions, assets, environment
  <1>4. ASSUME NEW tx \in Txs,
               Administration(tx.sender) \/ SetSecuritizeRedemptionWallet(tx.sender)
        PROVE  Sound'
    <2>1. tx.sender \in Wallets
      BY BaseAssumption
    <2> QED BY <1>4, <2>1, AdministrationSound
            DEF Sound, redemptions, book, assets, environment
  <1>5. ASSUME NEW wallet \in Wallets, ClaimPendingTransfers(wallet) PROVE Sound'
    <2>1. funds' \in Funds /\ Unowed(funds') = 0
      BY <1>5, ClaimedTyped DEF Sound
    <2>2. UNCHANGED <<config, book, vaults, environment, drifted>>
      BY <1>5 DEF ClaimPendingTransfers
    <2> QED BY <2>1, <2>2 DEF Sound, redemptions, book, environment
  <1> QED BY <1>1, <1>2, <1>3, <1>4, <1>5 DEF CommonStep, Accounts

LEMMA CreateLoanSound ==
  ASSUME Sound, NEW tx \in Txs, NEW id \in OfferIds, NEW principal \in Principals,
         NEW collateral \in CollateralAmounts, CreateLoan(tx, id, principal, collateral)
  PROVE  Sound'
  <1> DEFINE borrower == Actor(tx)
             vault_id == vault_count[borrower]
             key == <<borrower, vault_id>>
             new == NewRedeemableLoan(id, borrower, principal, collateral, vault_id)
             created == VaultCreated(vaults, key)
  <1>1. /\ borrower \in Borrowers /\ vault_id \in VaultIds
        /\ RedeemableOfferAccepted(Offer[id], borrower, principal, collateral)
        /\ DepositAllowed(created[key], collateral, borrower)
        /\ loans' = Stored(loans, new)
        /\ commited_liquidity' = Committed(commited_liquidity, id, principal)
        /\ revoked_offers' = RevokedAfterUse(id)
        /\ vault_count' = Counted(borrower)
        /\ vaults' = CollateralPaidIn(created, key, collateral)
        /\ UNCHANGED <<config, funds, environment, drifted, redemptions>>
    BY DEF CreateLoan
  <1>2. principal \in Nat /\ collateral \in Nat
    BY BaseAssumption
  <1>3. key \in VaultKeys /\ key[1] = borrower
    BY <1>1 DEF VaultKeys
  <1>4. vault_count' \in [Borrowers -> 0..MaxVaults]
    <2>1. vault_count[borrower] + 1 \in 0..MaxVaults
      BY <1>1, SecuritizeAssumption DEF VaultIds
    <2> HIDE DEF borrower
    <2> QED BY <1>1, <2>1 DEF Counted, Sound
  <1>5. SoundLoan(new, now)
    BY <1>1, <1>2, NewLoanSound
  <1> HIDE DEF new, borrower, vault_id
  <1>6. LoansSound(loans', now)
    BY <1>1, <1>5, LoanStored DEF Sound
  <1>7. commited_liquidity' \in [LiquidityKeys -> Nat]
    BY <1>1, <1>2, CommittedTyped DEF Sound
  <1>8. revoked_offers' \subseteq OfferIds
    BY <1>1 DEF Sound, RevokedAfterUse
  <1> HIDE DEF key
  <1>9. VaultsSound(created)
    BY <1>3, CreatedSound DEF Sound
  <1> HIDE DEF created
  <1>10. VaultsSound(vaults')
    BY <1>1, <1>2, <1>3, <1>9, PaidInSound
  <1> QED BY <1>1, <1>4, <1>6, <1>7, <1>8, <1>10 DEF Sound, environment, redemptions

\* What a result for the loan says is in the vault.
LEMMA ResultTyped ==
  ASSUME Sound, NEW loan \in loans, NEW result \in ResultsFor(loan),
         BalancesConfirmed(loan, result)
  PROVE  /\ InVaultPayment(loan, result) \in Nat
         /\ InVaultPayment(loan, result) <= proceeds[VaultOf(loan)]
         /\ InVaultCollateral(loan, result) \in Nat
         /\ FundsWithdrawn(VaultOf(loan), InVaultPayment(loan, result)) \in [VaultKeys -> Nat]
  <1> DEFINE key == VaultOf(loan)
             payment == InVaultPayment(loan, result)
             left == proceeds[key] - payment
  <1>1. /\ key \in VaultKeys /\ proceeds \in [VaultKeys -> Nat]
        /\ loan.collateral_amount \in Nat /\ loan.redeem_residual_collateral \in Nat
    BY LoanParties DEF Sound, SoundLoan, SecuritizeLoan
  <1>2. /\ payment \in Nat /\ payment <= proceeds[key]
        /\ InVaultCollateral(loan, result) \in Nat
    <2>1. CASE Redeemed(loan)
      <3>1. result \in RedeemResult
        BY <2>1 DEF ResultsFor, Concluding, Sound
      <3>2. result.payment_redeemed \in Nat /\ result.collateral_redeemed \in Nat
        BY <3>1 DEF RedeemResult
      <3> QED BY <1>1, <2>1, <3>2 DEF InVaultPayment, InVaultCollateral, BalancesConfirmed
    <2>2. CASE ~Redeemed(loan)
      BY <1>1, <2>2 DEF InVaultPayment, InVaultCollateral
    <2> QED BY <2>1, <2>2
  <1>3. FundsWithdrawn(key, payment) = [proceeds EXCEPT ![key] = left]
    BY DEF FundsWithdrawn
  <1> HIDE DEF payment
  <1>4. left \in Nat
    BY <1>1, <1>2
  <1> HIDE DEF left, key
  <1>5. FundsWithdrawn(key, payment) \in [VaultKeys -> Nat]
    BY <1>1, <1>3, <1>4
  <1> QED BY <1>2, <1>5 DEF payment, key

LEMMA SettleLoanSound ==
  ASSUME Sound, NEW tx \in Txs, NEW loan \in loans, NEW result \in ResultsFor(loan),
         NEW refused, SettleLoan(tx, loan, result, refused)
  PROVE  Sound'
  <1> DEFINE key == VaultOf(loan)
             payment == InVaultPayment(loan, result)
             collateral == InVaultCollateral(loan, result)
  <1>1. /\ BalancesConfirmed(loan, result)
        /\ WithdrawAllowed(vaults[key], collateral)
        /\ loans' = loans \ {loan}
        /\ commited_liquidity' = Reduced(commited_liquidity, loan, loan.amount)
        /\ proceeds' = FundsWithdrawn(key, payment)
        /\ funds' = SettlementFunds(loan, payment, refused)
        /\ vaults' = CollateralSent(vaults, key, loan.borrower, collateral, refused)
        /\ UNCHANGED <<config, revoked_offers, environment, drifted, vault_count, results>>
    BY DEF SettleLoan, SettlementPossible
  <1>2. payment \in Nat /\ collateral \in Nat /\ proceeds' \in [VaultKeys -> Nat]
    BY <1>1, ResultTyped
  <1>3. key \in VaultKeys
    BY LoanParties
  <1> HIDE DEF key, payment, collateral
  <1>4. VaultsSound(vaults')
    BY <1>1, <1>2, <1>3, LoanParties, SentSound DEF Sound
  <1>5. funds' \in Funds /\ Unowed(funds') = 0
    BY <1>1, <1>2, SettlementFundsSettled
  <1>6. commited_liquidity' \in [LiquidityKeys -> Nat]
    BY <1>1, LoanParties, ReducedTyped DEF Sound
  <1> QED BY <1>1, <1>2, <1>4, <1>5, <1>6 DEF Sound, LoansSound, environment

LEMMA LiquidateLoanSound ==
  ASSUME Sound, NEW tx \in Txs, NEW loan \in loans, NEW result \in ResultsFor(loan),
         NEW refused, LiquidateLoan(tx, loan, result, refused)
  PROVE  Sound'
  <1> DEFINE liquidator == Actor(tx)
             key == VaultOf(loan)
             payment == InVaultPayment(loan, result)
             collateral == InVaultCollateral(loan, result)
             split == Split(loan, payment, collateral)
             taken == split.collateral_to_liquidator
             rest == collateral - taken
             first == CollateralSent(vaults, key, liquidator, taken, refused)
  <1>1. /\ OracleAnswers /\ BalancesConfirmed(loan, result)
        /\ WithdrawAllowed(vaults[key], collateral)
        /\ proceeds' = FundsWithdrawn(key, payment)
        /\ funds' = LiquidationFunds(liquidator, loan, split, refused)
        /\ commited_liquidity' = LiquidationLiquidity(liquidator, loan, split)
        /\ vaults' = CollateralSent(first, key, loan.borrower, rest, refused)
        /\ loans' = loans \ {loan}
        /\ drifted' = drifted \cup {LiquidityKey(loan.lender, loan.offer_tracing_id)}
        /\ UNCHANGED <<config, revoked_offers, environment, vault_count, results>>
    BY DEF LiquidateLoan, LiquidationPossible, Healing!Drifts, Healing!LiquidityKey, LiquidityKey
  <1>2. payment \in Nat /\ collateral \in Nat /\ proceeds' \in [VaultKeys -> Nat]
    BY <1>1, ResultTyped
  <1>3. /\ split.debt \in Nat /\ split.value \in Nat /\ taken \in Nat /\ rest \in Nat
        /\ taken + rest = collateral
    <2>1. OracleAnswers /\ payment \in Nat /\ collateral \in Nat
      BY <1>1, <1>2
    <2> HIDE DEF payment, collateral
    <2>2. /\ split.debt \in Nat /\ split.value \in Nat /\ taken \in Nat
          /\ collateral - taken \in Nat
      BY <2>1, SplitSound
    <2> HIDE DEF split
    <2> QED BY <2>1, <2>2
  <1>4. /\ key \in VaultKeys /\ liquidator \in Wallets /\ loan.borrower \in Wallets
        /\ LiquidityKey(loan.lender, loan.offer_tracing_id) \in LiquidityKeys
    BY LoanParties, ActorTyped
  <1>5. funds' \in Funds /\ Unowed(funds') = 0
    <2>1. LiquidationFunds(liquidator, loan, Split(loan, payment, collateral), refused) \in Funds
      BY <1>1, <1>2, <1>4, LiquidationFundsSettled
    <2>2. Unowed(LiquidationFunds(liquidator, loan, Split(loan, payment, collateral), refused)) = 0
      BY <1>1, <1>2, <1>4, LiquidationFundsSettled
    <2> QED BY <1>1, <2>1, <2>2
  <1>6. commited_liquidity' \in [LiquidityKeys -> Nat]
    <2> HIDE DEF split
    <2>1. commited_liquidity \in [LiquidityKeys -> Nat]
      BY DEF Sound
    <2>2. \A x \in Nat : Reduced(commited_liquidity, loan, x) \in [LiquidityKeys -> Nat]
      BY <1>4, <2>1, ReducedTyped
    <2> QED BY <1>1, <1>3, <2>1, <2>2 DEF LiquidationLiquidity
  <1>7. VaultSound(vaults[key]) /\ VaultsSound(vaults)
    BY <1>4 DEF Sound, VaultsSound
  <1> HIDE DEF key, payment, collateral, split, liquidator, taken, rest
  <1>8. WithdrawAllowed(vaults[key], taken)
    BY <1>1, <1>2, <1>3, <1>7 DEF WithdrawAllowed, VaultSound, VaultRecord
  <1>9. /\ VaultsSound(first) /\ first[key].deployed
        /\ Unclaimed(first[key]) = Unclaimed(vaults[key]) - taken
    BY <1>3, <1>4, <1>7, <1>8, SentSound
  <1> HIDE DEF first
  <1>10. WithdrawAllowed(first[key], rest)
    <2>1. VaultSound(first[key])
      BY <1>4, <1>9 DEF VaultsSound
    <2> QED BY <1>1, <1>2, <1>3, <1>7, <1>9, <2>1
            DEF WithdrawAllowed, Unclaimed, VaultSound, VaultRecord
  <1>11. VaultsSound(vaults')
    BY <1>1, <1>3, <1>4, <1>9, <1>10, SentSound
  <1> QED BY <1>1, <1>2, <1>4, <1>5, <1>6, <1>11 DEF Sound, LoansSound, environment
\* The loan changes in place, and only the vaults with it.
LEMMA LoanChangedSound ==
  ASSUME Sound, NEW new, SoundLoan(new, now), loans' = Stored(loans, new),
         VaultsSound(vaults'),
         UNCHANGED <<config, commited_liquidity, revoked_offers, funds, environment, drifted,
                     vault_count, redemptions>>
  PROVE  Sound'
  <1>1. LoansSound(loans', now)
    BY LoanStored DEF Sound
  <1> QED BY <1>1 DEF Sound, environment, redemptions

LEMMA AddCollateralSound ==
  ASSUME Sound, NEW tx \in Txs, NEW loan \in loans, NEW amount \in CollateralSteps,
         AddCollateral(tx, loan, amount)
  PROVE  Sound'
  <1> DEFINE more == loan.collateral_amount + amount
             new == [loan EXCEPT !.collateral_amount = more]
  <1>1. amount \in Nat /\ more \in Nat \ {0}
    BY LoanParties, BaseAssumption
  <1>2. /\ loans' = Stored(loans, new)
        /\ vaults' = CollateralPaidIn(vaults, VaultOf(loan), amount)
        /\ DepositAllowed(vaults[VaultOf(loan)], amount, loan.borrower)
        /\ UNCHANGED <<config, commited_liquidity, revoked_offers, funds, environment, drifted,
                       vault_count, redemptions>>
    BY DEF AddCollateral
  <1> HIDE DEF more
  <1>3. SoundLoan(new, now)
    BY <1>1, LoanParties DEF SoundLoan, SecuritizeLoan
  <1> HIDE DEF new
  <1>4. VaultOf(loan)[1] = loan.borrower
    BY DEF VaultOf
  <1>5. VaultsSound(vaults')
    BY <1>1, <1>2, <1>4, LoanParties, PaidInSound DEF Sound
  <1> QED BY <1>2, <1>3, <1>5, LoanChangedSound

LEMMA RemoveCollateralSound ==
  ASSUME Sound, NEW tx \in Txs, NEW loan \in loans, NEW amount \in CollateralSteps,
         NEW refused, RemoveCollateral(tx, loan, amount, refused)
  PROVE  Sound'
  <1> DEFINE left == loan.collateral_amount - amount
             new == [loan EXCEPT !.collateral_amount = left]
  <1>1. amount \in Nat /\ left \in Nat \ {0}
    BY LoanParties, BaseAssumption DEF RemoveCollateral
  <1>2. /\ loans' = Stored(loans, new)
        /\ vaults' = CollateralSent(vaults, VaultOf(loan), loan.borrower, amount, refused)
        /\ WithdrawAllowed(vaults[VaultOf(loan)], amount)
        /\ UNCHANGED <<config, commited_liquidity, revoked_offers, funds, environment, drifted,
                       vault_count, redemptions>>
    BY DEF RemoveCollateral
  <1> HIDE DEF left
  <1>3. SoundLoan(new, now)
    BY <1>1, LoanParties DEF SoundLoan, SecuritizeLoan
  <1> HIDE DEF new
  <1>4. VaultsSound(vaults')
    BY <1>1, <1>2, LoanParties, SentSound DEF Sound
  <1> QED BY <1>2, <1>3, <1>4, LoanChangedSound

LEMMA RedeemSound ==
  ASSUME Sound, NEW tx \in Txs, NEW loan \in loans,
         NEW residual \in CollateralSteps \cup {0, loan.collateral_amount}, NEW refused,
         Redeem(tx, loan, residual, refused)
  PROVE  Sound'
  <1> DEFINE sent == loan.collateral_amount - residual
             wallet == config.securitize_redemption_wallet
             new == [loan EXCEPT !.redeem_start = now, !.redeem_residual_collateral = residual]
  <1>1. residual \in Nat /\ loan.collateral_amount \in Nat
    BY LoanParties, BaseAssumption
  <1>2. sent >= 0 /\ wallet # NoOne
    BY DEF Redeem
  <1>3. sent \in Nat /\ wallet \in Wallets
    BY <1>1, <1>2 DEF Sound, ConfigRecord
  <1>4. /\ loans' = Stored(loans, new)
        /\ vaults' = CollateralSent(vaults, VaultOf(loan), wallet, sent, refused)
        /\ WithdrawAllowed(vaults[VaultOf(loan)], sent)
        /\ UNCHANGED <<config, commited_liquidity, revoked_offers, funds, environment, drifted,
                       vault_count, redemptions>>
    BY DEF Redeem
  <1> HIDE DEF sent, wallet
  <1>5. SoundLoan(new, now)
    BY <1>1, LoanParties DEF SoundLoan, SecuritizeLoan
  <1> HIDE DEF new
  <1>6. VaultsSound(vaults')
    BY <1>3, <1>4, LoanParties, SentSound DEF Sound
  <1> QED BY <1>4, <1>5, <1>6, LoanChangedSound

LEMMA MaturityExtendedSound ==
  ASSUME Sound, NEW loan \in loans, NEW new_maturity \in Nat,
         MaturityExtended(loan, new_maturity)
  PROVE  Sound'
  <1> DEFINE new == [loan EXCEPT !.maturity = new_maturity]
  <1>1. /\ new_maturity > loan.maturity
        /\ loans' = Stored(loans, new)
        /\ UNCHANGED <<config, commited_liquidity, revoked_offers, funds, vaults, environment,
                       drifted, vault_count, redemptions>>
    BY DEF MaturityExtended
  <1>2. SoundLoan(new, now)
    BY <1>1, LoanParties DEF SoundLoan, SecuritizeLoan
  <1> HIDE DEF new
  <1>3. VaultsSound(vaults')
    BY <1>1 DEF Sound
  <1> QED BY <1>1, <1>2, <1>3, LoanChangedSound

LEMMA TransferLoanSound ==
  ASSUME Sound, NEW tx \in Txs, NEW loan \in loans, NEW new_borrower \in Borrowers,
         NEW refused, TransferLoan(tx, loan, new_borrower, refused)
  PROVE  Sound'
  <1> DEFINE new_id == vault_count[new_borrower]
             key == VaultOf(loan)
             new_key == <<new_borrower, new_id>>
             new == [loan EXCEPT !.borrower = new_borrower, !.vault_id = new_id]
  <1>1. /\ new_borrower # loan.borrower /\ new_id \in VaultIds
        /\ vaults[key].deployed
        /\ loans' = Stored(loans, new) \ {loan}
        /\ vault_count' = Counted(new_borrower)
        /\ vaults' = CollateralMoved(key, new_key, refused)
        /\ proceeds' = ProceedsMoved(key, new_key)
        /\ UNCHANGED <<config, commited_liquidity, revoked_offers, funds, environment,
                       drifted, results>>
    BY DEF TransferLoan
  <1>2. key \in VaultKeys /\ new_key \in VaultKeys /\ key # new_key
    BY <1>1, LoanParties DEF VaultKeys, VaultOf
  <1>3. vault_count' \in [Borrowers -> 0..MaxVaults]
    <2>1. vault_count[new_borrower] + 1 \in 0..MaxVaults
      BY <1>1, SecuritizeAssumption DEF VaultIds
    <2> QED BY <1>1, <2>1 DEF Counted, Sound
  <1>4. SoundLoan(new, now)
    BY <1>1, LoanParties DEF SoundLoan, SecuritizeLoan
  <1> HIDE DEF new
  <1>5. LoansSound(loans', now)
    BY <1>1, <1>4, LoanStored DEF Sound, LoansSound
  <1> HIDE DEF key, new_key
  <1>6. VaultsSound(vaults')
    BY <1>1, <1>2, MovedSound DEF Sound
  <1>7. proceeds' \in [VaultKeys -> Nat]
    BY <1>1, <1>2 DEF Sound, ProceedsMoved
  <1> QED BY <1>1, <1>3, <1>5, <1>6, <1>7 DEF Sound, environment

\* A partial liquidation leaves collateral and takes no more than there is.
LEMMA HealingSound ==
  ASSUME Sound, NEW loan \in loans, OracleAnswers, Healing!LtvReached(loan),
         ~Unhealable(loan.initial_ltv, loan.partial_liquidation_fee),
         Healing!HealingLiquidation(loan).written_off < OutstandingDebt(loan)
  PROVE  LET healing == Healing!HealingLiquidation(loan)
         IN  /\ healing.written_off \in Nat /\ healing.claimed \in Nat /\ healing.fee \in Nat
             /\ healing.claimed + healing.fee < loan.collateral_amount
  <1> DEFINE collateral == loan.collateral_amount
             debt == OutstandingDebt(loan)
             initial == loan.initial_ltv
             fee == loan.partial_liquidation_fee
             p == PartialLiquidation(collateral, debt, initial, fee, rate)
             ltv == Ltv(collateral, debt, rate)
  <1>1. /\ collateral \in Nat \ {0} /\ debt \in Nat /\ initial \in Nat /\ fee \in Nat
        /\ loan.liquidation_ltv \in Nat
        /\ loan.liquidation_ltv > 0 => loan.liquidation_ltv > initial
    BY LoanParties, DebtNat DEF SoundLoan, SecuritizeLoan
  <1>2. rate \in Rates
    BY RateTyped DEF Sound
  <1>3. Healing!HealingLiquidation(loan) = p
    BY DEF Healing!HealingLiquidation, Healing!PartialLiquidation, Healing!Unhealable,
           Healing!WriteOff, Healing!CollateralFor, Healing!ValueOf, Healing!Fee,
           Healing!OutstandingDebt, Healing!SettlementInterest, Healing!Interest,
           OutstandingDebt, SettlementInterest, Interest, PartialLiquidation,
           Unhealable, WriteOff, CollateralFor, ValueOf, Fee
  <1>4. Healing!CurrentLtv(loan) = ltv
    BY DEF Healing!CurrentLtv, Healing!Ltv, Healing!OutstandingDebt,
           Healing!SettlementInterest, Healing!Interest,
           OutstandingDebt, SettlementInterest, Interest, Ltv
  <1>5. p.written_off < debt /\ ~Unhealable(initial, fee)
    BY <1>3
  <1> HIDE DEF debt, ltv
  <1>6. initial < ltv
    <2>1. loan.liquidation_ltv > 0 /\ ltv >= loan.liquidation_ltv
      BY <1>4 DEF Healing!LtvReached
    <2>2. ltv \in Nat
      BY <1>1, <1>2, LtvNat DEF ltv
    <2> QED BY <1>1, <2>1, <2>2
  <1> HIDE DEF collateral, initial, fee
  <1>7. p.written_off = WriteOff(collateral, debt, initial, fee, rate)
    BY <1>5 DEF PartialLiquidation
  <1>8. /\ p.written_off \in Nat /\ p.claimed \in Nat /\ p.fee \in Nat
        /\ p.claimed + p.fee < collateral
    BY <1>1, <1>2, <1>5, <1>6, <1>7, PartialLiquidationSafe DEF ltv
  <1> HIDE DEF p
  <1> QED BY <1>3, <1>8 DEF collateral

LEMMA PartiallyLiquidateLoanSound ==
  ASSUME Sound, NEW tx \in Txs, NEW loan \in loans, NEW refused,
         PartiallyLiquidateLoan(tx, loan, refused)
  PROVE  Sound'
  <1> DEFINE liquidator == Actor(tx)
             healing == Healing!HealingLiquidation(loan)
             price == healing.written_off
             taken == healing.claimed + healing.fee
             amount == OutstandingDebt(loan) - price
             left == loan.collateral_amount - taken
             new == [loan EXCEPT !.amount = amount, !.accrual_start_time = now,
                                 !.collateral_amount = left]
  <1>1. /\ ~Matured(loan) /\ OracleAnswers /\ Healing!LtvReached(loan)
        /\ ~Unhealable(loan.initial_ltv, loan.partial_liquidation_fee)
        /\ price < OutstandingDebt(loan)
        /\ WithdrawAllowed(vaults[VaultOf(loan)], taken)
        /\ loans' = Stored(loans, new)
        /\ vaults' = CollateralSent(vaults, VaultOf(loan), liquidator, taken, refused)
        /\ IF liquidator = loan.lender
           THEN UNCHANGED <<funds, commited_liquidity>>
           ELSE /\ funds' = Sent(Received(funds, price), loan.lender, price, refused)
                /\ commited_liquidity' = Reduced(commited_liquidity, loan, price)
        /\ drifted' = drifted \cup {LiquidityKey(loan.lender, loan.offer_tracing_id)}
        /\ UNCHANGED <<config, revoked_offers, environment, vault_count, redemptions>>
    BY DEF PartiallyLiquidateLoan, Healing!Drifts, Healing!LiquidityKey, LiquidityKey
  <1>2. /\ price \in Nat /\ healing.claimed \in Nat /\ healing.fee \in Nat
        /\ healing.claimed + healing.fee < loan.collateral_amount
    BY <1>1, HealingSound
  <1> HIDE DEF healing, price
  <1>3. taken \in Nat /\ left \in Nat \ {0} /\ amount \in Nat
    BY <1>1, <1>2, LoanParties, DebtNat
  <1> HIDE DEF taken, left, amount
  <1>4. SoundLoan(new, now)
    BY <1>1, <1>3, LoanParties, ReducedLoanSound
  <1> HIDE DEF new
  <1>5. LoansSound(loans', now)
    BY <1>1, <1>4, LoanStored DEF Sound
  <1>6. liquidator \in Wallets
    BY ActorTyped
  <1> HIDE DEF liquidator
  <1>7. VaultsSound(vaults')
    BY <1>1, <1>3, <1>6, LoanParties, SentSound DEF Sound
  <1>8. funds' \in Funds /\ Unowed(funds') = 0
    <2> DEFINE paid_in == Received(funds, price)
               paid == Sent(paid_in, loan.lender, price, refused)
    <2>1. 0 + price = price /\ price - price = 0
      BY <1>2
    <2>2. paid_in \in Funds /\ Unowed(paid_in) = price
      BY <1>2, <2>1, ReceivedTyped DEF Sound
    <2> HIDE DEF paid_in
    <2>3. paid \in Funds /\ Unowed(paid) = 0
      BY <1>2, <2>1, <2>2, LoanParties, SentTyped
    <2> QED BY <1>1, <2>3 DEF Sound, paid_in
  <1>9. commited_liquidity' \in [LiquidityKeys -> Nat]
    <2>1. Reduced(commited_liquidity, loan, price) \in [LiquidityKeys -> Nat]
      BY <1>2, LoanParties, ReducedTyped DEF Sound
    <2> QED BY <1>1, <2>1 DEF Sound
  <1>10. drifted' \subseteq LiquidityKeys
    BY <1>1, LoanParties DEF Sound
  <1> QED BY <1>1, <1>5, <1>7, <1>8, <1>9, <1>10 DEF Sound, environment, redemptions
\* What both refinancings leave in the book.
LEMMA ReplacementSound ==
  ASSUME Sound, NEW loan \in loans, NEW id \in OfferIds, NEW principal \in Nat,
         NEW new, SoundLoan(new, now)
  PROVE  /\ LoansSound(Vaulted!Replaced(loan, new), now)
         /\ RevokedAfterUse(id) \subseteq OfferIds
         /\ Vaulted!ReplacedLiquidity(loan, id, principal) \in [LiquidityKeys -> Nat]
  <1>1. LoansSound(Vaulted!Replaced(loan, new), now)
    <2>1. Vaulted!Replaced(loan, new) \subseteq loans \cup {new}
      BY DEF Vaulted!Replaced, Vaulted!Stored
    <2> QED BY <2>1, LoanAdded DEF Sound
  <1>2. RevokedAfterUse(id) \subseteq OfferIds
    BY DEF Sound, RevokedAfterUse
  <1>3. Reduced(commited_liquidity, loan, loan.amount) \in [LiquidityKeys -> Nat]
    BY LoanParties, ReducedTyped DEF Sound
  <1>4. Vaulted!ReplacedLiquidity(loan, id, principal)
          = Committed(Reduced(commited_liquidity, loan, loan.amount), id, principal)
    BY DEF Vaulted!ReplacedLiquidity, Vaulted!Committed, Vaulted!Reduced,
           Vaulted!LiquidityKey, Committed, Reduced, LiquidityKey
  <1> QED BY <1>1, <1>2, <1>3, <1>4, CommittedTyped

LEMMA CollateralReplacedSound ==
  ASSUME Sound, NEW loan \in loans, NEW collateral \in Nat, NEW refused,
         CollateralReplaceable(loan, collateral)
  PROVE  VaultsSound(CollateralReplaced(loan, collateral, refused))
  <1> DEFINE delta == collateral - loan.collateral_amount
             key == VaultOf(loan)
  <1>1. /\ delta \in Int /\ VaultsSound(vaults) /\ key \in VaultKeys
        /\ loan.borrower \in Wallets /\ key[1] = loan.borrower
    BY LoanParties DEF Sound, VaultOf
  <1>2. /\ delta > 0 => DepositAllowed(vaults[key], delta, key[1])
        /\ delta < 0 => WithdrawAllowed(vaults[key], -delta)
    BY <1>1 DEF CollateralReplaceable
  <1>3. CollateralReplaced(loan, collateral, refused) =
          IF delta > 0 THEN CollateralPaidIn(vaults, key, delta)
          ELSE IF delta < 0 THEN CollateralSent(vaults, key, loan.borrower, -delta, refused)
          ELSE vaults
    BY DEF CollateralReplaced
  <1> HIDE DEF delta, key
  <1>4. CASE delta > 0
    <2>1. delta \in Nat
      BY <1>1, <1>4
    <2>2. VaultsSound(CollateralPaidIn(vaults, key, delta))
      BY <1>1, <1>2, <1>4, <2>1, PaidInSound
    <2> QED BY <1>3, <1>4, <2>2
  <1>5. CASE delta < 0
    <2>1. -delta \in Nat /\ ~(delta > 0)
      BY <1>1, <1>5
    <2>2. VaultsSound(CollateralSent(vaults, key, loan.borrower, -delta, refused))
      BY <1>1, <1>2, <1>5, <2>1, SentSound
    <2> QED BY <1>3, <1>5, <2>1, <2>2
  <1>6. CASE delta = 0
    BY <1>1, <1>3, <1>6
  <1> QED BY <1>1, <1>4, <1>5, <1>6

LEMMA ReplaceLoanSound ==
  ASSUME Sound, NEW tx \in Txs, NEW loan \in loans, NEW id \in OfferIds,
         NEW principal \in Principals \cup {0}, NEW collateral \in CollateralAmounts,
         NEW refused, ReplaceLoan(tx, loan, id, principal, collateral, refused)
  PROVE  Sound'
  <1> DEFINE offer == Offer[id]
             new_principal == Vaulted!NewPrincipal(loan, principal)
             new == NewRedeemableLoan(id, loan.borrower, new_principal, collateral,
                                      loan.vault_id)
  <1>1. /\ new_principal \in Nat /\ collateral \in Nat /\ loan.borrower \in Borrowers
        /\ loan.vault_id \in VaultIds
    BY NewTerms, LoanParties, BaseAssumption DEF SoundLoan, SecuritizeLoan
  <1>2. /\ RedeemableOfferAccepted(offer, loan.borrower, new_principal, collateral)
        /\ CollateralReplaceable(loan, collateral)
        /\ loans' = Vaulted!Replaced(loan, new)
        /\ commited_liquidity' = Vaulted!ReplacedLiquidity(loan, id, new_principal)
        /\ revoked_offers' = RevokedAfterUse(id)
        /\ vaults' = CollateralReplaced(loan, collateral, refused)
        /\ funds' = Vaulted!ReplaceFunds(loan, offer, new_principal, refused)
        /\ UNCHANGED <<config, environment, drifted, vault_count, redemptions>>
    BY DEF ReplaceLoan
  <1> HIDE DEF new_principal
  <1>3. SoundLoan(new, now)
    BY <1>1, <1>2, NewLoanSound
  <1> HIDE DEF new, offer
  <1>4. /\ LoansSound(loans', now) /\ revoked_offers' \subseteq OfferIds
        /\ commited_liquidity' \in [LiquidityKeys -> Nat]
    BY <1>1, <1>2, <1>3, ReplacementSound
  <1>5. VaultsSound(vaults')
    BY <1>1, <1>2, CollateralReplacedSound
  <1>6. funds' \in Funds /\ Unowed(funds') = 0
    BY <1>1, <1>2, ReplaceFundsSettled DEF offer, RedeemableOfferAccepted, OfferAccepted
  <1> QED BY <1>2, <1>4, <1>5, <1>6 DEF Sound, environment, redemptions

LEMMA ReplaceLoanLenderSound ==
  ASSUME Sound, NEW tx \in Txs, NEW loan \in loans, NEW id \in OfferIds,
         NEW principal \in Principals \cup {0}, NEW refused,
         ReplaceLoanLender(tx, loan, id, principal, refused)
  PROVE  Sound'
  <1> DEFINE offer == Offer[id]
             new_principal == Vaulted!NewPrincipal(loan, principal)
             new == NewRedeemableLoan(id, loan.borrower, new_principal,
                                      loan.collateral_amount, loan.vault_id)
  <1>1. /\ new_principal \in Nat /\ loan.collateral_amount \in Nat
        /\ loan.borrower \in Borrowers /\ loan.vault_id \in VaultIds
    BY NewTerms, LoanParties, BaseAssumption DEF SoundLoan, SecuritizeLoan
  <1>2. /\ RedeemableOfferAccepted(offer, loan.borrower, new_principal, loan.collateral_amount)
        /\ loans' = Vaulted!Replaced(loan, new)
        /\ commited_liquidity' = Vaulted!ReplacedLiquidity(loan, id, new_principal)
        /\ revoked_offers' = RevokedAfterUse(id)
        /\ funds' = Vaulted!ReplaceLenderFunds(loan, offer, new_principal, refused)
        /\ UNCHANGED <<config, vaults, environment, drifted, vault_count, redemptions>>
    BY DEF ReplaceLoanLender
  <1> HIDE DEF new_principal
  <1>3. SoundLoan(new, now)
    BY <1>1, <1>2, NewLoanSound
  <1> HIDE DEF new, offer
  <1>4. /\ LoansSound(loans', now) /\ revoked_offers' \subseteq OfferIds
        /\ commited_liquidity' \in [LiquidityKeys -> Nat]
    BY <1>1, <1>2, <1>3, ReplacementSound
  <1>5. funds' \in Funds /\ Unowed(funds') = 0
    BY <1>1, <1>2, ReplaceLenderFundsSettled DEF offer, RedeemableOfferAccepted, OfferAccepted
  <1> QED BY <1>2, <1>4, <1>5 DEF Sound, environment, redemptions

LEMMA IssuerReturnsSound ==
  ASSUME Sound, NEW loan \in loans, IssuerReturns(loan)
  PROVE  Sound'
  <1> DEFINE key == VaultOf(loan)
             new == [loan EXCEPT !.returned = TRUE]
  <1>1. PICK r \in Returns :
          /\ loans' = Stored(loans, new)
          /\ vaults' = [vaults EXCEPT ![key].balance = @ + r.collateral]
          /\ proceeds' = [proceeds EXCEPT ![key] = @ + r.payment]
          /\ UNCHANGED <<config, commited_liquidity, revoked_offers, funds, environment,
                         drifted, vault_count, results>>
    BY DEF IssuerReturns
  <1>2. key \in VaultKeys /\ r.collateral \in Nat /\ r.payment \in Nat
    BY LoanParties, SecuritizeAssumption
  <1>3. SoundLoan(new, now)
    BY LoanParties DEF SoundLoan, SecuritizeLoan
  <1> HIDE DEF new, key
  <1>4. LoansSound(loans', now)
    BY <1>1, <1>3, LoanStored DEF Sound
  <1>5. VaultsSound(vaults')
    BY <1>1, <1>2, BalanceAdded DEF Sound
  <1>6. proceeds' \in [VaultKeys -> Nat]
    BY <1>1, <1>2 DEF Sound
  <1> QED BY <1>1, <1>4, <1>5, <1>6 DEF Sound, environment

LEMMA SignRedeemResultSound ==
  ASSUME Sound, NEW loan \in loans, SignRedeemResult(loan)
  PROVE  Sound'
  <1> DEFINE key == VaultOf(loan)
             redeemed == Unclaimed(vaults[key]) - loan.redeem_residual_collateral
             result == [vault |-> key, payment_redeemed |-> proceeds[key],
                        collateral_redeemed |-> redeemed,
                        timestamp |-> now, signer |-> config.owner]
  <1>1. /\ redeemed >= 0 /\ results' = results \cup {result}
        /\ UNCHANGED <<vars, vault_count, proceeds>>
    BY DEF SignRedeemResult
  <1>2. key \in VaultKeys /\ loan.redeem_residual_collateral \in Nat
    BY LoanParties DEF SoundLoan, SecuritizeLoan
  <1>3. redeemed \in Nat
    BY <1>1, <1>2 DEF Sound, VaultsSound, VaultSound, VaultRecord, Unclaimed
  <1>4. result \in RedeemResult
    <2> HIDE DEF redeemed, key
    <2> QED BY <1>2, <1>3 DEF Sound, ConfigRecord, RedeemResult
  <1> HIDE DEF result
  <1> QED BY <1>1, <1>4 DEF Sound, vars

\* The vaults change, and nothing else.
LEMMA VaultStepSound ==
  ASSUME Sound, VaultsSound(vaults'),
         UNCHANGED <<config, book, funds, environment, drifted, vault_count, redemptions>>
  PROVE  Sound'
  BY DEF Sound, book, environment, redemptions

LEMMA CreateVaultIfNeededSound ==
  ASSUME Sound, NEW borrower, CreateVaultIfNeeded(borrower)
  PROVE  Sound'
  BY CreatedSound, VaultStepSound DEF CreateVaultIfNeeded, Sound

LEMMA BuySound ==
  ASSUME Sound, NEW key \in VaultKeys, NEW tx \in Txs, Buy(tx, key)
  PROVE  Sound'
  <1>1. PICK amount \in CollateralSteps :
          /\ vaults' = [vaults EXCEPT ![key].balance = @ + amount,
                                      ![key].pending[key[1]] = @ + amount,
                                      ![key].total = @ + amount]
          /\ UNCHANGED <<config, book, funds, environment, drifted, vault_count, redemptions>>
    BY DEF Buy
  <1>2. amount \in Nat
    BY BaseAssumption
  <1>3. VaultsSound(vaults')
    BY <1>1, <1>2, BoughtSound DEF Sound
  <1> QED BY <1>1, <1>3, VaultStepSound

LEMMA WithdrawPendingCollateralSound ==
  ASSUME Sound, NEW key \in VaultKeys, NEW wallet \in Wallets,
         WithdrawPendingCollateral(key, wallet)
  PROVE  Sound'
  <1> DEFINE old == vaults[key]
             amount == old.pending[wallet]
             v == PendingWithdrawn(old, amount, wallet)
  <1>1. /\ WithdrawPendingAllowed(old, amount, wallet)
        /\ vaults' = [vaults EXCEPT ![key] = v]
        /\ UNCHANGED <<config, book, funds, environment, drifted, vault_count, redemptions>>
    BY DEF WithdrawPendingCollateral
  <1>2. old \in VaultRecord /\ old.total <= old.balance /\ Summed(old) /\ amount \in Nat
    BY DEF Sound, VaultsSound, VaultSound, VaultRecord
  <1> HIDE DEF old, amount
  <1>3. v \in VaultRecord /\ v.total <= v.balance /\ Summed(v)
    BY <1>1, <1>2, WithdrawPendingSafe, WithdrawPendingSummed
  <1> HIDE DEF v
  <1>4. VaultsSound(vaults')
    BY <1>1, <1>3 DEF Sound, VaultsSound, VaultSound
  <1> QED BY <1>1, <1>4, VaultStepSound

LEMMA LoanStepSound ==
  ASSUME Sound, NEW tx \in Txs, NEW loan \in loans, LoanStep(tx, loan)
  PROVE  Sound'
  <1>1. ASSUME NEW amount \in CollateralSteps, AddCollateral(tx, loan, amount) PROVE Sound'
    BY <1>1, AddCollateralSound
  <1>2. ASSUME NEW m \in (loan.maturity + 1)..MaxMaturity,
               ExtendLoan(tx, loan, MaxMaturity, m) \/ ExtendLoanLender(tx, loan, m)
        PROVE  Sound'
    <2>1. m \in Nat
      BY LoanParties, SecuritizeAssumption DEF SoundLoan, SecuritizeLoan
    <2> QED BY <1>2, <2>1, MaturityExtendedSound DEF ExtendLoan, ExtendLoanLender
  <1>3. ASSUME NEW refused, NEW result \in ResultsFor(loan),
               SettleLoan(tx, loan, result, refused) \/ LiquidateLoan(tx, loan, result, refused)
        PROVE  Sound'
    BY <1>3, SettleLoanSound, LiquidateLoanSound
  <1>4. ASSUME NEW refused, PartiallyLiquidateLoan(tx, loan, refused) PROVE Sound'
    BY <1>4, PartiallyLiquidateLoanSound
  <1>5. ASSUME NEW refused, NEW amount \in CollateralSteps,
               RemoveCollateral(tx, loan, amount, refused)
        PROVE  Sound'
    BY <1>5, RemoveCollateralSound
  <1>6. ASSUME NEW refused, NEW residual \in CollateralSteps \cup {0, loan.collateral_amount},
               Redeem(tx, loan, residual, refused)
        PROVE  Sound'
    BY <1>6, RedeemSound
  <1>7. ASSUME NEW refused, NEW b \in Borrowers, TransferLoan(tx, loan, b, refused)
        PROVE  Sound'
    BY <1>7, TransferLoanSound
  <1>8. ASSUME NEW refused, NEW id \in OfferIds, NEW principal \in Principals \cup {0},
               ReplaceLoanLender(tx, loan, id, principal, refused)
        PROVE  Sound'
    BY <1>8, ReplaceLoanLenderSound
  <1>9. ASSUME NEW refused, NEW id \in OfferIds, NEW principal \in Principals \cup {0},
               NEW collateral \in CollateralAmounts,
               ReplaceLoan(tx, loan, id, principal, collateral, refused)
        PROVE  Sound'
    BY <1>9, ReplaceLoanSound
  <1> QED BY <1>1, <1>2, <1>3, <1>4, <1>5, <1>6, <1>7, <1>8, <1>9 DEF LoanStep

LEMMA SoundNext == Sound /\ [Next]_secVars => Sound'
  <1> SUFFICES ASSUME Sound, [Next]_secVars PROVE Sound'
    OBVIOUS
  <1>1. CASE CommonStep /\ UNCHANGED <<vault_count, redemptions>>
    BY <1>1, CommonStepSound
  <1>2. ASSUME NEW tx \in Txs, NEW id \in OfferIds, NEW principal \in Principals,
               NEW collateral \in CollateralAmounts, CreateLoan(tx, id, principal, collateral)
        PROVE  Sound'
    BY <1>2, CreateLoanSound
  <1>3. ASSUME NEW tx \in Txs, NEW loan \in loans, LoanStep(tx, loan) PROVE Sound'
    BY <1>3, LoanStepSound
  <1>4. ASSUME NEW loan \in loans, IssuerReturns(loan) PROVE Sound'
    BY <1>4, IssuerReturnsSound
  <1>5. ASSUME NEW loan \in loans, SignRedeemResult(loan) PROVE Sound'
    BY <1>5, SignRedeemResultSound
  <1>6. ASSUME NEW borrower, CreateVaultIfNeeded(borrower) PROVE Sound'
    BY <1>6, CreateVaultIfNeededSound
  <1>7. ASSUME NEW key \in VaultKeys, NEW tx \in Txs, Buy(tx, key) PROVE Sound'
    BY <1>7, BuySound
  <1>8. ASSUME NEW key \in VaultKeys, NEW wallet \in Wallets,
               WithdrawPendingCollateral(key, wallet)
        PROVE  Sound'
    BY <1>8, WithdrawPendingCollateralSound
  <1>9. CASE UNCHANGED secVars
    BY <1>9 DEF secVars, vars, redemptions, Sound
  <1> QED BY <1>1, <1>2, <1>3, <1>4, <1>5, <1>6, <1>7, <1>8, <1>9 DEF Next, Accounts

LEMMA AlwaysSound == Spec => []Sound
  BY InitSound, SoundNext, PTL DEF Spec

\* Every state has its type: no balance, debt, collateral, pending transfer,
\* payment of a redemption or committed liquidity is ever negative.
THEOREM RedeemableTypeCorrect == Spec => []TypeOK
  <1>1. Sound => TypeOK
    <2>1. ASSUME Sound PROVE vaults \in [VaultKeys -> VaultRecord]
      BY <2>1 DEF Sound, VaultsSound, VaultSound
    <2>2. ASSUME Sound PROVE loans \subseteq SecuritizeLoan
      BY <2>2 DEF Sound, LoansSound, SoundLoan
    <2> QED BY <2>1, <2>2 DEF Sound, TypeOK, Funds
  <1> QED BY <1>1, AlwaysSound, PTL

\* The contract keeps no payment tokens but those whose transfer failed: what
\* a settlement or a liquidation draws of a redemption's payment, and what a
\* refinancing takes in, is divided to the last token.
THEOREM RedemptionsAreAccounted == Spec => []FundsAccounted
  <1>1. Sound => FundsAccounted
    BY UnowedInt DEF Sound, Unowed, FundsAccounted
  <1> QED BY <1>1, AlwaysSound, PTL

\* A vault holds the collateral of its pending transfers at all times: what it
\* has recorded for a wallet, bought back or not, can be withdrawn.
RedeemableVaultsSolvent ==
    \A key \in VaultKeys :
        /\ vaults[key].total = SumFunction(vaults[key].pending)
        /\ vaults[key].total <= vaults[key].balance

THEOREM RedeemableVaultsStaySolvent == Spec => []RedeemableVaultsSolvent
  <1>1. Sound => RedeemableVaultsSolvent
    BY DEF Sound, VaultsSound, VaultSound, Summed, RedeemableVaultsSolvent
  <1> QED BY <1>1, AlwaysSound, PTL
=============================================================================
