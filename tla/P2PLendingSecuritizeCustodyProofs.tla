------------------ MODULE P2PLendingSecuritizeCustodyProofs ------------------
(***************************************************************************)
(* Where the collateral of a Securitize loan is, and what the signed       *)
(* results of its redemption say of it, for every set of accounts, offers, *)
(* fees, amounts, rates and refused transfers but those to vaults: a vault *)
(* cannot claim what was refused to it, and transfer_loan would leave the  *)
(* collateral behind.                                                      *)
(*                                                                         *)
(* A vault in use is in custody of its loan: it holds what the loan's      *)
(* state says, no payment tokens before the issuer has sent some, and      *)
(* every result for it, whoever signed it and when, is exact.  That needs  *)
(* of the vaults of later loans that they hold nothing and that no result  *)
(* names them.  That the vaults of closed loans hold nothing either needs  *)
(* the loan's exact custody when it is closed, and that no loan is lost to *)
(* another one of its id (TransferIdFree); custody does not depend on it.  *)
(* Amounts are integers here: the balances add up whatever their signs.    *)
(***************************************************************************)
EXTENDS P2PLendingSecuritizeProofs, P2PLendingVaultedBaseProofs

\* No vault is refused collateral.
NoVaultRefused == \A key \in VaultKeys : <<"collateral", key>> \notin Refusals

IntVault == [deployed: BOOLEAN, balance: Int, pending: [Wallets -> Int], total: Int]

LoanTyped(l) ==
    /\ l.amount \in Int /\ l.apr \in Int /\ l.accrual_start_time \in Int
    /\ l.collateral_amount \in Int
    /\ l.redeem_start \in Int /\ l.redeem_residual_collateral \in Int
    /\ l.initial_ltv \in Int /\ l.partial_liquidation_fee \in Int
    /\ l.maturity \in Int /\ l.full_liquidation_fee \in Int
    /\ l.returned \in BOOLEAN

\* The loan's vault has storage v and holds `paid` payment tokens.
Custody(l, v, paid, rs) ==
    /\ v \in IntVault /\ v.deployed
    /\ IF l.returned
       THEN Redeemed(l) /\ paid \in Int /\ Unclaimed(v) >= l.redeem_residual_collateral
       ELSE /\ paid = 0
            /\ Unclaimed(v) = IF Redeemed(l) THEN l.redeem_residual_collateral
                              ELSE l.collateral_amount
    /\ \A r \in rs : r.vault = VaultOf(l) =>
          /\ l.returned
          /\ paid = r.payment_redeemed
          /\ Unclaimed(v) = l.redeem_residual_collateral + r.collateral_redeemed

\* Nothing in the vault but what it owes to wallets.
Vacant(v, paid) == v \in IntVault /\ Unclaimed(v) = 0 /\ paid = 0

\* No loan has had the vault yet.
Unused(key, v, paid, rs) == Vacant(v, paid) /\ \A r \in rs : r.vault # key

Parameters ==
    /\ {"partial_liquidation_fee", "full_liquidation_fee"} \subseteq DOMAIN config
    /\ config.partial_liquidation_fee \in Nat /\ config.full_liquidation_fee \in Nat
    /\ rate \in OracleRates
    /\ now \in Nat \ {0}

VaultsInCustody ==
    /\ vaults = [key \in VaultKeys |-> vaults[key]]
    /\ proceeds = [key \in VaultKeys |-> proceeds[key]]
    /\ \A l \in loans : /\ LoanTyped(l) /\ VaultOf(l) \in VaultKeys
                        /\ Custody(l, vaults[VaultOf(l)], proceeds[VaultOf(l)], results)
    /\ \A key \in VaultKeys : key[2] >= vault_count[key[1]] =>
          Unused(key, vaults[key], proceeds[key], results)

CustodyInv == VaultInv /\ Parameters /\ VaultsInCustody

\* No loan is in a vault: it is vacant.
InUse(ls, key) == \E l \in ls : VaultOf(l) = key

Vacated == \A key \in VaultKeys : InUse(loans, key) \/ Vacant(vaults[key], proceeds[key])

OneLoanPerId == \A l \in loans, m \in loans : LoanId(l) = LoanId(m) => l = m

\* A step that leaves nothing behind, if every loan has an id of its own.
Clears == Vacated /\ OneLoanPerId => Vacated'

\* What transfer_loan does not assert: the loan's new id is free.
TransferIdFree ==
    \A tx \in Txs, loan \in loans, b \in Borrowers, refused \in SUBSET Refusals :
        TransferLoan(tx, loan, b, refused) =>
            ~Exists([loan EXCEPT !.borrower = b, !.vault_id = vault_count[b]])

-----------------------------------------------------------------------------
(* What a vault's operations do to what is unclaimed in it.                *)

LEMMA DepositedUnclaimed ==
  ASSUME NEW v \in IntVault, NEW amount \in Int, NEW wallet \in Wallets
  PROVE  /\ Deposited(v, amount, wallet) \in IntVault
         /\ Unclaimed(Deposited(v, amount, wallet)) = Unclaimed(v) + amount
         /\ Deposited(v, amount, wallet).deployed = v.deployed
  <1> DEFINE p == FromPending(v, amount, wallet)
             new == Deposited(v, amount, wallet)
  <1>1. p \in Int
    BY DEF IntVault, FromPending
  <1>2. /\ v.balance + (amount - p) \in Int /\ v.total - p \in Int
        /\ (v.balance + (amount - p)) - (v.total - p) = (v.balance - v.total) + amount
        /\ [v.pending EXCEPT ![wallet] = @ - p] \in [Wallets -> Int]
    BY <1>1 DEF IntVault
  <1>3. new \in IntVault
    BY <1>2 DEF IntVault, Deposited, FromWallet
  <1>4. /\ new.balance = v.balance + (amount - p) /\ new.total = v.total - p
        /\ new.deployed = v.deployed
    BY DEF IntVault, Deposited, FromWallet
  <1> QED BY <1>2, <1>3, <1>4 DEF Unclaimed

LEMMA WithdrawnUnclaimed ==
  ASSUME NEW v \in IntVault, NEW amount \in Int, NEW wallet, NEW refused \in BOOLEAN
  PROVE  /\ Withdrawn(v, amount, wallet, refused) \in IntVault
         /\ Unclaimed(Withdrawn(v, amount, wallet, refused)) = Unclaimed(v) - amount
         /\ Withdrawn(v, amount, wallet, refused).deployed = v.deployed
  <1> DEFINE new == Withdrawn(v, amount, wallet, refused)
  <1>1. /\ v.total + amount \in Int /\ v.balance - amount \in Int
        /\ v.balance - (v.total + amount) = (v.balance - v.total) - amount
        /\ (v.balance - amount) - v.total = (v.balance - v.total) - amount
    BY DEF IntVault
  <1>2. [v.pending EXCEPT ![wallet] = @ + amount] \in [Wallets -> Int]
    <2>1. v.pending \in [Wallets -> Int]
      BY DEF IntVault
    <2>2. CASE wallet \in Wallets
      BY <2>1, <2>2
    <2>3. CASE wallet \notin Wallets
      <3>1. [v.pending EXCEPT ![wallet] = @ + amount] = v.pending
        BY <2>1, <2>3
      <3> QED BY <2>1, <3>1
    <2> QED BY <2>2, <2>3
  <1>3. CASE refused
    <2>1. new \in IntVault
      BY <1>1, <1>2, <1>3 DEF IntVault, Withdrawn
    <2>2. new.balance = v.balance /\ new.total = v.total + amount /\ new.deployed = v.deployed
      BY <1>3 DEF IntVault, Withdrawn
    <2> QED BY <1>1, <2>1, <2>2 DEF Unclaimed
  <1>4. CASE ~refused
    <2>1. new \in IntVault
      BY <1>1, <1>4 DEF IntVault, Withdrawn
    <2>2. new.balance = v.balance - amount /\ new.total = v.total /\ new.deployed = v.deployed
      BY <1>4 DEF IntVault, Withdrawn
    <2> QED BY <1>1, <2>1, <2>2 DEF Unclaimed
  <1> QED BY <1>3, <1>4

LEMMA PendingWithdrawnUnclaimed ==
  ASSUME NEW v \in IntVault, NEW wallet \in Wallets, NEW amount \in Int
  PROVE  /\ PendingWithdrawn(v, amount, wallet) \in IntVault
         /\ Unclaimed(PendingWithdrawn(v, amount, wallet)) = Unclaimed(v)
         /\ PendingWithdrawn(v, amount, wallet).deployed = v.deployed
  <1> DEFINE new == PendingWithdrawn(v, amount, wallet)
  <1>1. /\ v.balance - amount \in Int /\ v.total - amount \in Int
        /\ (v.balance - amount) - (v.total - amount) = v.balance - v.total
        /\ [v.pending EXCEPT ![wallet] = @ - amount] \in [Wallets -> Int]
    BY DEF IntVault
  <1>2. new \in IntVault
    BY <1>1 DEF IntVault, PendingWithdrawn
  <1>3. /\ new.balance = v.balance - amount /\ new.total = v.total - amount
        /\ new.deployed = v.deployed
    BY DEF IntVault, PendingWithdrawn
  <1> QED BY <1>1, <1>2, <1>3 DEF Unclaimed

LEMMA SentUnclaimed ==
  ASSUME NEW vs, NEW key \in VaultKeys, vs = [k \in VaultKeys |-> vs[k]],
         vs[key] \in IntVault, NEW wallet, NEW amount \in Int, NEW refused
  PROVE  LET left == CollateralSent(vs, key, wallet, amount, refused)
         IN  /\ left = [k \in VaultKeys |-> left[k]]
             /\ left[key] \in IntVault /\ Unclaimed(left[key]) = Unclaimed(vs[key]) - amount
             /\ left[key].deployed = vs[key].deployed
             /\ \A k \in VaultKeys \ {key} : left[k] = vs[k]
  <1> DEFINE new == Withdrawn(vs[key], amount, wallet, CollateralRefused(wallet, refused))
  <1>1. /\ new \in IntVault /\ Unclaimed(new) = Unclaimed(vs[key]) - amount
        /\ new.deployed = vs[key].deployed
    <2>1. CollateralRefused(wallet, refused) \in BOOLEAN
      BY DEF CollateralRefused
    <2> QED BY <2>1, WithdrawnUnclaimed
  <1>2. CollateralSent(vs, key, wallet, amount, refused) = [vs EXCEPT ![key] = new]
    BY DEF CollateralSent
  <1> HIDE DEF new
  <1> QED BY <1>1, <1>2

LEMMA PaidInUnclaimed ==
  ASSUME NEW vs, NEW key \in VaultKeys, vs = [k \in VaultKeys |-> vs[k]],
         vs[key] \in IntVault, NEW amount \in Int
  PROVE  LET more == CollateralPaidIn(vs, key, amount)
         IN  /\ more = [k \in VaultKeys |-> more[k]]
             /\ more[key] \in IntVault /\ Unclaimed(more[key]) = Unclaimed(vs[key]) + amount
             /\ more[key].deployed = vs[key].deployed
             /\ \A k \in VaultKeys \ {key} : more[k] = vs[k]
  <1> DEFINE new == Deposited(vs[key], amount, key[1])
  <1>1. key[1] \in Wallets
    BY BaseAssumption DEF VaultKeys
  <1>2. /\ new \in IntVault /\ Unclaimed(new) = Unclaimed(vs[key]) + amount
        /\ new.deployed = vs[key].deployed
    BY <1>1, DepositedUnclaimed
  <1>3. CollateralPaidIn(vs, key, amount) = [vs EXCEPT ![key] = new]
    BY DEF CollateralPaidIn
  <1> HIDE DEF new
  <1> QED BY <1>2, <1>3

\* buy: the tokens that arrive are owed to the borrower.
LEMMA BoughtUnclaimed ==
  ASSUME NEW v \in IntVault, NEW amount \in Int, NEW wallet \in Wallets
  PROVE  LET new == [v EXCEPT !.balance = @ + amount, !.pending[wallet] = @ + amount,
                              !.total = @ + amount]
         IN  new \in IntVault /\ Unclaimed(new) = Unclaimed(v) /\ new.deployed = v.deployed
  <1> DEFINE new == [v EXCEPT !.balance = @ + amount, !.pending[wallet] = @ + amount,
                              !.total = @ + amount]
  <1>1. /\ v.balance + amount \in Int /\ v.total + amount \in Int
        /\ (v.balance + amount) - (v.total + amount) = v.balance - v.total
        /\ [v.pending EXCEPT ![wallet] = @ + amount] \in [Wallets -> Int]
    BY DEF IntVault
  <1>2. new \in IntVault
    BY <1>1 DEF IntVault
  <1>3. /\ new.balance = v.balance + amount /\ new.total = v.total + amount
        /\ new.deployed = v.deployed
    BY DEF IntVault
  <1> QED BY <1>1, <1>2, <1>3 DEF Unclaimed

\* A vault that is created holds what it held.
LEMMA CreatedUnclaimed ==
  ASSUME NEW vs, NEW key \in VaultKeys, vs = [k \in VaultKeys |-> vs[k]]
  PROVE  LET new == VaultCreated(vs, key)
         IN  /\ new = [k \in VaultKeys |-> new[k]]
             /\ vs[key] \in IntVault =>
                   /\ new[key] \in IntVault /\ Unclaimed(new[key]) = Unclaimed(vs[key])
                   /\ new[key].deployed
             /\ \A k \in VaultKeys \ {key} : new[k] = vs[k]
  <1> DEFINE v == [vs[key] EXCEPT !.deployed = TRUE]
  <1>1. vs[key] \in IntVault =>
            v \in IntVault /\ Unclaimed(v) = Unclaimed(vs[key]) /\ v.deployed
    BY DEF IntVault, Unclaimed
  <1>2. VaultCreated(vs, key) = [vs EXCEPT ![key] = v]
    BY DEF VaultCreated
  <1> HIDE DEF v
  <1> QED BY <1>1, <1>2

-----------------------------------------------------------------------------
(* How the loans change hands of vaults.                                   *)

\* The loans of `gone` leave their vaults and those of `come` get one: each of
\* these is in custody of its vault, and no other vault is touched.
LEMMA Changed ==
  ASSUME CustodyInv, VaultInv', NEW gone \in SUBSET loans, NEW come,
         come \subseteq loans', loans' \subseteq (loans \ gone) \cup come,
         \A b \in Borrowers : vault_count'[b] >= vault_count[b],
         vaults' = [key \in VaultKeys |-> vaults'[key]],
         proceeds' = [key \in VaultKeys |-> proceeds'[key]],
         results' = results,
         \A key \in VaultKeys : (\A l \in gone \cup come : VaultOf(l) # key) =>
             vaults'[key] = vaults[key] /\ proceeds'[key] = proceeds[key],
         \A l \in come :
             /\ LoanTyped(l) /\ VaultOf(l) \in VaultKeys
             /\ Custody(l, vaults'[VaultOf(l)], proceeds'[VaultOf(l)], results)
  PROVE  /\ VaultsInCustody'
         /\ /\ Vacated /\ loans \ gone \subseteq loans'
            /\ \A l \in gone : \/ InUse(come, VaultOf(l))
                                \/ Vacant(vaults'[VaultOf(l)], proceeds'[VaultOf(l)])
            => Vacated'
  <1>1. /\ vault_count \in [Borrowers -> Nat] /\ vault_count' \in [Borrowers -> Nat]
        /\ \A l \in loans : IsLoan(l) /\ l.vault_id < vault_count[l.borrower]
        /\ \A l \in loans' : IsLoan(l) /\ l.vault_id < vault_count'[l.borrower]
        /\ \A l \in loans, m \in loans : VaultOf(l) = VaultOf(m) => l = m
        /\ \A l \in loans', m \in loans' : VaultOf(l) = VaultOf(m) => l = m
    BY DEF CustodyInv, VaultInv, VaultsNotShared
  <1>2. ASSUME NEW l \in loans'
        PROVE  /\ LoanTyped(l) /\ VaultOf(l) \in VaultKeys
               /\ Custody(l, vaults'[VaultOf(l)], proceeds'[VaultOf(l)], results')
    <2>1. CASE l \in come
      BY <2>1
    <2>2. CASE l \notin come
      <3>1. l \in loans /\ l \notin gone
        BY <2>2
      <3>2. \A m \in gone \cup come : VaultOf(m) # VaultOf(l)
        BY <1>1, <2>2, <3>1
      <3>3. /\ LoanTyped(l) /\ VaultOf(l) \in VaultKeys
            /\ Custody(l, vaults[VaultOf(l)], proceeds[VaultOf(l)], results)
        BY <3>1 DEF CustodyInv, VaultsInCustody
      <3> QED BY <3>2, <3>3
    <2> QED BY <2>1, <2>2
  <1>3. ASSUME NEW key \in VaultKeys, key[2] >= vault_count'[key[1]]
        PROVE  Unused(key, vaults'[key], proceeds'[key], results')
    <2>1. key[1] \in Borrowers /\ key[2] \in Int
      BY SecuritizeAssumption DEF VaultKeys, VaultIds
    <2>2. vault_count'[key[1]] >= vault_count[key[1]]
      BY <2>1
    <2>3. key[2] >= vault_count[key[1]]
      BY <1>1, <1>3, <2>1, <2>2
    <2>4. ASSUME NEW m \in gone \cup come PROVE VaultOf(m) # key
      <3>1. CASE m \in gone
        BY <1>1, <2>1, <2>3, <3>1 DEF VaultOf, IsLoan
      <3>2. CASE m \in come
        BY <1>1, <1>3, <2>1, <3>2 DEF VaultOf, IsLoan
      <3> QED BY <3>1, <3>2
    <2>5. Unused(key, vaults[key], proceeds[key], results)
      BY <2>3 DEF CustodyInv, VaultsInCustody
    <2> QED BY <2>4, <2>5
  <1>4. ASSUME Vacated, loans \ gone \subseteq loans', NEW key \in VaultKeys,
               \A l \in gone : \/ InUse(come, VaultOf(l))
                              \/ Vacant(vaults'[VaultOf(l)], proceeds'[VaultOf(l)])
        PROVE  InUse(loans', key) \/ Vacant(vaults'[key], proceeds'[key])
    <2>1. CASE InUse(come, key)
      BY <2>1 DEF InUse
    <2>2. CASE ~InUse(come, key) /\ InUse(gone, key)
      BY <1>4, <2>2 DEF InUse
    <2>3. CASE ~InUse(come, key) /\ ~InUse(gone, key)
      <3>1. vaults'[key] = vaults[key] /\ proceeds'[key] = proceeds[key]
        BY <2>3 DEF InUse
      <3>2. InUse(loans, key) \/ Vacant(vaults[key], proceeds[key])
        BY <1>4 DEF Vacated
      <3> QED BY <1>4, <2>3, <3>1, <3>2 DEF InUse
    <2> QED BY <2>1, <2>2, <2>3
  <1>5. VaultsInCustody'
    BY <1>2, <1>3 DEF VaultsInCustody
  <1>6. /\ Vacated /\ loans \ gone \subseteq loans'
        /\ \A l \in gone : \/ InUse(come, VaultOf(l))
                            \/ Vacant(vaults'[VaultOf(l)], proceeds'[VaultOf(l)])
        => \A key \in VaultKeys : InUse(loans', key) \/ Vacant(vaults'[key], proceeds'[key])
    BY <1>4
  <1> QED BY <1>5, <1>6 DEF Vacated

\* A loan changes in its vault, or another one takes its vault.
LEMMA ChangedInPlace ==
  ASSUME CustodyInv, VaultInv', NEW loan \in loans, NEW new, LoanTyped(new),
         VaultOf(new) = VaultOf(loan), new \in loans',
         loans' \subseteq (loans \ {loan}) \cup {new}, vault_count' = vault_count,
         vaults' = [key \in VaultKeys |-> vaults'[key]],
         proceeds' = [key \in VaultKeys |-> proceeds'[key]],
         results' = results,
         \A key \in VaultKeys \ {VaultOf(loan)} :
             vaults'[key] = vaults[key] /\ proceeds'[key] = proceeds[key],
         Custody(new, vaults'[VaultOf(loan)], proceeds'[VaultOf(loan)], results)
  PROVE  VaultsInCustody' /\ (Vacated /\ loans \ {loan} \subseteq loans' => Vacated')
  <1>1. VaultOf(loan) \in VaultKeys
    BY DEF CustodyInv, VaultsInCustody
  <1>2. \A b \in Borrowers : vault_count'[b] >= vault_count[b]
    BY DEF CustodyInv, VaultInv
  <1> DEFINE come == {new}
  <1>3. /\ come \subseteq loans' /\ loans' \subseteq (loans \ {loan}) \cup come
        /\ {loan} \in SUBSET loans
    OBVIOUS
  <1>4. \A key \in VaultKeys : (\A l \in {loan} \cup come : VaultOf(l) # key) =>
             vaults'[key] = vaults[key] /\ proceeds'[key] = proceeds[key]
    OBVIOUS
  <1>5. \A l \in come :
             /\ LoanTyped(l) /\ VaultOf(l) \in VaultKeys
             /\ Custody(l, vaults'[VaultOf(l)], proceeds'[VaultOf(l)], results)
    BY <1>1
  <1>6. \A l \in {loan} : InUse(come, VaultOf(l))
    BY DEF InUse
  <1> HIDE DEF come
  <1> QED BY <1>2, <1>3, <1>4, <1>5, <1>6, Changed

\* A loan is closed.
LEMMA Closed ==
  ASSUME CustodyInv, VaultInv', NEW loan \in loans, loans' = loans \ {loan},
         vault_count' = vault_count,
         vaults' = [key \in VaultKeys |-> vaults'[key]],
         proceeds' = [key \in VaultKeys |-> proceeds'[key]],
         results' = results,
         \A key \in VaultKeys \ {VaultOf(loan)} :
             vaults'[key] = vaults[key] /\ proceeds'[key] = proceeds[key],
         Vacant(vaults'[VaultOf(loan)], proceeds'[VaultOf(loan)])
  PROVE  VaultsInCustody' /\ Clears
  <1>1. \A b \in Borrowers : vault_count'[b] >= vault_count[b]
    BY DEF CustodyInv, VaultInv
  <1> DEFINE come == {}
  <1>2. /\ {loan} \in SUBSET loans /\ come \subseteq loans'
        /\ loans' \subseteq (loans \ {loan}) \cup come
    OBVIOUS
  <1>3. \A key \in VaultKeys : (\A l \in {loan} \cup come : VaultOf(l) # key) =>
             vaults'[key] = vaults[key] /\ proceeds'[key] = proceeds[key]
    OBVIOUS
  <1>4. \A l \in come :
             /\ LoanTyped(l) /\ VaultOf(l) \in VaultKeys
             /\ Custody(l, vaults'[VaultOf(l)], proceeds'[VaultOf(l)], results)
    OBVIOUS
  <1>5. /\ loans \ {loan} \subseteq loans'
        /\ \A l \in {loan} : Vacant(vaults'[VaultOf(l)], proceeds'[VaultOf(l)])
    OBVIOUS
  <1> HIDE DEF come
  <1> QED BY <1>1, <1>2, <1>3, <1>4, <1>5, Changed DEF Clears

\* No loan changes, and in no vault what is unclaimed.
LEMMA Undisturbed ==
  ASSUME CustodyInv, loans' = loans, vault_count' = vault_count,
         proceeds' = proceeds, results' = results,
         vaults' = [key \in VaultKeys |-> vaults'[key]],
         \A key \in VaultKeys : vaults[key] \in IntVault =>
             /\ vaults'[key] \in IntVault /\ Unclaimed(vaults'[key]) = Unclaimed(vaults[key])
             /\ vaults[key].deployed => vaults'[key].deployed
  PROVE  VaultsInCustody' /\ Clears
  <1>1. ASSUME NEW l \in loans'
        PROVE  /\ LoanTyped(l) /\ VaultOf(l) \in VaultKeys
               /\ Custody(l, vaults'[VaultOf(l)], proceeds'[VaultOf(l)], results')
    <2>1. /\ LoanTyped(l) /\ VaultOf(l) \in VaultKeys
          /\ Custody(l, vaults[VaultOf(l)], proceeds[VaultOf(l)], results)
      BY <1>1 DEF CustodyInv, VaultsInCustody
    <2> QED BY <2>1 DEF Custody
  <1>2. ASSUME NEW key \in VaultKeys, key[2] >= vault_count'[key[1]]
        PROVE  Unused(key, vaults'[key], proceeds'[key], results')
    BY <1>2 DEF CustodyInv, VaultsInCustody, Unused, Vacant
  <1>3. VaultsInCustody'
    BY <1>1, <1>2 DEF CustodyInv, VaultsInCustody
  <1>4. Clears
    BY DEF Clears, Vacated, Vacant, InUse
  <1> QED BY <1>3, <1>4

-----------------------------------------------------------------------------
(* One loan has one id.                                                    *)

LEMMA StoredOverOne ==
  ASSUME OneLoanPerId, NEW loan \in loans, NEW new, LoanId(new) = LoanId(loan)
  PROVE  Stored(loans, new) = (loans \ {loan}) \cup {new}
  BY DEF Stored, OneLoanPerId

LEMMA StoredWhereNone ==
  ASSUME NEW new, ~Exists(new)
  PROVE  \A ls \in SUBSET loans : Stored(ls, new) = ls \cup {new}
  BY DEF Stored, Exists

LEMMA IdsKept ==
  ASSUME OneLoanPerId, NEW new, loans' \subseteq Stored(loans, new)
  PROVE  OneLoanPerId'
  BY DEF OneLoanPerId, Stored, LoanId

-----------------------------------------------------------------------------
(* Amounts are integers.                                                   *)

LEMMA DivInt ==
  ASSUME NEW a \in Int, NEW b \in Nat \ {0}
  PROVE  a \div b \in Int
  OBVIOUS

LEMMA DebtInt ==
  ASSUME Parameters, NEW loan, LoanTyped(loan)
  PROVE  OutstandingDebt(loan) \in Int
  <1>1. loan.amount * loan.apr * (now - loan.accrual_start_time) \in Int
    BY DEF LoanTyped, Parameters
  <1>2. BPS * YEAR \in Nat \ {0}
    BY MathAssumption, MulNat
  <1>3. SettlementInterest(loan) \in Int
    BY <1>1, <1>2, DivInt DEF SettlementInterest, Interest
  <1> QED BY <1>3 DEF OutstandingDebt, LoanTyped

LEMMA NewPrincipalInt ==
  ASSUME Parameters, NEW loan, LoanTyped(loan), NEW principal \in Int
  PROVE  Vaulted!NewPrincipal(loan, principal) \in Int
  <1>1. Vaulted!OutstandingDebt(loan) = OutstandingDebt(loan)
    BY DEF Vaulted!OutstandingDebt, Vaulted!SettlementInterest, Vaulted!Interest,
           OutstandingDebt, SettlementInterest, Interest
  <1> QED BY <1>1, DebtInt DEF Vaulted!NewPrincipal

\* What a partial liquidation takes.
LEMMA TakenInt ==
  ASSUME Parameters, OracleAnswers, NEW loan, LoanTyped(loan),
         ~Unhealable(loan.initial_ltv, loan.partial_liquidation_fee)
  PROVE  LET healing == Healing!HealingLiquidation(loan)
         IN  healing.written_off \in Int /\ healing.claimed \in Int /\ healing.fee \in Int
  <1> DEFINE c == loan.collateral_amount
             debt == OutstandingDebt(loan)
             ltv == loan.initial_ltv
             fee == loan.partial_liquidation_fee
             w == WriteOff(c, debt, ltv, fee, rate)
             claimed == CollateralFor(w, rate)
             room == BPS * BPS - (BPS + fee) * ltv
  <1>1. /\ c \in Int /\ debt \in Int /\ ltv \in Int /\ fee \in Int
        /\ BPS \in Nat \ {0} /\ rate \in Rates
    BY DebtInt, RateTyped, MathAssumption DEF LoanTyped, Parameters
  <1> HIDE DEF c, debt, ltv, fee
  <1>2. /\ rate.num \in Nat \ {0} /\ rate.den \in Nat \ {0}
    BY <1>1 DEF Rates
  <1>3. ValueOf(c, rate) \in Int
    BY <1>1, <1>2, DivInt DEF ValueOf
  <1>4. room \in Nat \ {0}
    <2>1. (BPS + fee) * ltv \in Int /\ BPS * BPS \in Int
      BY <1>1
    <2>2. ~((BPS + fee) * ltv >= BPS * BPS)
      BY DEF Unhealable, ltv, fee
    <2> QED BY <2>1, <2>2
  <1>5. w \in Int
    <2> DEFINE v == ValueOf(c, rate)
               over == (debt * BPS - v * ltv) * BPS
    <2>1. v \in Int
      BY <1>3
    <2> HIDE DEF v
    <2>2. over \in Int
      BY <1>1, <2>1
    <2> HIDE DEF over, room
    <2>3. over \div room \in Int
      BY <1>4, <2>2, DivInt
    <2>4. ~Unhealable(ltv, fee)
      BY DEF ltv, fee
    <2> QED BY <2>3, <2>4 DEF WriteOff, over, v, room
  <1> HIDE DEF w
  <1>6. claimed \in Int
    BY <1>2, <1>5, DivInt DEF CollateralFor
  <1> HIDE DEF claimed
  <1>7. Fee(fee, claimed) \in Int
    BY <1>1, <1>6, DivInt DEF Fee
  <1>8. Healing!HealingLiquidation(loan)
          = [written_off |-> w, claimed |-> claimed, fee |-> Fee(fee, claimed)]
    BY DEF Healing!HealingLiquidation, Healing!PartialLiquidation, Healing!Unhealable,
           Healing!WriteOff, Healing!CollateralFor, Healing!ValueOf, Healing!Fee,
           Healing!OutstandingDebt, Healing!SettlementInterest, Healing!Interest,
           OutstandingDebt, SettlementInterest, Interest,
           Unhealable, WriteOff, CollateralFor, ValueOf, Fee, w, claimed, c, debt, ltv, fee
  <1> QED BY <1>5, <1>6, <1>7, <1>8

\* A new loan, over an offer that was accepted.
LEMMA NewLoanTyped ==
  ASSUME Parameters, NEW id \in OfferIds, NEW borrower, NEW principal \in Int,
         NEW collateral \in Int, NEW vault_id,
         RedeemableOfferAccepted(Offer[id], borrower, principal, collateral)
  PROVE  LET new == NewRedeemableLoan(id, borrower, principal, collateral, vault_id)
         IN  /\ LoanTyped(new) /\ VaultOf(new) = <<borrower, vault_id>>
             /\ ~Redeemed(new) /\ ~new.returned /\ new.collateral_amount = collateral
  <1> DEFINE offer == Offer[id]
             ltv == MaxInitialLtv(offer, principal)
  <1>1. /\ offer.apr \in Nat /\ offer.max_iltv \in Nat
        /\ offer.min_collateral_amount \in Nat /\ offer.duration \in Nat
    BY OfferTyped DEF OfferRecord
  <1>2. /\ offer.min_collateral_amount > 0 \/ offer.max_iltv > 0
        /\ OracleAnswers
    BY DEF RedeemableOfferAccepted, OfferAccepted, OfferValid, LtvAccepted
  <1>3. ltv \in Int
    <2>1. CASE offer.max_iltv # 0
      BY <1>1, <2>1 DEF MaxInitialLtv
    <2>2. CASE offer.max_iltv = 0
      <3> DEFINE m == offer.min_collateral_amount
      <3>1. rate.num \in Nat \ {0} /\ rate.den \in Nat \ {0}
        BY <1>2, RateTyped DEF Rates, Parameters
      <3>2. m \in Nat \ {0}
        BY <1>1, <1>2, <2>2
      <3> HIDE DEF m
      <3>3. m * rate.num \in Nat \ {0} /\ principal * BPS * rate.den \in Int
        BY <3>1, <3>2, MulNat, MathAssumption
      <3>4. Ltv(m, principal, rate) \in Int
        BY <3>3, DivInt DEF Ltv
      <3> QED BY <2>2, <3>4 DEF MaxInitialLtv, m
    <2> QED BY <2>1, <2>2
  <1> HIDE DEF ltv
  <1> QED BY <1>1, <1>3 DEF NewRedeemableLoan, LoanTyped, VaultOf, Redeemed, Parameters, ltv

-----------------------------------------------------------------------------
(* The loan whose collateral was not redeemed.                             *)

LEMMA LoanHeld ==
  ASSUME CustodyInv, NEW loan \in loans
  PROVE  /\ IsLoan(loan) /\ LoanTyped(loan) /\ VaultOf(loan) \in VaultKeys
         /\ vaults[VaultOf(loan)] \in IntVault /\ vaults[VaultOf(loan)].deployed
         /\ Custody(loan, vaults[VaultOf(loan)], proceeds[VaultOf(loan)], results)
         /\ vaults = [key \in VaultKeys |-> vaults[key]]
         /\ proceeds = [key \in VaultKeys |-> proceeds[key]]
  BY DEF CustodyInv, VaultInv, VaultsInCustody, Custody

\* It stays so, with the collateral that its new state says.
LEMMA StillWhole ==
  ASSUME CustodyInv, VaultInv', NEW loan \in loans, ~Redeemed(loan),
         NEW new, LoanTyped(new), ~Redeemed(new), ~new.returned,
         VaultOf(new) = VaultOf(loan), new \in loans',
         loans' \subseteq (loans \ {loan}) \cup {new}, vault_count' = vault_count,
         proceeds' = proceeds, results' = results,
         vaults' = [key \in VaultKeys |-> vaults'[key]],
         \A key \in VaultKeys \ {VaultOf(loan)} : vaults'[key] = vaults[key],
         vaults'[VaultOf(loan)] \in IntVault, vaults'[VaultOf(loan)].deployed,
         Unclaimed(vaults'[VaultOf(loan)]) = new.collateral_amount
  PROVE  VaultsInCustody' /\ (Vacated /\ loans \ {loan} \subseteq loans' => Vacated')
  <1> DEFINE key == VaultOf(loan)
  <1>1. Custody(loan, vaults[key], proceeds[key], results)
    BY LoanHeld
  <1>2. /\ proceeds[key] = 0
        /\ \A r \in results : r.vault # key
    BY <1>1 DEF Custody
  <1>3. Custody(new, vaults'[key], proceeds'[key], results)
    BY <1>2 DEF Custody
  <1>4. proceeds' = [k \in VaultKeys |-> proceeds'[k]]
    BY DEF CustodyInv, VaultsInCustody
  <1> HIDE DEF key
  <1> QED BY <1>3, <1>4, ChangedInPlace DEF key

LEMMA AddCollateralCustody ==
  ASSUME CustodyInv, VaultInv', NEW loan \in loans, NEW tx, NEW amount \in Int,
         AddCollateral(tx, loan, amount)
  PROVE  VaultsInCustody' /\ Clears
  <1> DEFINE new == [loan EXCEPT !.collateral_amount = @ + amount]
             key == VaultOf(loan)
  <1>1. /\ loans' = Stored(loans, new) /\ vaults' = CollateralPaidIn(vaults, key, amount)
        /\ vault_count' = vault_count /\ proceeds' = proceeds /\ results' = results
        /\ ~Redeemed(loan)
    BY DEF AddCollateral, redemptions
  <1>2. /\ IsLoan(loan) /\ LoanTyped(loan) /\ key \in VaultKeys /\ vaults[key] \in IntVault
        /\ vaults[key].deployed
        /\ Custody(loan, vaults[key], proceeds[key], results)
        /\ vaults = [k \in VaultKeys |-> vaults[k]]
    BY LoanHeld
  <1>3. Unclaimed(vaults[key]) = loan.collateral_amount /\ ~loan.returned
    BY <1>1, <1>2 DEF Custody
  <1>4. VaultOf(new) = key /\ LoanId(new) = LoanId(loan)
    BY <1>2, UpdatedLoan
  <1>5. /\ LoanTyped(new) /\ ~Redeemed(new) /\ ~new.returned
        /\ new.collateral_amount = loan.collateral_amount + amount
    BY <1>1, <1>2, <1>3 DEF IsLoan, LoanFields, LoanTyped, Redeemed
  <1> HIDE DEF new, key
  <1>6. /\ new \in loans' /\ loans' \subseteq (loans \ {loan}) \cup {new}
        /\ OneLoanPerId => loans \ {loan} \subseteq loans'
    BY <1>1, <1>4, StoredOverOne DEF Stored
  <1>7. /\ vaults' = [k \in VaultKeys |-> vaults'[k]]
        /\ \A k \in VaultKeys \ {key} : vaults'[k] = vaults[k]
        /\ vaults'[key] \in IntVault /\ vaults'[key].deployed
        /\ Unclaimed(vaults'[key]) = new.collateral_amount
    BY <1>1, <1>2, <1>3, <1>5, PaidInUnclaimed
  <1> QED BY <1>1, <1>4, <1>5, <1>6, <1>7, StillWhole DEF key, Clears

LEMMA RemoveCollateralCustody ==
  ASSUME CustodyInv, VaultInv', NEW loan \in loans, NEW tx, NEW amount \in Int, NEW refused,
         RemoveCollateral(tx, loan, amount, refused)
  PROVE  VaultsInCustody' /\ Clears
  <1> DEFINE new == [loan EXCEPT !.collateral_amount = loan.collateral_amount - amount]
             key == VaultOf(loan)
  <1>1. /\ loans' = Stored(loans, new)
        /\ vaults' = CollateralSent(vaults, key, loan.borrower, amount, refused)
        /\ vault_count' = vault_count /\ proceeds' = proceeds /\ results' = results
        /\ ~Redeemed(loan)
    BY DEF RemoveCollateral, redemptions
  <1>2. /\ IsLoan(loan) /\ LoanTyped(loan) /\ key \in VaultKeys /\ vaults[key] \in IntVault
        /\ vaults[key].deployed
        /\ Custody(loan, vaults[key], proceeds[key], results)
        /\ vaults = [k \in VaultKeys |-> vaults[k]]
    BY LoanHeld
  <1>3. Unclaimed(vaults[key]) = loan.collateral_amount /\ ~loan.returned
    BY <1>1, <1>2 DEF Custody
  <1>4. VaultOf(new) = key /\ LoanId(new) = LoanId(loan)
    BY <1>2, UpdatedLoan
  <1>5. /\ LoanTyped(new) /\ ~Redeemed(new) /\ ~new.returned
        /\ new.collateral_amount = loan.collateral_amount - amount
    BY <1>1, <1>2, <1>3 DEF IsLoan, LoanFields, LoanTyped, Redeemed
  <1> HIDE DEF new, key
  <1>6. /\ new \in loans' /\ loans' \subseteq (loans \ {loan}) \cup {new}
        /\ OneLoanPerId => loans \ {loan} \subseteq loans'
    BY <1>1, <1>4, StoredOverOne DEF Stored
  <1>7. /\ vaults' = [k \in VaultKeys |-> vaults'[k]]
        /\ \A k \in VaultKeys \ {key} : vaults'[k] = vaults[k]
        /\ vaults'[key] \in IntVault /\ vaults'[key].deployed
        /\ Unclaimed(vaults'[key]) = new.collateral_amount
    BY <1>1, <1>2, <1>3, <1>5, SentUnclaimed
  <1> QED BY <1>1, <1>4, <1>5, <1>6, <1>7, StillWhole DEF key, Clears

LEMMA PartiallyLiquidateLoanCustody ==
  ASSUME CustodyInv, VaultInv', NEW loan \in loans, NEW tx, NEW refused,
         PartiallyLiquidateLoan(tx, loan, refused)
  PROVE  VaultsInCustody' /\ Clears
  <1> DEFINE healing == Healing!HealingLiquidation(loan)
             taken == healing.claimed + healing.fee
             debt_left == OutstandingDebt(loan) - healing.written_off
             left == loan.collateral_amount - taken
             new == [loan EXCEPT !.amount = debt_left, !.accrual_start_time = now,
                                 !.collateral_amount = left]
             key == VaultOf(loan)
  <1>1. /\ loans' = Stored(loans, new)
        /\ vaults' = CollateralSent(vaults, key, Actor(tx), taken, refused)
        /\ vault_count' = vault_count /\ proceeds' = proceeds /\ results' = results
        /\ ~Redeemed(loan) /\ OracleAnswers
        /\ ~Unhealable(loan.initial_ltv, loan.partial_liquidation_fee)
    BY DEF PartiallyLiquidateLoan, redemptions
  <1>2. /\ IsLoan(loan) /\ LoanTyped(loan) /\ key \in VaultKeys /\ vaults[key] \in IntVault
        /\ vaults[key].deployed
        /\ Custody(loan, vaults[key], proceeds[key], results)
        /\ vaults = [k \in VaultKeys |-> vaults[k]]
    BY LoanHeld
  <1>3. Unclaimed(vaults[key]) = loan.collateral_amount /\ ~loan.returned
    BY <1>1, <1>2 DEF Custody
  <1>4. /\ Parameters /\ now \in Int
    BY DEF CustodyInv, Parameters
  <1>5. taken \in Int /\ debt_left \in Int /\ left \in Int
    BY <1>1, <1>2, <1>4, TakenInt, DebtInt DEF LoanTyped
  <1> HIDE DEF healing, taken, debt_left, left
  <1>6. /\ VaultOf(new) = key /\ LoanId(new) = LoanId(loan)
        /\ new.amount = debt_left /\ new.accrual_start_time = now
        /\ new.collateral_amount = left
        /\ \A f \in LoanFields \ {"amount", "accrual_start_time", "collateral_amount"} :
              new[f] = loan[f]
    <2>1. IsLoan(loan)
      BY <1>2
    <2>2. new = [f \in LoanFields |-> new[f]]
      BY <2>1 DEF IsLoan, LoanFields
    <2>3. /\ new.amount = debt_left /\ new.accrual_start_time = now
          /\ new.collateral_amount = left
      BY <2>1 DEF IsLoan, LoanFields
    <2>4. \A f \in LoanFields \ {"amount", "accrual_start_time", "collateral_amount"} :
             new[f] = loan[f]
      BY <2>1 DEF IsLoan, LoanFields
    <2> HIDE DEF new
    <2>5. VaultOf(new) = VaultOf(loan) /\ LoanId(new) = LoanId(loan)
      BY <2>1, <2>2, <2>4, SamePlace DEF LoanFields
    <2> QED BY <2>3, <2>4, <2>5
  <1> HIDE DEF new, key
  <1>7. /\ LoanTyped(new) /\ ~Redeemed(new) /\ ~new.returned
        /\ new.collateral_amount = loan.collateral_amount - taken
    <2>1. /\ new.apr = loan.apr /\ new.redeem_start = loan.redeem_start
          /\ new.redeem_residual_collateral = loan.redeem_residual_collateral
          /\ new.initial_ltv = loan.initial_ltv
          /\ new.partial_liquidation_fee = loan.partial_liquidation_fee
          /\ new.maturity = loan.maturity
          /\ new.full_liquidation_fee = loan.full_liquidation_fee
          /\ new.returned = loan.returned
      BY <1>6 DEF LoanFields
    <2> QED BY <1>1, <1>2, <1>3, <1>4, <1>5, <1>6, <2>1 DEF LoanTyped, Redeemed, left
  <1>8. /\ new \in loans' /\ loans' \subseteq (loans \ {loan}) \cup {new}
        /\ OneLoanPerId => loans \ {loan} \subseteq loans'
    BY <1>1, <1>6, StoredOverOne DEF Stored
  <1>9. /\ vaults' = [k \in VaultKeys |-> vaults'[k]]
        /\ \A k \in VaultKeys \ {key} : vaults'[k] = vaults[k]
        /\ vaults'[key] \in IntVault /\ vaults'[key].deployed
        /\ Unclaimed(vaults'[key]) = new.collateral_amount
    BY <1>1, <1>2, <1>3, <1>5, <1>7, SentUnclaimed
  <1> QED BY <1>1, <1>6, <1>7, <1>8, <1>9, StillWhole DEF key, Clears

-----------------------------------------------------------------------------
(* The vault passes to the loan that takes the place of another.           *)

LEMMA Replaces ==
  ASSUME CustodyInv, VaultInv', NEW loan \in loans, ~Redeemed(loan),
         NEW id \in OfferIds, NEW principal \in Int, NEW collateral \in Int,
         RedeemableOfferAccepted(Offer[id], loan.borrower, principal, collateral),
         ~Exists(NewRedeemableLoan(id, loan.borrower, principal, collateral, loan.vault_id)),
         loans' = Vaulted!Replaced(loan, NewRedeemableLoan(id, loan.borrower, principal,
                                                           collateral, loan.vault_id)),
         vault_count' = vault_count, proceeds' = proceeds, results' = results,
         vaults' = [key \in VaultKeys |-> vaults'[key]],
         \A key \in VaultKeys \ {VaultOf(loan)} : vaults'[key] = vaults[key],
         vaults'[VaultOf(loan)] \in IntVault, vaults'[VaultOf(loan)].deployed,
         Unclaimed(vaults'[VaultOf(loan)]) = collateral
  PROVE  VaultsInCustody' /\ Clears
  <1> DEFINE new == NewRedeemableLoan(id, loan.borrower, principal, collateral, loan.vault_id)
  <1>1. Parameters
    BY DEF CustodyInv
  <1>2. /\ LoanTyped(new) /\ VaultOf(new) = <<loan.borrower, loan.vault_id>>
        /\ ~Redeemed(new) /\ ~new.returned /\ new.collateral_amount = collateral
    BY <1>1, NewLoanTyped
  <1>3. VaultOf(new) = VaultOf(loan)
    BY <1>2 DEF VaultOf
  <1>4. new \in loans' /\ loans' \subseteq (loans \ {loan}) \cup {new}
    BY DEF Vaulted!Replaced, Vaulted!Stored
  <1>5. loans \ {loan} \subseteq loans'
    BY StoredWhereNone DEF Vaulted!Replaced, Vaulted!Stored, Stored, Vaulted!LoanId, LoanId
  <1> HIDE DEF new
  <1> QED BY <1>2, <1>3, <1>4, <1>5, StillWhole DEF Clears

LEMMA ReplaceLoanCustody ==
  ASSUME CustodyInv, VaultInv', NEW loan \in loans, NEW tx, NEW id \in OfferIds,
         NEW principal \in Int, NEW collateral \in Int, NEW refused,
         ReplaceLoan(tx, loan, id, principal, collateral, refused)
  PROVE  VaultsInCustody' /\ Clears
  <1> DEFINE key == VaultOf(loan)
             new_principal == Vaulted!NewPrincipal(loan, principal)
             delta == collateral - loan.collateral_amount
  <1>1. /\ ~Redeemed(loan)
        /\ RedeemableOfferAccepted(Offer[id], loan.borrower, new_principal, collateral)
        /\ ~Exists(NewRedeemableLoan(id, loan.borrower, new_principal, collateral,
                                     loan.vault_id))
        /\ loans' = Vaulted!Replaced(loan, NewRedeemableLoan(id, loan.borrower, new_principal,
                                                             collateral, loan.vault_id))
        /\ vaults' = CollateralReplaced(loan, collateral, refused)
        /\ vault_count' = vault_count /\ proceeds' = proceeds /\ results' = results
    BY DEF ReplaceLoan, redemptions, Vaulted!OfferTaken, Vaulted!Exists, Exists,
           Vaulted!LoanId, LoanId
  <1>2. /\ LoanTyped(loan) /\ key \in VaultKeys /\ vaults[key] \in IntVault
        /\ vaults[key].deployed
        /\ Custody(loan, vaults[key], proceeds[key], results)
        /\ vaults = [k \in VaultKeys |-> vaults[k]]
    BY LoanHeld
  <1>3. Unclaimed(vaults[key]) = loan.collateral_amount
    BY <1>1, <1>2 DEF Custody
  <1>4. new_principal \in Int
    BY <1>2, NewPrincipalInt DEF CustodyInv
  <1>5. loan.collateral_amount \in Int
    BY <1>2 DEF LoanTyped
  <1> HIDE DEF key, new_principal
  <1>6. /\ vaults' = [k \in VaultKeys |-> vaults'[k]]
        /\ \A k \in VaultKeys \ {key} : vaults'[k] = vaults[k]
        /\ vaults'[key] \in IntVault /\ vaults'[key].deployed
        /\ Unclaimed(vaults'[key]) = collateral
    <2>1. CASE delta > 0
      <3>1. vaults' = CollateralPaidIn(vaults, key, delta)
        BY <1>1, <2>1 DEF CollateralReplaced, key
      <3>2. delta \in Int
        BY <1>5
      <3> HIDE DEF delta
      <3>3. /\ vaults' = [k \in VaultKeys |-> vaults'[k]]
            /\ \A k \in VaultKeys \ {key} : vaults'[k] = vaults[k]
            /\ vaults'[key] \in IntVault /\ vaults'[key].deployed
            /\ Unclaimed(vaults'[key]) = Unclaimed(vaults[key]) + delta
        BY <1>2, <3>1, <3>2, PaidInUnclaimed
      <3> QED BY <1>3, <1>5, <3>3 DEF delta
    <2>2. CASE delta < 0
      <3>1. vaults' = CollateralSent(vaults, key, loan.borrower, -delta, refused)
        BY <1>1, <1>5, <2>2 DEF CollateralReplaced, key
      <3> DEFINE back == -delta
      <3>2. back \in Int
        BY <1>5
      <3> HIDE DEF back
      <3>3. /\ vaults' = [k \in VaultKeys |-> vaults'[k]]
            /\ \A k \in VaultKeys \ {key} : vaults'[k] = vaults[k]
            /\ vaults'[key] \in IntVault /\ vaults'[key].deployed
            /\ Unclaimed(vaults'[key]) = Unclaimed(vaults[key]) - back
        BY <1>2, <3>1, <3>2, SentUnclaimed DEF back
      <3> QED BY <1>3, <1>5, <3>3 DEF back
    <2>3. CASE delta = 0
      <3>1. vaults' = vaults
        BY <1>1, <1>5, <2>3 DEF CollateralReplaced
      <3>2. collateral = loan.collateral_amount
        BY <1>5, <2>3
      <3> QED BY <1>2, <1>3, <3>1, <3>2
    <2> QED BY <1>5, <2>1, <2>2, <2>3
  <1> QED BY <1>1, <1>4, <1>6, Replaces DEF key

LEMMA ReplaceLoanLenderCustody ==
  ASSUME CustodyInv, VaultInv', NEW loan \in loans, NEW tx, NEW id \in OfferIds,
         NEW principal \in Int, NEW refused,
         ReplaceLoanLender(tx, loan, id, principal, refused)
  PROVE  VaultsInCustody' /\ Clears
  <1> DEFINE key == VaultOf(loan)
             new_principal == Vaulted!NewPrincipal(loan, principal)
  <1>1. /\ ~Redeemed(loan)
        /\ RedeemableOfferAccepted(Offer[id], loan.borrower, new_principal,
                                   loan.collateral_amount)
        /\ ~Exists(NewRedeemableLoan(id, loan.borrower, new_principal,
                                     loan.collateral_amount, loan.vault_id))
        /\ loans' = Vaulted!Replaced(loan, NewRedeemableLoan(id, loan.borrower, new_principal,
                                              loan.collateral_amount, loan.vault_id))
        /\ vaults' = vaults
        /\ vault_count' = vault_count /\ proceeds' = proceeds /\ results' = results
    BY DEF ReplaceLoanLender, redemptions, Vaulted!OfferTaken, Vaulted!Exists, Exists,
           Vaulted!LoanId, LoanId
  <1>2. /\ LoanTyped(loan) /\ key \in VaultKeys /\ vaults[key] \in IntVault
        /\ vaults[key].deployed
        /\ Custody(loan, vaults[key], proceeds[key], results)
        /\ vaults = [k \in VaultKeys |-> vaults[k]]
    BY LoanHeld
  <1>3. Unclaimed(vaults[key]) = loan.collateral_amount
    BY <1>1, <1>2 DEF Custody
  <1>4. new_principal \in Int /\ loan.collateral_amount \in Int
    BY <1>2, NewPrincipalInt DEF CustodyInv, LoanTyped
  <1> HIDE DEF new_principal
  <1> QED BY <1>1, <1>2, <1>3, <1>4, Replaces

-----------------------------------------------------------------------------
(* Redemption.                                                             *)

\* The extension of a maturity leaves all of this alone, redeemed or not.
LEMMA MaturityExtendedCustody ==
  ASSUME CustodyInv, VaultInv', NEW loan \in loans, NEW new_maturity \in Int,
         MaturityExtended(loan, new_maturity)
  PROVE  VaultsInCustody' /\ Clears
  <1> DEFINE new == [loan EXCEPT !.maturity = new_maturity]
             key == VaultOf(loan)
  <1>1. /\ loans' = Stored(loans, new) /\ vaults' = vaults
        /\ vault_count' = vault_count /\ proceeds' = proceeds /\ results' = results
    BY DEF MaturityExtended, redemptions
  <1>2. /\ IsLoan(loan) /\ LoanTyped(loan)
        /\ Custody(loan, vaults[key], proceeds[key], results)
        /\ vaults = [k \in VaultKeys |-> vaults[k]]
        /\ proceeds = [k \in VaultKeys |-> proceeds[k]]
    BY LoanHeld
  <1>3. VaultOf(new) = key /\ LoanId(new) = LoanId(loan)
    BY <1>2, UpdatedLoan
  <1>4. /\ \A f \in LoanFields \ {"maturity"} : new[f] = loan[f]
        /\ new.maturity \in Int
    BY <1>2 DEF IsLoan, LoanFields
  <1> HIDE DEF new
  <1>5. LoanTyped(new) /\ Custody(new, vaults[key], proceeds[key], results)
    BY <1>2, <1>3, <1>4 DEF LoanFields, LoanTyped, Custody, Redeemed
  <1>6. /\ new \in loans' /\ loans' \subseteq (loans \ {loan}) \cup {new}
        /\ OneLoanPerId => loans \ {loan} \subseteq loans'
    BY <1>1, <1>3, StoredOverOne DEF Stored
  <1> QED BY <1>1, <1>2, <1>3, <1>5, <1>6, ChangedInPlace DEF Clears

\* What is sent to the issuer leaves the residual.
LEMMA RedeemCustody ==
  ASSUME CustodyInv, VaultInv', NEW loan \in loans, NEW tx, NEW residual \in Int, NEW refused,
         Redeem(tx, loan, residual, refused)
  PROVE  VaultsInCustody' /\ Clears
  <1> DEFINE new == [loan EXCEPT !.redeem_start = now, !.redeem_residual_collateral = residual]
             sent == loan.collateral_amount - residual
             key == VaultOf(loan)
  <1>1. /\ loans' = Stored(loans, new)
        /\ vaults' = CollateralSent(vaults, key, config.securitize_redemption_wallet,
                                    sent, refused)
        /\ vault_count' = vault_count /\ proceeds' = proceeds /\ results' = results
        /\ ~Redeemed(loan)
    BY DEF Redeem, redemptions
  <1>2. /\ IsLoan(loan) /\ LoanTyped(loan) /\ key \in VaultKeys /\ vaults[key] \in IntVault
        /\ vaults[key].deployed
        /\ Custody(loan, vaults[key], proceeds[key], results)
        /\ vaults = [k \in VaultKeys |-> vaults[k]]
        /\ proceeds = [k \in VaultKeys |-> proceeds[k]]
    BY LoanHeld
  <1>3. /\ Unclaimed(vaults[key]) = loan.collateral_amount /\ ~loan.returned
        /\ proceeds[key] = 0 /\ \A r \in results : r.vault # key
    BY <1>1, <1>2 DEF Custody
  <1>4. now \in Nat \ {0}
    BY DEF CustodyInv, Parameters
  <1>5. IsLoan(loan)
    BY <1>2
  <1>6. /\ VaultOf(new) = key /\ LoanId(new) = LoanId(loan)
        /\ new.redeem_start = now /\ new.redeem_residual_collateral = residual
        /\ \A f \in LoanFields \ {"redeem_start", "redeem_residual_collateral"} :
              new[f] = loan[f]
    <2>1. new = [f \in LoanFields |-> new[f]]
      BY <1>5 DEF IsLoan, LoanFields
    <2>2. new.redeem_start = now /\ new.redeem_residual_collateral = residual
      BY <1>5 DEF IsLoan, LoanFields
    <2>3. \A f \in LoanFields \ {"redeem_start", "redeem_residual_collateral"} :
             new[f] = loan[f]
      BY <1>5 DEF IsLoan, LoanFields
    <2> HIDE DEF new
    <2>4. VaultOf(new) = VaultOf(loan) /\ LoanId(new) = LoanId(loan)
      BY <1>5, <2>1, <2>3, SamePlace DEF LoanFields
    <2> QED BY <2>2, <2>3, <2>4
  <1> HIDE DEF new, key
  <1>7. LoanTyped(new) /\ Redeemed(new) /\ ~new.returned
    <2>1. /\ new.amount = loan.amount /\ new.apr = loan.apr
          /\ new.accrual_start_time = loan.accrual_start_time
          /\ new.collateral_amount = loan.collateral_amount
          /\ new.initial_ltv = loan.initial_ltv
          /\ new.partial_liquidation_fee = loan.partial_liquidation_fee
          /\ new.maturity = loan.maturity
          /\ new.full_liquidation_fee = loan.full_liquidation_fee
          /\ new.returned = loan.returned
      BY <1>6 DEF LoanFields
    <2> QED BY <1>2, <1>3, <1>4, <1>6, <2>1 DEF LoanTyped, Redeemed
  <1>8. sent \in Int /\ loan.collateral_amount - sent = residual
    BY <1>2 DEF LoanTyped
  <1> HIDE DEF sent
  <1>9. /\ vaults' = [k \in VaultKeys |-> vaults'[k]]
        /\ \A k \in VaultKeys \ {key} : vaults'[k] = vaults[k]
        /\ vaults'[key] \in IntVault /\ vaults'[key].deployed
        /\ Unclaimed(vaults'[key]) = residual
    <2>1. vaults' = CollateralSent(vaults, key, config.securitize_redemption_wallet,
                                   sent, refused)
      BY <1>1
    <2>2. /\ vaults' = [k \in VaultKeys |-> vaults'[k]]
          /\ \A k \in VaultKeys \ {key} : vaults'[k] = vaults[k]
          /\ vaults'[key] \in IntVault /\ vaults'[key].deployed
          /\ Unclaimed(vaults'[key]) = Unclaimed(vaults[key]) - sent
      BY <1>2, <1>8, <2>1, SentUnclaimed
    <2> QED BY <1>3, <1>8, <2>2
  <1>10. Custody(new, vaults'[key], proceeds'[key], results)
    BY <1>1, <1>3, <1>6, <1>7, <1>9 DEF Custody
  <1>11. /\ new \in loans' /\ loans' \subseteq (loans \ {loan}) \cup {new}
         /\ OneLoanPerId => loans \ {loan} \subseteq loans'
    BY <1>1, <1>6, StoredOverOne DEF Stored
  <1> QED BY <1>1, <1>2, <1>6, <1>7, <1>9, <1>10, <1>11, ChangedInPlace DEF key, Clears

\* The issuer adds to the vault, before there is a result for it.
LEMMA IssuerReturnsCustody ==
  ASSUME CustodyInv, VaultInv', NEW loan \in loans, IssuerReturns(loan)
  PROVE  VaultsInCustody' /\ Clears
  <1> DEFINE new == [loan EXCEPT !.returned = TRUE]
             key == VaultOf(loan)
  <1>1. PICK r \in Returns :
          /\ loans' = Stored(loans, new)
          /\ vaults' = [vaults EXCEPT ![key].balance = @ + r.collateral]
          /\ proceeds' = [proceeds EXCEPT ![key] = @ + r.payment]
          /\ vault_count' = vault_count /\ results' = results
          /\ Redeemed(loan) /\ ~loan.returned
    BY DEF IssuerReturns
  <1>2. /\ IsLoan(loan) /\ LoanTyped(loan) /\ key \in VaultKeys /\ vaults[key] \in IntVault
        /\ vaults[key].deployed
        /\ Custody(loan, vaults[key], proceeds[key], results)
        /\ vaults = [k \in VaultKeys |-> vaults[k]]
        /\ proceeds = [k \in VaultKeys |-> proceeds[k]]
    BY LoanHeld
  <1>3. /\ Unclaimed(vaults[key]) = loan.redeem_residual_collateral
        /\ proceeds[key] = 0 /\ \A s \in results : s.vault # key
    BY <1>1, <1>2 DEF Custody
  <1>4. VaultOf(new) = key /\ LoanId(new) = LoanId(loan)
    BY <1>2, UpdatedLoan
  <1>5. /\ new.returned = TRUE
        /\ \A f \in LoanFields \ {"returned"} : new[f] = loan[f]
    BY <1>2 DEF IsLoan, LoanFields
  <1>6. r.collateral \in Nat /\ r.payment \in Nat
    BY SecuritizeAssumption
  <1> HIDE DEF new, key
  <1>7. LoanTyped(new) /\ Redeemed(new)
    BY <1>1, <1>2, <1>5 DEF LoanFields, LoanTyped, Redeemed
  <1> DEFINE v == [vaults[key] EXCEPT !.balance = @ + r.collateral]
  <1>8. /\ v \in IntVault /\ Unclaimed(v) = Unclaimed(vaults[key]) + r.collateral
        /\ v.deployed
    BY <1>2, <1>6 DEF IntVault, Unclaimed
  <1>9. vaults' = [vaults EXCEPT ![key] = v]
    BY <1>1
  <1> HIDE DEF v
  <1>10. /\ vaults' = [k \in VaultKeys |-> vaults'[k]]
         /\ \A k \in VaultKeys \ {key} : vaults'[k] = vaults[k]
         /\ vaults'[key] = v
    BY <1>2, <1>9
  <1>11. /\ proceeds' = [k \in VaultKeys |-> proceeds'[k]]
         /\ \A k \in VaultKeys \ {key} : proceeds'[k] = proceeds[k]
         /\ proceeds'[key] \in Int
    BY <1>1, <1>2, <1>3, <1>6
  <1>12. new.redeem_residual_collateral = loan.redeem_residual_collateral
         /\ loan.redeem_residual_collateral \in Int
    BY <1>2, <1>5 DEF LoanFields, LoanTyped
  <1>13. Custody(new, vaults'[key], proceeds'[key], results)
    BY <1>3, <1>4, <1>5, <1>6, <1>7, <1>8, <1>10, <1>11, <1>12 DEF Custody
  <1>14. /\ new \in loans' /\ loans' \subseteq (loans \ {loan}) \cup {new}
         /\ OneLoanPerId => loans \ {loan} \subseteq loans'
    BY <1>1, <1>4, StoredOverOne DEF Stored
  <1> QED BY <1>1, <1>4, <1>7, <1>10, <1>11, <1>13, <1>14, ChangedInPlace DEF key, Clears

\* The result that is signed says what the vault holds.
LEMMA SignRedeemResultCustody ==
  ASSUME CustodyInv, NEW loan \in loans, SignRedeemResult(loan)
  PROVE  VaultsInCustody' /\ Clears
  <1> DEFINE key == VaultOf(loan)
             held == Unclaimed(vaults[key])
             result == [vault |-> key, payment_redeemed |-> proceeds[key],
                        collateral_redeemed |-> held - loan.redeem_residual_collateral,
                        timestamp |-> now, signer |-> config.owner]
  <1>1. /\ loan.returned
        /\ results' = results \cup {result}
        /\ loans' = loans /\ vaults' = vaults /\ proceeds' = proceeds
        /\ vault_count' = vault_count
    BY DEF SignRedeemResult, vars
  <1>2. /\ LoanTyped(loan) /\ vaults[key] \in IntVault
    BY LoanHeld
  <1>3. /\ result.vault = key /\ result.payment_redeemed = proceeds[key]
        /\ held = loan.redeem_residual_collateral + result.collateral_redeemed
    BY <1>2 DEF LoanTyped, IntVault, Unclaimed
  <1> HIDE DEF result
  <1>4. \A l \in loans : VaultOf(l) = key => l = loan
    BY DEF CustodyInv, VaultInv, VaultsNotShared
  <1>5. ASSUME NEW l \in loans
        PROVE  /\ LoanTyped(l) /\ VaultOf(l) \in VaultKeys
               /\ Custody(l, vaults[VaultOf(l)], proceeds[VaultOf(l)], results')
    <2>1. /\ LoanTyped(l) /\ VaultOf(l) \in VaultKeys
          /\ Custody(l, vaults[VaultOf(l)], proceeds[VaultOf(l)], results)
      BY DEF CustodyInv, VaultsInCustody
    <2> QED BY <1>1, <1>3, <1>4, <2>1 DEF Custody
  <1>6. ASSUME NEW k \in VaultKeys, k[2] >= vault_count[k[1]]
        PROVE  Unused(k, vaults[k], proceeds[k], results')
    <2>1. Unused(k, vaults[k], proceeds[k], results)
      BY <1>6 DEF CustodyInv, VaultsInCustody
    <2>2. k # key
      <3>1. /\ loan.vault_id < vault_count[loan.borrower]
            /\ loan.borrower \in Borrowers /\ loan.vault_id \in Nat
            /\ vault_count[loan.borrower] \in Nat
        BY DEF CustodyInv, VaultInv, VaultsNotShared, IsLoan
      <3> QED BY <1>6, <3>1 DEF VaultOf
    <2> QED BY <1>1, <1>3, <2>1, <2>2 DEF Unused
  <1>7. VaultsInCustody'
    BY <1>1, <1>5, <1>6 DEF CustodyInv, VaultsInCustody
  <1>8. Clears
    BY <1>1 DEF Clears, Vacated
  <1> QED BY <1>7, <1>8

-----------------------------------------------------------------------------
(* Loans that are closed, made and transferred.                            *)

\* A loan whose result is known is closed over all that its vault holds.
LEMMA PaidOut ==
  ASSUME CustodyInv, NEW loan \in loans, NEW result \in ResultsFor(loan)
  PROVE  /\ InVaultPayment(loan, result) = proceeds[VaultOf(loan)]
         /\ InVaultCollateral(loan, result) = Unclaimed(vaults[VaultOf(loan)])
         /\ proceeds[VaultOf(loan)] \in Int /\ Unclaimed(vaults[VaultOf(loan)]) \in Int
  <1> DEFINE key == VaultOf(loan)
  <1>1. Custody(loan, vaults[key], proceeds[key], results)
    BY LoanHeld
  <1>2. proceeds[key] \in Int /\ Unclaimed(vaults[key]) \in Int
    BY <1>1 DEF Custody, IntVault, Unclaimed
  <1>3. CASE Redeemed(loan)
    <2>1. result \in results /\ result.vault = VaultOf(loan)
      BY <1>3 DEF ResultsFor, Concluding
    <2> QED BY <1>1, <1>2, <1>3, <2>1 DEF Custody, InVaultPayment, InVaultCollateral
  <1>4. CASE ~Redeemed(loan)
    BY <1>1, <1>2, <1>4 DEF Custody, InVaultPayment, InVaultCollateral
  <1> QED BY <1>2, <1>3, <1>4

LEMMA PaidWhole ==
  ASSUME CustodyInv, NEW key \in VaultKeys, proceeds[key] \in Int,
         proceeds' = FundsWithdrawn(key, proceeds[key])
  PROVE  /\ proceeds' = [k \in VaultKeys |-> proceeds'[k]]
         /\ \A k \in VaultKeys \ {key} : proceeds'[k] = proceeds[k]
         /\ proceeds'[key] = 0
  <1>1. proceeds = [k \in VaultKeys |-> proceeds[k]]
    BY DEF CustodyInv, VaultsInCustody
  <1> DEFINE left == proceeds[key] - proceeds[key]
  <1>2. proceeds' = [proceeds EXCEPT ![key] = left] /\ left = 0
    BY DEF FundsWithdrawn
  <1> HIDE DEF left
  <1> QED BY <1>1, <1>2

LEMMA SettleLoanCustody ==
  ASSUME CustodyInv, VaultInv', NEW loan \in loans, NEW tx, NEW result \in ResultsFor(loan),
         NEW refused, SettleLoan(tx, loan, result, refused)
  PROVE  VaultsInCustody' /\ Clears
  <1> DEFINE key == VaultOf(loan)
             all == Unclaimed(vaults[key])
  <1>1. /\ key \in VaultKeys /\ vaults = [k \in VaultKeys |-> vaults[k]]
        /\ vaults[key] \in IntVault
    BY LoanHeld
  <1>2. proceeds[key] \in Int /\ all \in Int
    BY PaidOut
  <1>3. /\ loans' = loans \ {loan} /\ vault_count' = vault_count /\ results' = results
        /\ proceeds' = FundsWithdrawn(key, proceeds[key])
        /\ vaults' = CollateralSent(vaults, key, loan.borrower, all, refused)
    BY PaidOut DEF SettleLoan
  <1> HIDE DEF key
  <1>4. /\ proceeds' = [k \in VaultKeys |-> proceeds'[k]]
        /\ \A k \in VaultKeys \ {key} : proceeds'[k] = proceeds[k]
        /\ proceeds'[key] = 0
    BY <1>1, <1>2, <1>3, PaidWhole
  <1>5. /\ vaults' = [k \in VaultKeys |-> vaults'[k]]
        /\ \A k \in VaultKeys \ {key} : vaults'[k] = vaults[k]
        /\ vaults'[key] \in IntVault /\ Unclaimed(vaults'[key]) = all - all
    BY <1>1, <1>2, <1>3, SentUnclaimed
  <1>6. Vacant(vaults'[key], proceeds'[key])
    BY <1>2, <1>4, <1>5 DEF Vacant
  <1> QED BY <1>3, <1>4, <1>5, <1>6, Closed DEF key

\* What the liquidator of a loan takes.
LEMMA SplitInt ==
  ASSUME Parameters, OracleAnswers, NEW loan, LoanTyped(loan),
         NEW payment \in Int, NEW collateral \in Int
  PROVE  Split(loan, payment, collateral).collateral_to_liquidator \in Int
  <1> DEFINE due == InterestDue(loan)
             debt == loan.amount + due
             full_fee == Fee(loan.full_liquidation_fee, debt)
             fee == MinOf(full_fee, payment)
             missing == CollateralFor(full_fee - fee, rate)
             fee_collateral == MinOf(collateral, missing)
             paid == payment - fee
             remaining == collateral - fee_collateral
             value == ValueOf(remaining, rate)
             for_debt == CollateralFor(MaxOf(0, debt - paid), rate)
  <1>1. /\ BPS \in Nat \ {0} /\ BPS * YEAR \in Nat \ {0}
        /\ rate.num \in Nat \ {0} /\ rate.den \in Nat \ {0}
    BY MathAssumption, MulNat, RateTyped DEF Parameters, Rates
  <1>2. debt \in Int
    <2>1. /\ loan.amount * loan.apr * (loan.maturity - loan.accrual_start_time) \in Int
          /\ loan.amount * loan.apr * (now - loan.accrual_start_time) \in Int
      BY DEF LoanTyped, Parameters
    <2>2. LiquidationInterest(loan) \in Int /\ SettlementInterest(loan) \in Int
      BY <1>1, <2>1, DivInt DEF LiquidationInterest, SettlementInterest, Interest
    <2> QED BY <2>2 DEF InterestDue, LoanTyped
  <1> HIDE DEF due, debt
  <1>3. full_fee \in Int
    BY <1>1, <1>2, DivInt DEF Fee, LoanTyped
  <1> HIDE DEF full_fee
  <1>4. fee \in Int
    BY <1>3 DEF MinOf
  <1> HIDE DEF fee
  <1>5. missing \in Int
    BY <1>1, <1>3, <1>4, DivInt DEF CollateralFor
  <1> HIDE DEF missing
  <1>6. fee_collateral \in Int /\ paid \in Int
    BY <1>4, <1>5 DEF MinOf
  <1> HIDE DEF fee_collateral, paid
  <1>7. remaining \in Int /\ MaxOf(0, debt - paid) \in Int
    BY <1>2, <1>6 DEF MaxOf
  <1>8. for_debt \in Int
    BY <1>1, <1>7, DivInt DEF CollateralFor
  <1> HIDE DEF remaining, for_debt, value
  <1>9. MinOf(for_debt, remaining) + fee_collateral \in Int
    BY <1>6, <1>7, <1>8 DEF MinOf
  <1>10. Split(loan, payment, collateral).collateral_to_liquidator
            = IF paid >= debt THEN 0
              ELSE IF paid + value >= debt
              THEN MinOf(for_debt, remaining) + fee_collateral
              ELSE collateral
    BY DEF Split, due, debt, full_fee, fee, missing, fee_collateral, paid, remaining, value,
           for_debt
  <1> QED BY <1>9, <1>10

\* The liquidator takes a part, the borrower the rest.
LEMMA LiquidateLoanCustody ==
  ASSUME CustodyInv, VaultInv', NEW loan \in loans, NEW tx, NEW result \in ResultsFor(loan),
         NEW refused, LiquidateLoan(tx, loan, result, refused)
  PROVE  VaultsInCustody' /\ Clears
  <1> DEFINE key == VaultOf(loan)
             all == Unclaimed(vaults[key])
             taken == Split(loan, proceeds[key], all).collateral_to_liquidator
             first == CollateralSent(vaults, key, Actor(tx), taken, refused)
  <1>1. /\ key \in VaultKeys /\ vaults = [k \in VaultKeys |-> vaults[k]]
        /\ vaults[key] \in IntVault /\ LoanTyped(loan)
    BY LoanHeld
  <1>2. proceeds[key] \in Int /\ all \in Int
    BY PaidOut
  <1>3. /\ loans' = loans \ {loan} /\ vault_count' = vault_count /\ results' = results
        /\ proceeds' = FundsWithdrawn(key, proceeds[key])
        /\ vaults' = CollateralSent(first, key, loan.borrower, all - taken, refused)
        /\ OracleAnswers
    BY PaidOut DEF LiquidateLoan, LiquidationPossible
  <1>4. taken \in Int
    BY <1>1, <1>2, <1>3, SplitInt DEF CustodyInv
  <1> HIDE DEF key, taken
  <1>5. /\ proceeds' = [k \in VaultKeys |-> proceeds'[k]]
        /\ \A k \in VaultKeys \ {key} : proceeds'[k] = proceeds[k]
        /\ proceeds'[key] = 0
    BY <1>1, <1>2, <1>3, PaidWhole
  <1>6. /\ first = [k \in VaultKeys |-> first[k]]
        /\ \A k \in VaultKeys \ {key} : first[k] = vaults[k]
        /\ first[key] \in IntVault /\ Unclaimed(first[key]) = all - taken
    BY <1>1, <1>4, SentUnclaimed
  <1> HIDE DEF first
  <1>7. /\ vaults' = [k \in VaultKeys |-> vaults'[k]]
        /\ \A k \in VaultKeys \ {key} : vaults'[k] = vaults[k]
        /\ vaults'[key] \in IntVault
        /\ Unclaimed(vaults'[key]) = (all - taken) - (all - taken)
    <2>1. all - taken \in Int
      BY <1>2, <1>4
    <2> HIDE DEF all
    <2> QED BY <1>1, <1>3, <1>6, <2>1, SentUnclaimed
  <1>8. Vacant(vaults'[key], proceeds'[key])
    BY <1>2, <1>4, <1>5, <1>7 DEF Vacant
  <1> QED BY <1>3, <1>5, <1>7, <1>8, Closed DEF key

\* The next vault of a borrower: it holds nothing.
LEMMA NextVault ==
  ASSUME CustodyInv, NEW b \in Borrowers, vault_count[b] \in VaultIds
  PROVE  LET key == <<b, vault_count[b]>>
         IN  key \in VaultKeys /\ Unused(key, vaults[key], proceeds[key], results)
  <1>1. vault_count[b] \in Nat /\ <<b, vault_count[b]>> \in VaultKeys
    BY DEF CustodyInv, VaultInv, VaultKeys
  <1> QED BY <1>1 DEF CustodyInv, VaultsInCustody

LEMMA CountedGrows ==
  ASSUME CustodyInv, NEW b \in Borrowers
  PROVE  \A c \in Borrowers : Counted(b)[c] >= vault_count[c]
  BY DEF CustodyInv, VaultInv, Counted

LEMMA CreateLoanCustody ==
  ASSUME CustodyInv, VaultInv', NEW tx, NEW id \in OfferIds, NEW principal \in Int,
         NEW collateral \in Int, CreateLoan(tx, id, principal, collateral)
  PROVE  VaultsInCustody' /\ Clears
  <1> DEFINE borrower == Actor(tx)
             key == <<borrower, vault_count[borrower]>>
             new == NewRedeemableLoan(id, borrower, principal, collateral, vault_count[borrower])
             created == VaultCreated(vaults, key)
  <1>1. /\ borrower \in Borrowers /\ vault_count[borrower] \in VaultIds
        /\ RedeemableOfferAccepted(Offer[id], borrower, principal, collateral)
        /\ loans' = Stored(loans, new)
        /\ vault_count' = Counted(borrower)
        /\ vaults' = CollateralPaidIn(created, key, collateral)
        /\ ~Exists(new)
        /\ proceeds' = proceeds /\ results' = results
    BY DEF CreateLoan, redemptions
  <1>2. key \in VaultKeys /\ Unused(key, vaults[key], proceeds[key], results)
    BY <1>1, NextVault
  <1>3. /\ vaults = [k \in VaultKeys |-> vaults[k]]
        /\ proceeds = [k \in VaultKeys |-> proceeds[k]]
        /\ Parameters
    BY DEF CustodyInv, VaultsInCustody
  <1>4. /\ LoanTyped(new) /\ VaultOf(new) = key
        /\ ~Redeemed(new) /\ ~new.returned /\ new.collateral_amount = collateral
    BY <1>1, <1>3, NewLoanTyped
  <1>5. \A b \in Borrowers : vault_count'[b] >= vault_count[b]
    BY <1>1, CountedGrows
  <1> HIDE DEF new, key, borrower
  <1>6. /\ vaults[key] \in IntVault /\ Unclaimed(vaults[key]) = 0
        /\ proceeds[key] = 0 /\ \A r \in results : r.vault # key
    BY <1>2 DEF Unused, Vacant
  <1>7. /\ created = [k \in VaultKeys |-> created[k]]
        /\ created[key] \in IntVault /\ Unclaimed(created[key]) = 0
        /\ created[key].deployed
        /\ \A k \in VaultKeys \ {key} : created[k] = vaults[k]
    BY <1>2, <1>3, <1>6, CreatedUnclaimed
  <1> HIDE DEF created
  <1>8. /\ vaults' = [k \in VaultKeys |-> vaults'[k]]
        /\ \A k \in VaultKeys \ {key} : vaults'[k] = vaults[k]
        /\ vaults'[key] \in IntVault /\ Unclaimed(vaults'[key]) = 0 + collateral
        /\ vaults'[key].deployed
    BY <1>1, <1>2, <1>7, PaidInUnclaimed
  <1>9. Custody(new, vaults'[key], proceeds'[key], results)
    BY <1>1, <1>4, <1>6, <1>8 DEF Custody
  <1> DEFINE gone == {}
             come == {new}
  <1>10. /\ gone \in SUBSET loans /\ come \subseteq loans'
         /\ loans' \subseteq (loans \ gone) \cup come
         /\ loans \ gone \subseteq loans' /\ \A l \in gone : FALSE
    BY <1>1, StoredWhereNone
  <1>11. \A k \in VaultKeys : (\A l \in gone \cup come : VaultOf(l) # k) =>
             vaults'[k] = vaults[k] /\ proceeds'[k] = proceeds[k]
    BY <1>1, <1>4, <1>8
  <1>12. \A l \in come :
             /\ LoanTyped(l) /\ VaultOf(l) \in VaultKeys
             /\ Custody(l, vaults'[VaultOf(l)], proceeds'[VaultOf(l)], results)
    BY <1>2, <1>4, <1>9
  <1> HIDE DEF gone, come
  <1> QED BY <1>1, <1>3, <1>5, <1>8, <1>10, <1>11, <1>12, Changed DEF Clears

\* All that the old vault holds arrives in the new one.
LEMMA TransferLoanCustody ==
  ASSUME CustodyInv, VaultInv', NoVaultRefused, NEW loan \in loans, NEW tx \in Txs,
         NEW new_borrower \in Borrowers, NEW refused \in SUBSET Refusals,
         TransferLoan(tx, loan, new_borrower, refused)
  PROVE  VaultsInCustody' /\ (TransferIdFree => Clears)
  <1> DEFINE new_id == vault_count[new_borrower]
             new_key == <<new_borrower, new_id>>
             key == VaultOf(loan)
             new == [loan EXCEPT !.borrower = new_borrower, !.vault_id = new_id]
             amount == Unclaimed(vaults[key])
             created == VaultCreated(vaults, new_key)
             sent == CollateralSent(created, key, new_key, amount, refused)
  <1>1. /\ new_borrower # loan.borrower /\ new_id \in VaultIds
        /\ loans' = Stored(loans, new) \ {loan}
        /\ vault_count' = Counted(new_borrower)
        /\ vaults' = CollateralMoved(key, new_key, refused)
        /\ proceeds' = ProceedsMoved(key, new_key)
        /\ results' = results
    BY DEF TransferLoan
  <1>2. TransferIdFree => ~Exists(new)
    BY DEF TransferIdFree
  <1>3. new_key \in VaultKeys /\ Unused(new_key, vaults[new_key], proceeds[new_key], results)
    BY <1>1, NextVault
  <1>4. /\ IsLoan(loan) /\ LoanTyped(loan) /\ key \in VaultKeys /\ vaults[key] \in IntVault
        /\ Custody(loan, vaults[key], proceeds[key], results)
        /\ vaults = [k \in VaultKeys |-> vaults[k]]
        /\ proceeds = [k \in VaultKeys |-> proceeds[k]]
    BY LoanHeld
  <1>5. /\ IsLoan(loan)
        /\ new.borrower = new_borrower /\ new.vault_id = new_id
        /\ \A f \in LoanFields \ {"borrower", "vault_id"} : new[f] = loan[f]
    <2>1. IsLoan(loan)
      BY <1>4
    <2> QED BY <2>1 DEF IsLoan, LoanFields
  <1>6. VaultOf(new) = new_key /\ new # loan
    BY <1>1, <1>5 DEF VaultOf
  <1>7. key # new_key
    BY <1>1 DEF VaultOf
  <1>8. \A b \in Borrowers : vault_count'[b] >= vault_count[b]
    BY <1>1, CountedGrows
  <1> HIDE DEF new, key, new_key, new_id
  <1>9. <<"collateral", new_key>> \notin refused
    BY <1>3 DEF NoVaultRefused
  <1>10. /\ vaults[new_key] \in IntVault /\ Unclaimed(vaults[new_key]) = 0
        /\ proceeds[new_key] = 0 /\ \A r \in results : r.vault # new_key
    BY <1>3 DEF Unused, Vacant
  <1>11. amount \in Int
    BY <1>4 DEF IntVault, Unclaimed
  <1>12. /\ created = [k \in VaultKeys |-> created[k]]
         /\ created[new_key] \in IntVault /\ Unclaimed(created[new_key]) = 0
         /\ created[new_key].deployed
         /\ \A k \in VaultKeys \ {new_key} : created[k] = vaults[k]
    BY <1>3, <1>4, <1>10, CreatedUnclaimed
  <1> HIDE DEF created, amount
  <1>13. /\ sent = [k \in VaultKeys |-> sent[k]]
         /\ sent[key] \in IntVault /\ Unclaimed(sent[key]) = amount - amount
         /\ \A k \in VaultKeys \ {key} : sent[k] = created[k]
    <2>1. created[key] \in IntVault /\ Unclaimed(created[key]) = amount
      BY <1>4, <1>7, <1>12 DEF amount
    <2> QED BY <1>4, <1>11, <1>12, <2>1, SentUnclaimed
  <1>14. vaults' = [sent EXCEPT ![new_key].balance = @ + amount]
    BY <1>1, <1>9 DEF CollateralMoved, CollateralRefused, created, sent, amount
  <1> HIDE DEF sent
  <1> DEFINE v == [sent[new_key] EXCEPT !.balance = @ + amount]
  <1>15. v \in IntVault /\ v.deployed /\ Unclaimed(v) = 0 + amount
    <2>1. /\ sent[new_key] \in IntVault /\ Unclaimed(sent[new_key]) = 0
          /\ sent[new_key].deployed
      BY <1>3, <1>7, <1>12, <1>13
    <2> QED BY <1>11, <2>1 DEF IntVault, Unclaimed
  <1>16. vaults' = [sent EXCEPT ![new_key] = v]
    BY <1>14
  <1> HIDE DEF v
  <1>17. /\ vaults' = [k \in VaultKeys |-> vaults'[k]]
         /\ \A k \in VaultKeys \ {key, new_key} : vaults'[k] = vaults[k]
         /\ vaults'[new_key] = v /\ vaults'[key] = sent[key]
    BY <1>3, <1>4, <1>7, <1>12, <1>13, <1>16
  <1>18. proceeds[key] \in Int
    BY <1>4 DEF Custody
  <1>19. /\ proceeds' = [k \in VaultKeys |-> proceeds'[k]]
         /\ \A k \in VaultKeys \ {key, new_key} : proceeds'[k] = proceeds[k]
         /\ proceeds'[new_key] = proceeds[key] /\ proceeds'[key] = 0
    <2>1. proceeds' = [proceeds EXCEPT ![key] = 0, ![new_key] = @ + proceeds[key]]
      BY <1>1 DEF ProceedsMoved
    <2>2. /\ proceeds = [k \in VaultKeys |-> proceeds[k]]
          /\ key \in VaultKeys /\ new_key \in VaultKeys /\ key # new_key
          /\ proceeds[new_key] = 0 /\ proceeds[key] \in Int
      BY <1>3, <1>4, <1>7, <1>10, <1>18
    <2>3. proceeds' = [k \in VaultKeys |-> proceeds'[k]]
      BY <2>1, <2>2
    <2>4. \A k \in VaultKeys \ {key, new_key} : proceeds'[k] = proceeds[k]
      BY <2>1, <2>2
    <2>5. proceeds'[key] = 0
      BY <2>1, <2>2
    <2>6. proceeds'[new_key] = 0 + proceeds[key]
      BY <2>1, <2>2
    <2> QED BY <2>2, <2>3, <2>4, <2>5, <2>6
  <1>20. LoanTyped(new)
    BY <1>4, <1>5 DEF LoanFields, LoanTyped
  <1>21. Custody(new, v, proceeds[key], results)
    <2>1. Unclaimed(v) = Unclaimed(vaults[key])
      BY <1>11, <1>15 DEF amount
    <2>2. /\ new.returned = loan.returned
          /\ new.redeem_start = loan.redeem_start
          /\ new.redeem_residual_collateral = loan.redeem_residual_collateral
          /\ new.collateral_amount = loan.collateral_amount
      BY <1>5 DEF LoanFields
    <2> QED BY <1>4, <1>6, <1>10, <1>15, <2>1, <2>2 DEF Custody, Redeemed
  <1> DEFINE come == {new}
  <1>22. /\ {loan} \in SUBSET loans /\ come \subseteq loans'
         /\ loans' \subseteq (loans \ {loan}) \cup come
    BY <1>1, <1>6 DEF Stored
  <1>23. TransferIdFree => loans \ {loan} \subseteq loans'
    BY <1>1, <1>2, StoredWhereNone
  <1>24. \A l \in {loan} : Vacant(vaults'[VaultOf(l)], proceeds'[VaultOf(l)])
    BY <1>11, <1>13, <1>17, <1>19 DEF Vacant, key
  <1>25. \A k \in VaultKeys : (\A l \in {loan} \cup come : VaultOf(l) # k) =>
             vaults'[k] = vaults[k] /\ proceeds'[k] = proceeds[k]
    BY <1>6, <1>17, <1>19 DEF key
  <1>26. \A l \in come :
             /\ LoanTyped(l) /\ VaultOf(l) \in VaultKeys
             /\ Custody(l, vaults'[VaultOf(l)], proceeds'[VaultOf(l)], results)
    BY <1>3, <1>6, <1>17, <1>19, <1>20, <1>21
  <1> HIDE DEF come
  <1> QED BY <1>1, <1>8, <1>17, <1>19, <1>22, <1>23, <1>24, <1>25, <1>26, Changed
     DEF Clears

-----------------------------------------------------------------------------
(* All steps.                                                              *)

LEMMA InitCustody == Init => CustodyInv
  <1> SUFFICES ASSUME Init PROVE CustodyInv
    OBVIOUS
  <1>1. VaultInv
    BY VaultInit
  <1>2. Parameters
    BY ConfigAssumption DEF Init, Parameters, ConfigRecord
  <1>3. VaultsInCustody
    <2>1. /\ loans = {} /\ results = {}
          /\ vaults = [key \in VaultKeys |-> EmptyVault(FALSE)]
          /\ proceeds = [key \in VaultKeys |-> 0]
      BY DEF Init
    <2>2. EmptyVault(FALSE) \in IntVault /\ Unclaimed(EmptyVault(FALSE)) = 0
      BY DEF EmptyVault, IntVault, Unclaimed
    <2> QED BY <2>1, <2>2 DEF VaultsInCustody, Unused, Vacant
  <1> QED BY <1>1, <1>2, <1>3 DEF CustodyInv

\* The fees that new loans take over stay numbers, whatever the owner sets.
LEMMA AdministrationParameters ==
  ASSUME Parameters, NEW sender,
         Administration(sender) \/ SetSecuritizeRedemptionWallet(sender)
  PROVE  Parameters'
  <1> DEFINE Fees == {"partial_liquidation_fee", "full_liquidation_fee"}
  <1>1. \A f \in Fees : f \in DOMAIN config /\ config[f] \in Nat
    BY DEF Parameters
  <1>2. rate' = rate /\ now' = now
    BY DEF Administration, SetPartialLiquidationFee, SetFullLiquidationFee, SetProtocolFee,
           ChangeProtocolWallet, ChangeVaultRegistrar, SetRefinanceAddr, SetLiquidationAddr,
           SetProxyAuthorization, ProposeOwner, ClaimOwnership, SetTransferAgent,
           SetSecuritizeRedemptionWallet, OwnerSets, environment
  <1>3. \A f \in Fees : f \in DOMAIN config' /\ config'[f] \in Nat
    <2>1. ASSUME NEW g, NEW values \in SUBSET Nat, OwnerSets(sender, g, values)
          PROVE  \A f \in Fees : f \in DOMAIN config' /\ config'[f] \in Nat
      BY <1>1, <2>1 DEF OwnerSets
    <2>2. CASE SetPartialLiquidationFee(sender) \/ SetFullLiquidationFee(sender)
      BY <2>1, <2>2, AdminAssumption DEF SetPartialLiquidationFee, SetFullLiquidationFee
    <2>3. CASE SetProtocolFee(sender)
      BY <1>1, <2>3 DEF SetProtocolFee
    <2>4. CASE SetProxyAuthorization(sender)
      BY <1>1, <2>4 DEF SetProxyAuthorization
    <2>5. CASE ClaimOwnership(sender)
      BY <1>1, <2>5 DEF ClaimOwnership
    <2>6. CASE SetTransferAgent(sender)
      BY <1>1, <2>6 DEF SetTransferAgent
    <2>7. CASE \/ ChangeProtocolWallet(sender) \/ ChangeVaultRegistrar(sender)
               \/ SetRefinanceAddr(sender) \/ SetLiquidationAddr(sender)
               \/ ProposeOwner(sender) \/ SetSecuritizeRedemptionWallet(sender)
      BY <1>1, <2>7 DEF ChangeProtocolWallet, ChangeVaultRegistrar,
         SetRefinanceAddr, SetLiquidationAddr, ProposeOwner, SetSecuritizeRedemptionWallet,
         OwnerSets
    <2> QED BY <2>2, <2>3, <2>4, <2>5, <2>6, <2>7 DEF Administration
  <1> QED BY <1>2, <1>3 DEF Parameters

LEMMA CommonStepCustody ==
  ASSUME CustodyInv, CommonStep, UNCHANGED <<vault_count, redemptions>>
  PROVE  Parameters' /\ VaultsInCustody' /\ Clears
  <1>1. Parameters /\ vaults = [key \in VaultKeys |-> vaults[key]]
    BY DEF CustodyInv, VaultsInCustody
  <1>2. loans' = loans /\ vault_count' = vault_count /\ proceeds' = proceeds
        /\ results' = results
    BY CommonStepShares DEF redemptions
  <1>3. Parameters' /\ vaults' = vaults
    <2>1. CASE Tick
      BY <1>1, <2>1 DEF Tick, Parameters
    <2>2. CASE OracleUpdate
      BY <1>1, <2>2 DEF OracleUpdate, Parameters
    <2>3. ASSUME NEW tx, NEW id, RevokeOffer(tx, id) PROVE Parameters' /\ vaults' = vaults
      BY <1>1, <2>3 DEF RevokeOffer, Parameters, assets, environment
    <2>4. ASSUME NEW sender, Administration(sender) \/ SetSecuritizeRedemptionWallet(sender)
          PROVE  Parameters' /\ vaults' = vaults
      <3>1. vaults' = vaults
        BY <2>4 DEF Administration, SetPartialLiquidationFee, SetFullLiquidationFee,
           SetProtocolFee, ChangeProtocolWallet, ChangeVaultRegistrar, SetRefinanceAddr,
           SetLiquidationAddr, SetProxyAuthorization, ProposeOwner, ClaimOwnership,
           SetTransferAgent, SetSecuritizeRedemptionWallet, OwnerSets, assets
      <3> QED BY <1>1, <2>4, <3>1, AdministrationParameters
    <2>5. ASSUME NEW wallet, ClaimPendingTransfers(wallet)
          PROVE  Parameters' /\ vaults' = vaults
      BY <1>1, <2>5 DEF ClaimPendingTransfers, Parameters, environment
    <2> QED BY <2>1, <2>2, <2>3, <2>4, <2>5 DEF CommonStep
  <1> QED BY <1>1, <1>2, <1>3, Undisturbed

LEMMA LoanStepParameters ==
  ASSUME NEW tx, NEW loan, LoanStep(tx, loan)
  PROVE  config' = config /\ rate' = rate /\ now' = now
  <1> DEFINE Same == config' = config /\ rate' = rate /\ now' = now
  <1>1. ASSUME NEW amount, AddCollateral(tx, loan, amount) PROVE Same
    BY <1>1 DEF AddCollateral, environment
  <1>2. ASSUME NEW m, ExtendLoan(tx, loan, MaxMaturity, m) \/ ExtendLoanLender(tx, loan, m)
        PROVE  Same
    BY <1>2 DEF ExtendLoan, ExtendLoanLender, MaturityExtended, environment
  <1>3. ASSUME NEW refused, NEW result,
               SettleLoan(tx, loan, result, refused) \/ LiquidateLoan(tx, loan, result, refused)
        PROVE  Same
    BY <1>3 DEF SettleLoan, LiquidateLoan, environment
  <1>4. ASSUME NEW refused, PartiallyLiquidateLoan(tx, loan, refused) PROVE Same
    BY <1>4 DEF PartiallyLiquidateLoan, environment
  <1>5. ASSUME NEW refused, NEW amount, RemoveCollateral(tx, loan, amount, refused) PROVE Same
    BY <1>5 DEF RemoveCollateral, environment
  <1>6. ASSUME NEW refused, NEW residual, Redeem(tx, loan, residual, refused) PROVE Same
    BY <1>6 DEF Redeem, environment
  <1>7. ASSUME NEW refused, NEW b, TransferLoan(tx, loan, b, refused) PROVE Same
    BY <1>7 DEF TransferLoan, environment
  <1>8. ASSUME NEW refused, NEW id, NEW principal,
               ReplaceLoanLender(tx, loan, id, principal, refused)
        PROVE  Same
    BY <1>8 DEF ReplaceLoanLender, environment
  <1>9. ASSUME NEW refused, NEW id, NEW principal, NEW collateral,
               ReplaceLoan(tx, loan, id, principal, collateral, refused)
        PROVE  Same
    BY <1>9 DEF ReplaceLoan, environment
  <1> HIDE DEF Same
  <1>10. Same
    BY <1>1, <1>2, <1>3, <1>4, <1>5, <1>6, <1>7, <1>8, <1>9 DEF LoanStep
  <1> QED BY <1>10 DEF Same

LEMMA LoanStepCustody ==
  ASSUME CustodyInv, VaultInv', NoVaultRefused, NEW tx \in Txs, NEW loan \in loans, LoanStep(tx, loan)
  PROVE  VaultsInCustody' /\ (TransferIdFree => Clears)
  <1> DEFINE InCustody == VaultsInCustody' /\ (TransferIdFree => Clears)
  <1>1. /\ CollateralSteps \subseteq Int /\ Principals \cup {0} \subseteq Int
        /\ CollateralAmounts \subseteq Int
    BY BaseAssumption
  <1>2. loan.collateral_amount \in Int /\ loan.maturity \in Int
    BY LoanHeld DEF LoanTyped
  <1>3. ASSUME NEW amount \in CollateralSteps, AddCollateral(tx, loan, amount)
        PROVE  InCustody
    BY <1>1, <1>3, AddCollateralCustody
  <1>4. ASSUME NEW m \in (loan.maturity + 1)..MaxMaturity,
               ExtendLoan(tx, loan, MaxMaturity, m) \/ ExtendLoanLender(tx, loan, m)
        PROVE  InCustody
    BY <1>2, <1>4, SecuritizeAssumption, MaturityExtendedCustody DEF ExtendLoan, ExtendLoanLender
  <1>5. ASSUME NEW refused, NEW result \in ResultsFor(loan),
               SettleLoan(tx, loan, result, refused) \/ LiquidateLoan(tx, loan, result, refused)
        PROVE  InCustody
    BY <1>5, SettleLoanCustody, LiquidateLoanCustody
  <1>6. ASSUME NEW refused, PartiallyLiquidateLoan(tx, loan, refused) PROVE InCustody
    BY <1>6, PartiallyLiquidateLoanCustody
  <1>7. ASSUME NEW refused, NEW amount \in CollateralSteps,
               RemoveCollateral(tx, loan, amount, refused)
        PROVE  InCustody
    BY <1>1, <1>7, RemoveCollateralCustody
  <1>8. ASSUME NEW refused, NEW residual \in CollateralSteps \cup {0, loan.collateral_amount},
               Redeem(tx, loan, residual, refused)
        PROVE  InCustody
    <2>1. residual \in Int
      BY <1>1, <1>2
    <2> QED BY <1>8, <2>1, RedeemCustody
  <1>9. ASSUME NEW refused \in SUBSET Refusals, NEW b \in Borrowers,
               TransferLoan(tx, loan, b, refused)
        PROVE  InCustody
    BY <1>9, TransferLoanCustody
  <1>10. ASSUME NEW refused, NEW id \in OfferIds, NEW principal \in Principals \cup {0},
                ReplaceLoanLender(tx, loan, id, principal, refused)
         PROVE  InCustody
    BY <1>1, <1>10, ReplaceLoanLenderCustody
  <1>11. ASSUME NEW refused, NEW id \in OfferIds, NEW principal \in Principals \cup {0},
                NEW collateral \in CollateralAmounts,
                ReplaceLoan(tx, loan, id, principal, collateral, refused)
         PROVE  InCustody
    BY <1>1, <1>11, ReplaceLoanCustody
  <1> QED BY <1>3, <1>4, <1>5, <1>6, <1>7, <1>8, <1>9, <1>10, <1>11 DEF LoanStep

\* The steps of a vault that its loan has no part in.
LEMMA VaultStepCustody ==
  ASSUME CustodyInv, NEW key \in VaultKeys,
         \/ key[1] \in Borrowers /\ key[2] = vault_count[key[1]] /\ CreateVaultIfNeeded(key[1])
         \/ \E tx \in Txs : Buy(tx, key)
         \/ \E wallet \in Accounts : WithdrawPendingCollateral(key, wallet)
  PROVE  VaultsInCustody' /\ Clears
  <1>1. /\ loans' = loans /\ vault_count' = vault_count /\ proceeds' = proceeds
        /\ results' = results
    BY DEF CreateVaultIfNeeded, Buy, WithdrawPendingCollateral, book, redemptions
  <1>2. vaults = [k \in VaultKeys |-> vaults[k]]
    BY DEF CustodyInv, VaultsInCustody
  <1> DEFINE Stirred ==
        /\ vaults' = [k \in VaultKeys |-> vaults'[k]]
        /\ vaults[key] \in IntVault =>
              /\ vaults'[key] \in IntVault /\ Unclaimed(vaults'[key]) = Unclaimed(vaults[key])
              /\ vaults[key].deployed => vaults'[key].deployed
        /\ \A k \in VaultKeys \ {key} : vaults'[k] = vaults[k]
  <1>3. Stirred
    <2>1. CASE key[1] \in Borrowers /\ key[2] = vault_count[key[1]]
               /\ CreateVaultIfNeeded(key[1])
      <3>1. key = <<key[1], vault_count[key[1]]>>
        BY <2>1 DEF VaultKeys
      <3>2. vaults' = VaultCreated(vaults, key)
        BY <2>1, <3>1 DEF CreateVaultIfNeeded
      <3> QED BY <1>2, <3>2, CreatedUnclaimed
    <2>2. ASSUME NEW tx, Buy(tx, key) PROVE Stirred
      <3>1. PICK amount \in CollateralSteps :
              vaults' = [vaults EXCEPT ![key].balance = @ + amount,
                                       ![key].pending[key[1]] = @ + amount,
                                       ![key].total = @ + amount]
        BY <2>2 DEF Buy
      <3> DEFINE v == [vaults[key] EXCEPT !.balance = @ + amount,
                                          !.pending[key[1]] = @ + amount,
                                          !.total = @ + amount]
      <3>2. vaults' = [vaults EXCEPT ![key] = v]
        BY <1>2, <3>1
      <3>3. ASSUME vaults[key] \in IntVault
            PROVE  /\ v \in IntVault /\ Unclaimed(v) = Unclaimed(vaults[key])
                   /\ v.deployed = vaults[key].deployed
        <4>1. amount \in Int /\ key[1] \in Wallets
          BY BaseAssumption DEF VaultKeys
        <4> QED BY <3>3, <4>1, BoughtUnclaimed
      <3> HIDE DEF v
      <3> QED BY <1>2, <3>2, <3>3
    <2>3. ASSUME NEW wallet \in Accounts, WithdrawPendingCollateral(key, wallet) PROVE Stirred
      <3> DEFINE amount == vaults[key].pending[wallet]
                 v == PendingWithdrawn(vaults[key], amount, wallet)
      <3>1. vaults' = [vaults EXCEPT ![key] = v]
        BY <2>3 DEF WithdrawPendingCollateral
      <3>2. ASSUME vaults[key] \in IntVault
            PROVE  /\ v \in IntVault /\ Unclaimed(v) = Unclaimed(vaults[key])
                   /\ v.deployed = vaults[key].deployed
        <4>1. wallet \in Wallets /\ amount \in Int
          BY <3>2 DEF Accounts, IntVault
        <4> HIDE DEF amount
        <4> QED BY <3>2, <4>1, PendingWithdrawnUnclaimed
      <3> HIDE DEF v
      <3> QED BY <1>2, <3>1, <3>2
    <2> QED BY <2>1, <2>2, <2>3
  <1> QED BY <1>1, <1>3, Undisturbed

LEMMA CustodyNext ==
  ASSUME NoVaultRefused, CustodyInv, [Next]_secVars
  PROVE  CustodyInv' /\ (TransferIdFree => Clears)
  <1> DEFINE InCustody == VaultsInCustody' /\ (TransferIdFree => Clears)
  <1>1. VaultInv'
    BY VaultNext DEF CustodyInv
  <1>2. CASE CommonStep /\ UNCHANGED <<vault_count, redemptions>>
    BY <1>1, <1>2, CommonStepCustody DEF CustodyInv
  <1>3. ASSUME NEW tx \in Txs, NEW id \in OfferIds, NEW principal \in Principals,
               NEW collateral \in CollateralAmounts, CreateLoan(tx, id, principal, collateral)
        PROVE  Parameters' /\ InCustody
    <2>1. principal \in Int /\ collateral \in Int
      BY BaseAssumption
    <2>2. Parameters'
      BY <1>3 DEF CreateLoan, CustodyInv, Parameters, environment
    <2> QED BY <1>1, <1>3, <2>1, <2>2, CreateLoanCustody
  <1>4. ASSUME NEW tx \in Txs, NEW loan \in loans, LoanStep(tx, loan)
        PROVE  Parameters' /\ InCustody
    <2>1. Parameters'
      BY <1>4, LoanStepParameters DEF CustodyInv, Parameters
    <2> QED BY <1>1, <1>4, <2>1, LoanStepCustody
  <1>5. ASSUME NEW loan \in loans, IssuerReturns(loan) \/ SignRedeemResult(loan)
        PROVE  Parameters' /\ InCustody
    <2>1. Parameters'
      BY <1>5 DEF IssuerReturns, SignRedeemResult, vars, environment, CustodyInv, Parameters
    <2> QED BY <1>1, <1>5, <2>1, IssuerReturnsCustody, SignRedeemResultCustody
  <1>6. ASSUME NEW b \in Borrowers, CreateVaultIfNeeded(b)
        PROVE  Parameters' /\ InCustody
    <2> DEFINE key == <<b, vault_count[b]>>
    <2>1. key \in VaultKeys /\ key[1] = b /\ key[2] = vault_count[b]
      BY <1>6 DEF CreateVaultIfNeeded
    <2>2. Parameters'
      BY <1>6 DEF CreateVaultIfNeeded, environment, CustodyInv, Parameters
    <2> HIDE DEF key
    <2> QED BY <1>1, <1>6, <2>1, <2>2, VaultStepCustody
  <1>7. ASSUME NEW key \in VaultKeys,
               \/ \E tx \in Txs : Buy(tx, key)
               \/ \E wallet \in Accounts : WithdrawPendingCollateral(key, wallet)
        PROVE  Parameters' /\ InCustody
    <2>1. Parameters'
      BY <1>7 DEF Buy, WithdrawPendingCollateral, environment, CustodyInv, Parameters
    <2> QED BY <1>1, <1>7, <2>1, VaultStepCustody
  <1>8. CASE UNCHANGED secVars
    <2>1. /\ loans' = loans /\ vault_count' = vault_count /\ proceeds' = proceeds
          /\ results' = results /\ vaults' = vaults /\ Parameters'
      BY <1>8 DEF secVars, vars, redemptions, CustodyInv, Parameters
    <2>2. vaults = [key \in VaultKeys |-> vaults[key]]
      BY DEF CustodyInv, VaultsInCustody
    <2> QED BY <1>1, <2>1, <2>2, Undisturbed DEF CustodyInv
  <1>9. \A b \in Borrowers \cap {Actor(tx) : tx \in Txs} : b \in Borrowers
    OBVIOUS
  <1> HIDE DEF InCustody
  <1>10. CASE ~(UNCHANGED secVars) /\ ~(CommonStep /\ UNCHANGED <<vault_count, redemptions>>)
    <2>1. Parameters' /\ InCustody
      BY <1>3, <1>4, <1>5, <1>6, <1>7, <1>9, <1>10 DEF Next
    <2> QED BY <1>1, <2>1 DEF CustodyInv, InCustody
  <1> QED BY <1>2, <1>8, <1>10

\* No step gives a second loan an id that a loan has: what is stored replaces it.
LEMMA IdsNext ==
  ASSUME OneLoanPerId, [Next]_secVars
  PROVE  OneLoanPerId'
  <1> DEFINE Kept == loans' \subseteq loans \/ \E x : loans' \subseteq Stored(loans, x)
  <1>1. ASSUME CommonStep PROVE Kept
    <2>1. loans' \subseteq loans
      BY <1>1, CommonStepShares
    <2> QED BY <2>1, Zenon
  <1>2. ASSUME NEW tx, NEW id, NEW principal, NEW collateral,
               CreateLoan(tx, id, principal, collateral)
        PROVE  Kept
    BY <1>2 DEF CreateLoan
  <1>3. ASSUME NEW tx, NEW loan, LoanStep(tx, loan) PROVE Kept
    <2>1. ASSUME NEW amount, AddCollateral(tx, loan, amount) PROVE Kept
      BY <2>1 DEF AddCollateral
    <2>2. ASSUME NEW m, ExtendLoan(tx, loan, MaxMaturity, m) \/ ExtendLoanLender(tx, loan, m)
          PROVE  Kept
      BY <2>2 DEF ExtendLoan, ExtendLoanLender, MaturityExtended
    <2>3. ASSUME NEW refused, NEW result,
                 SettleLoan(tx, loan, result, refused) \/ LiquidateLoan(tx, loan, result, refused)
          PROVE  Kept
      BY <2>3 DEF SettleLoan, LiquidateLoan
    <2>4. ASSUME NEW refused, PartiallyLiquidateLoan(tx, loan, refused) PROVE Kept
      BY <2>4 DEF PartiallyLiquidateLoan
    <2>5. ASSUME NEW refused, NEW amount, RemoveCollateral(tx, loan, amount, refused)
          PROVE  Kept
      BY <2>5 DEF RemoveCollateral
    <2>6. ASSUME NEW refused, NEW residual, Redeem(tx, loan, residual, refused) PROVE Kept
      BY <2>6 DEF Redeem
    <2>7. ASSUME NEW refused, NEW b, TransferLoan(tx, loan, b, refused) PROVE Kept
      <3>1. PICK x : loans' = Stored(loans, x) \ {loan}
        BY <2>7 DEF TransferLoan
      <3> QED BY <3>1
    <2>8. ASSUME NEW refused, NEW id, NEW principal,
                 ReplaceLoanLender(tx, loan, id, principal, refused)
          PROVE  Kept
      <3>1. PICK x : loans' = Vaulted!Replaced(loan, x)
        BY <2>8 DEF ReplaceLoanLender
      <3> QED BY <3>1 DEF Vaulted!Replaced, Vaulted!Stored, Vaulted!LoanId, Stored, LoanId
    <2>9. ASSUME NEW refused, NEW id, NEW principal, NEW collateral,
                 ReplaceLoan(tx, loan, id, principal, collateral, refused)
          PROVE  Kept
      <3>1. PICK x : loans' = Vaulted!Replaced(loan, x)
        BY <2>9 DEF ReplaceLoan
      <3> QED BY <3>1 DEF Vaulted!Replaced, Vaulted!Stored, Vaulted!LoanId, Stored, LoanId
    <2> HIDE DEF Kept
    <2> QED BY <1>3, <2>1, <2>2, <2>3, <2>4, <2>5, <2>6, <2>7, <2>8, <2>9 DEF LoanStep
  <1>4. ASSUME NEW loan, IssuerReturns(loan) \/ SignRedeemResult(loan) PROVE Kept
    BY <1>4 DEF IssuerReturns, SignRedeemResult, vars
  <1>5. ASSUME NEW b, CreateVaultIfNeeded(b) PROVE Kept
    BY <1>5 DEF CreateVaultIfNeeded, book
  <1>6. ASSUME NEW key, \/ \E tx \in Txs : Buy(tx, key)
                        \/ \E wallet \in Accounts : WithdrawPendingCollateral(key, wallet)
        PROVE  Kept
    BY <1>6 DEF Buy, WithdrawPendingCollateral, book
  <1>7. ASSUME UNCHANGED secVars PROVE Kept
    <2>1. loans' \subseteq loans
      BY <1>7 DEF secVars, vars
    <2> QED BY <2>1, Zenon
  <1> HIDE DEF Kept
  <1>8. ASSUME Next PROVE Kept
    <2>1. ASSUME NEW tx \in Txs, NEW id \in OfferIds, NEW principal \in Principals,
                 NEW collateral \in CollateralAmounts,
                 CreateLoan(tx, id, principal, collateral)
          PROVE  Kept
      BY <1>2, <2>1
    <2>2. ASSUME NEW tx \in Txs, NEW loan \in loans, LoanStep(tx, loan) PROVE Kept
      BY <1>3, <2>2
    <2>3. ASSUME NEW loan \in loans, IssuerReturns(loan) \/ SignRedeemResult(loan)
          PROVE  Kept
      BY <1>4, <2>3
    <2> QED BY <1>1, <1>5, <1>6, <1>8, <2>1, <2>2, <2>3 DEF Next
  <1>9. CASE loans' \subseteq loans
    BY <1>9 DEF OneLoanPerId
  <1>10. ASSUME NEW x, loans' \subseteq Stored(loans, x) PROVE OneLoanPerId'
    BY <1>10, IdsKept
  <1> QED BY <1>7, <1>8, <1>9, <1>10 DEF Kept

-----------------------------------------------------------------------------
\* The collateral of a loan is in its own vault: all of it, or what its
\* borrower kept out of the redemption and what came back of it.
THEOREM CollateralIsInItsVault ==
  ASSUME NoVaultRefused
  PROVE  Spec => []CollateralInItsVault
  <1>1. CustodyInv => CollateralInItsVault
    BY DEF CustodyInv, VaultsInCustody, Custody, CollateralInItsVault
  <1>2. CustodyInv /\ [Next]_secVars => CustodyInv'
    BY CustodyNext
  <1> QED BY <1>1, <1>2, InitCustody, PTL DEF Spec

\* A signed result stays true until it is used: each result that concludes a
\* loan's redemption says exactly what its vault holds.
THEOREM ResultsRemainTrue ==
  ASSUME NoVaultRefused
  PROVE  Spec => []ResultsStayTrue
  <1>1. ASSUME CustodyInv, NEW l \in loans, Redeemed(l), NEW r \in Concluding(l)
        PROVE  /\ proceeds[VaultOf(l)] = InVaultPayment(l, r)
               /\ Unclaimed(vaults[VaultOf(l)]) = InVaultCollateral(l, r)
    <2>1. r \in results /\ r.vault = VaultOf(l)
      BY DEF Concluding
    <2>2. Custody(l, vaults[VaultOf(l)], proceeds[VaultOf(l)], results)
      BY <1>1 DEF CustodyInv, VaultsInCustody
    <2> QED BY <1>1, <2>1, <2>2 DEF Custody, InVaultPayment, InVaultCollateral
  <1>2. CustodyInv => ResultsStayTrue
    BY <1>1 DEF ResultsStayTrue
  <1>3. CustodyInv /\ [Next]_secVars => CustodyInv'
    BY CustodyNext
  <1> QED BY <1>2, <1>3, InitCustody, PTL DEF Spec

\* A loan can be closed unless it waits for the result of a redemption: anyone
\* can liquidate it once it has matured, while the oracle answers, and its
\* borrower can repay it before.  Nothing that settle_loan and liquidate_loan
\* ask of the vault, what it holds, what it owes, what a result says, fails.
THEOREM RedeemableLoansStayClosable ==
  ASSUME NoVaultRefused
  PROVE  Spec => []LoansCanBeClosed
  <1>1. ASSUME CustodyInv, NEW loan \in loans, NEW result \in ResultsFor(loan)
        PROVE  /\ Matured(loan) /\ OracleAnswers /\ config.liquidation_addr = LiquidationFacet
                     => LiquidationPossible(loan, result)
               /\ ~Matured(loan) => SettlementPossible(loan, result)
    <2> DEFINE key == VaultOf(loan)
               all == Unclaimed(vaults[key])
    <2>1. vaults[key].deployed /\ vaults[key] \in IntVault
      BY <1>1, LoanHeld
    <2>2. /\ InVaultPayment(loan, result) = proceeds[key] /\ proceeds[key] \in Int
          /\ InVaultCollateral(loan, result) = all /\ all \in Int
      BY <1>1, PaidOut
    <2> HIDE DEF key, all
    <2>3. /\ all >= all /\ proceeds[key] >= proceeds[key]
          /\ all + vaults[key].total <= vaults[key].balance
      BY <2>1, <2>2 DEF all, Unclaimed, IntVault
    <2>4. BalancesConfirmed(loan, result)
      BY <2>2, <2>3 DEF BalancesConfirmed, key, all
    <2>5. WithdrawAllowed(vaults[key], InVaultCollateral(loan, result))
      BY <2>1, <2>2, <2>3 DEF WithdrawAllowed, all
    <2>6. Matured(loan) =>
              LiquidationAllowed(loan, InVaultPayment(loan, result),
                                 InVaultCollateral(loan, result))
      BY DEF LiquidationAllowed
    <2> QED BY <2>1, <2>4, <2>5, <2>6 DEF LiquidationPossible, SettlementPossible, key
  <1>2. CustodyInv => LoansCanBeClosed
    BY <1>1 DEF LoansCanBeClosed
  <1>3. CustodyInv /\ [Next]_secVars => CustodyInv'
    BY CustodyNext
  <1> QED BY <1>2, <1>3, InitCustody, PTL DEF Spec

\* Nothing is left where nobody can get it: a vault that no loan uses holds
\* only the collateral it owes to wallets and no payment tokens, however the
\* loan that used it ended; if no transfer takes the place of another loan.
THEOREM NoVaultKeepsAnything ==
  ASSUME NoVaultRefused
  PROVE  Spec /\ [][TransferIdFree]_secVars => []NothingLeftBehind
  <1> DEFINE CleanInv == CustodyInv /\ OneLoanPerId /\ Vacated
  <1>1. Init => CleanInv
    <2> SUFFICES ASSUME Init PROVE CleanInv
      OBVIOUS
    <2>1. CustodyInv
      BY InitCustody
    <2>2. loans = {} /\ vault_count = [b \in Borrowers |-> 0]
      BY DEF Init
    <2>3. Vacated
      <3> SUFFICES ASSUME NEW key \in VaultKeys PROVE Vacant(vaults[key], proceeds[key])
        BY DEF Vacated
      <3>1. key[1] \in Borrowers /\ key[2] \in Nat
        BY SecuritizeAssumption DEF VaultKeys, VaultIds
      <3>2. key[2] >= vault_count[key[1]]
        BY <2>2, <3>1
      <3> QED BY <2>1, <3>2 DEF CustodyInv, VaultsInCustody, Unused
    <2> QED BY <2>1, <2>2, <2>3 DEF OneLoanPerId
  <1>2. CleanInv /\ [Next]_secVars /\ [TransferIdFree]_secVars => CleanInv'
    <2> SUFFICES ASSUME CleanInv, [Next]_secVars, [TransferIdFree]_secVars PROVE CleanInv'
      OBVIOUS
    <2>1. CustodyInv' /\ (TransferIdFree => Clears)
      BY CustodyNext
    <2>2. OneLoanPerId'
      BY IdsNext
    <2>3. CASE TransferIdFree
      BY <2>1, <2>2, <2>3 DEF Clears
    <2>4. CASE UNCHANGED secVars
      BY <2>1, <2>2, <2>4 DEF secVars, vars, redemptions, Vacated, InUse
    <2> QED BY <2>3, <2>4
  <1>3. CleanInv => NothingLeftBehind
    BY DEF Vacated, InUse, Vacant, NothingLeftBehind
  <1> HIDE DEF CleanInv
  <1> QED BY <1>1, <1>2, <1>3, PTL DEF Spec
=============================================================================
