------------------------ MODULE VaultComponentProofs ------------------------
(***************************************************************************)
(* What a vault guarantees for every set of wallets and callers and every  *)
(* supply: its storage stays well typed, the tokens it owes are there, and *)
(* it is an escrow.                                                        *)
(*                                                                         *)
(* The inductive invariant is SolventVault: the checked subtractions keep  *)
(* the counters natural, and `total <= balance`, which withdraw asserts    *)
(* before it takes anything, is what every other operation preserves.      *)
(***************************************************************************)
EXTENDS VaultComponent, P2PLendingVaultProofs

Solvent == vault.total <= vault.balance

SolventVault == TypeOK /\ Solvent

-----------------------------------------------------------------------------
(* The inductive invariant.                                                *)

\* An amount of tokens is a natural number.
LEMMA AmountsNat == Amounts \subseteq Nat
  BY SupplyAssumption DEF Amounts

LEMMA SolventInit == Init => SolventVault
  <1> SUFFICES ASSUME Init PROVE SolventVault
    OBVIOUS
  <1>1. held \in [Wallets -> Nat]
    BY AmountsNat DEF Init
  <1>2. vault \in VaultRecord /\ vault.total <= vault.balance
    BY EmptyVaultSafe DEF Init
  <1> QED BY <1>1, <1>2 DEF Init, SolventVault, TypeOK, Solvent

LEMMA SolventNext == SolventVault /\ [Next]_vars => SolventVault'
  <1> SUFFICES ASSUME SolventVault, [Next]_vars
               PROVE  SolventVault'
    OBVIOUS
  <1> USE AmountsNat DEF SolventVault, TypeOK, Solvent
  <1>1. ASSUME NEW s \in Callers, Initialise(s)
        PROVE  SolventVault'
    BY <1>1 DEF Initialise
  <1>2. ASSUME NEW s \in Callers, NEW amount \in Amounts, NEW w \in Wallets,
               Deposit(s, amount, w)
        PROVE  SolventVault'
    <2>1. /\ Deposited(vault, amount, w) \in VaultRecord
          /\ Deposited(vault, amount, w).total <= Deposited(vault, amount, w).balance
      BY <1>2, DepositSafe DEF Deposit
    <2>2. held' \in [Wallets -> Nat]
      <3>1. /\ FromWallet(vault, amount, w) \in Nat
            /\ FromWallet(vault, amount, w) <= held[w]
            /\ held' = [held EXCEPT ![w] = @ - FromWallet(vault, amount, w)]
        BY <1>2, DepositSplit DEF Deposit
      <3> QED BY <3>1
    <2> QED BY <1>2, <2>1, <2>2 DEF Deposit
  <1>3. ASSUME NEW s \in Callers, NEW amount \in Amounts, NEW w \in Wallets,
               Withdraw(s, amount, w)
        PROVE  SolventVault'
    <2>1. PICK refused \in BOOLEAN :
             /\ vault' = Withdrawn(vault, amount, w, refused)
             /\ held' = IF refused THEN held ELSE [held EXCEPT ![w] = @ + amount]
      BY <1>3 DEF Withdraw
    <2>2. /\ Withdrawn(vault, amount, w, refused) \in VaultRecord
          /\ Withdrawn(vault, amount, w, refused).total
               <= Withdrawn(vault, amount, w, refused).balance
      BY <1>3, WithdrawSafe DEF Withdraw
    <2> QED BY <1>3, <2>1, <2>2 DEF Withdraw
  <1>4. ASSUME NEW amount \in Amounts, NEW w \in Wallets, WithdrawPending(amount, w)
        PROVE  SolventVault'
    <2>1. /\ PendingWithdrawn(vault, amount, w) \in VaultRecord
          /\ PendingWithdrawn(vault, amount, w).total
               <= PendingWithdrawn(vault, amount, w).balance
      BY <1>4, WithdrawPendingSafe DEF WithdrawPending
    <2> QED BY <1>4, <2>1 DEF WithdrawPending
  <1>5. ASSUME NEW amount \in Amounts, NEW w \in Wallets, TokenTransferIn(amount, w)
        PROVE  SolventVault'
    BY <1>5 DEF TokenTransferIn, VaultRecord
  <1>6. CASE UNCHANGED vars
    BY <1>6 DEF vars
  <1> QED BY <1>1, <1>2, <1>3, <1>4, <1>5, <1>6 DEF Next

(* A vault's storage is always well typed: no call takes a counter below   *)
(* zero, and what it owes is covered by what it holds.                     *)
THEOREM VaultTypeCorrect == Spec => []TypeOK
  BY SolventInit, SolventNext, PTL DEF Spec, SolventVault

(* The pending transfers of a vault are covered by its balance and add up  *)
(* to their total, through every order of deposits, failed withdrawals and *)
(* claims: every wallet can be paid what it is owed.                       *)
THEOREM VaultCoversPending == Spec => []PendingCovered
  <1>1. Init => Summed(vault)
    BY EmptyVaultSummed DEF Init
  <1>2. SolventVault /\ Summed(vault) /\ [Next]_vars => Summed(vault)'
    <2> SUFFICES ASSUME SolventVault, Summed(vault), [Next]_vars
                 PROVE  Summed(vault)'
      OBVIOUS
    <2> USE AmountsNat DEF SolventVault, TypeOK
    <2>1. ASSUME NEW s \in Callers, NEW amount \in Amounts, NEW w \in Wallets,
                 Deposit(s, amount, w)
          PROVE  Summed(vault')
      BY <2>1, DepositSummed DEF Deposit
    <2>2. ASSUME NEW s \in Callers, NEW amount \in Amounts, NEW w \in Wallets,
                 Withdraw(s, amount, w)
          PROVE  Summed(vault')
      BY <2>2, WithdrawSummed DEF Withdraw
    <2>3. ASSUME NEW amount \in Amounts, NEW w \in Wallets, WithdrawPending(amount, w)
          PROVE  Summed(vault')
      BY <2>3, WithdrawPendingSummed DEF WithdrawPending
    <2>4. ASSUME NEW amount \in Amounts, NEW w \in Wallets, TokenTransferIn(amount, w)
          PROVE  Summed(vault')
      BY <2>4 DEF TokenTransferIn, VaultRecord, Summed
    <2>5. ASSUME vault' = vault PROVE Summed(vault')
      BY <2>5
    <2>6. Summed(vault')
      BY <2>1, <2>2, <2>3, <2>4, <2>5 DEF Next, Initialise, vars
    <2> QED BY <2>6 DEF Summed
  <1>3. SolventVault /\ Summed(vault) => PendingCovered
    BY DEF SolventVault, Solvent, Summed, PendingCovered
  <1> QED BY <1>1, <1>2, <1>3, SolventInit, SolventNext, PTL DEF Spec

-----------------------------------------------------------------------------
(* The refinement: every call of the vault is a step of the escrow.        *)

LEMMA EscrowInit == Init => E!Init
  <1>1. Unclaimed(EmptyVault(TRUE)) = 0
    BY EmptyVaultSafe
  <1> QED BY <1>1 DEF Init, E!Init, Amounts, E!Amounts, EmptyVault

LEMMA EscrowNext == SolventVault /\ [Next]_vars => [E!Next]_E!vars
  <1> SUFFICES ASSUME SolventVault, [Next]_vars
               PROVE  [E!Next]_E!vars
    OBVIOUS
  <1> USE AmountsNat DEF SolventVault, TypeOK, Solvent
  <1>1. ASSUME NEW s \in Callers, Initialise(s)
        PROVE  UNCHANGED E!vars
    BY <1>1 DEF Initialise, E!vars
  <1>2. ASSUME NEW s \in Callers, NEW amount \in Amounts, NEW w \in Wallets,
               Deposit(s, amount, w)
        PROVE  E!Lock(w, amount)
    <2> DEFINE reused == FromPending(vault, amount, w)
               pulled == FromWallet(vault, amount, w)
    <2>1. /\ reused \in Nat /\ pulled \in Nat /\ amount \in Nat
          /\ reused + pulled = amount
          /\ reused <= vault.pending[w]
          /\ pulled > 0 => reused = vault.pending[w]
      BY DepositSplit
    <2>2. /\ Unclaimed(vault)' = Unclaimed(vault) + amount
          /\ vault.pending' = [vault.pending EXCEPT ![w] = @ - reused]
      BY <1>2, DepositSafe DEF Deposit, Unclaimed
    <2>3. pulled <= held[w] /\ held' = [held EXCEPT ![w] = @ - pulled]
      BY <1>2 DEF Deposit
    <2>4. pulled = amount - reused /\ reused \in 0..amount
      BY <2>1
    <2> HIDE DEF reused, pulled
    <2>5. amount - reused <= held[w] /\ (reused < amount => reused = vault.pending[w])
      BY <2>1, <2>3, <2>4
    <2>6. /\ Unclaimed(vault)' = Unclaimed(vault) + amount
          /\ held' = [held EXCEPT ![w] = @ - (amount - reused)]
      BY <2>2, <2>3, <2>4
    <2> QED BY <2>1, <2>2, <2>4, <2>5, <2>6 DEF E!Lock
  <1>3. ASSUME NEW s \in Callers, NEW amount \in Amounts, NEW w \in Wallets,
               Withdraw(s, amount, w)
        PROVE  E!Release(w, amount)
    <2>1. PICK refused \in BOOLEAN :
             /\ vault' = Withdrawn(vault, amount, w, refused)
             /\ held' = IF refused THEN held ELSE [held EXCEPT ![w] = @ + amount]
      BY <1>3 DEF Withdraw
    <2>2. /\ amount <= Unclaimed(vault)
          /\ Unclaimed(vault)' = Unclaimed(vault) - amount
          /\ vault.pending' = IF refused THEN [vault.pending EXCEPT ![w] = @ + amount]
                              ELSE vault.pending
      BY <1>3, <2>1, WithdrawSafe DEF Withdraw, Unclaimed
    <2> QED BY <2>1, <2>2 DEF E!Release
  <1>4. ASSUME NEW amount \in Amounts, NEW w \in Wallets, WithdrawPending(amount, w)
        PROVE  E!Claim(w, amount)
    <2>1. /\ Unclaimed(PendingWithdrawn(vault, amount, w)) = Unclaimed(vault)
          /\ PendingWithdrawn(vault, amount, w).pending
               = [vault.pending EXCEPT ![w] = @ - amount]
      BY <1>4, WithdrawPendingSafe DEF WithdrawPending
    <2>2. vault' = PendingWithdrawn(vault, amount, w)
      BY <1>4 DEF WithdrawPending
    <2>3. Unclaimed(vault)' = Unclaimed(vault)
      BY <2>1, <2>2 DEF Unclaimed
    <2>4. vault.pending' = [vault.pending EXCEPT ![w] = @ - amount]
      BY <2>1, <2>2
    <2> QED BY <1>4, <2>3, <2>4 DEF WithdrawPending, WithdrawPendingAllowed, E!Claim
  <1>5. ASSUME NEW amount \in Amounts, NEW w \in Wallets, TokenTransferIn(amount, w)
        PROVE  E!TopUp(w, amount)
    BY <1>5 DEF TokenTransferIn, VaultRecord, Unclaimed, E!TopUp
  <1>6. CASE UNCHANGED vars
    BY <1>6 DEF vars, E!vars, Unclaimed
  <1> QED BY <1>1, <1>2, <1>3, <1>4, <1>5, <1>6 DEF Next, E!Next, Amounts, E!Amounts

(* The vault implements the escrow: the lending contract can never release *)
(* tokens that are owed to a wallet, and only a wallet claims its own.     *)
THEOREM VaultIsEscrow == Spec => ImplementsEscrow
  <1>1. Init => E!Init
    BY EscrowInit
  <1>2. SolventVault /\ [Next]_vars => [E!Next]_E!vars
    BY EscrowNext
  <1> QED BY <1>1, <1>2, SolventInit, SolventNext, PTL DEF Spec, ImplementsEscrow, E!Spec
=============================================================================
