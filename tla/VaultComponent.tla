--------------------------- MODULE VaultComponent ---------------------------
(***************************************************************************)
(* One P2PLendingVault as a component: its storage, the token it holds,    *)
(* the lending contract that calls it and the wallets that deal with it.   *)
(* Any address may call any function; `refusing` stands for the tokens     *)
(* whose transfer to a wallet fails (a blacklist, a transfer restriction). *)
(***************************************************************************)
EXTENDS P2PLendingVault

CONSTANTS Callers,   \* the contracts that may call initialise, deposit, withdraw
          NoCaller,  \* the empty address
          Supply     \* the tokens there are: bounds every amount

ASSUME SupplyAssumption == Supply \in Nat
ASSUME CallerAssumption == NoCaller \notin Callers

VARIABLES vault,     \* the vault's storage and token balance
          caller,    \* the vault's `caller`
          held       \* the token's balances of the wallets

vars == <<vault, caller, held>>

Amounts == 0..Supply

TypeOK ==
    /\ vault \in VaultRecord
    /\ caller \in Callers \cup {NoCaller}
    /\ held \in [Wallets -> Nat]

Init ==
    /\ vault = EmptyVault(TRUE)
    /\ caller = NoCaller
    /\ held \in [Wallets -> Amounts]

Initialise(sender) ==
    /\ caller = NoCaller
    /\ caller' = sender
    /\ UNCHANGED <<vault, held>>

Deposit(sender, amount, wallet) ==
    /\ sender = caller
    /\ DepositAllowed(vault, amount, wallet)
    /\ FromWallet(vault, amount, wallet) <= held[wallet]
    /\ vault' = Deposited(vault, amount, wallet)
    /\ held' = [held EXCEPT ![wallet] = @ - FromWallet(vault, amount, wallet)]
    /\ UNCHANGED caller

Withdraw(sender, amount, wallet) ==
    /\ sender = caller
    /\ WithdrawAllowed(vault, amount)
    /\ \E refused \in BOOLEAN :
          /\ vault' = Withdrawn(vault, amount, wallet, refused)
          /\ held' = IF refused THEN held ELSE [held EXCEPT ![wallet] = @ + amount]
    /\ UNCHANGED caller

WithdrawPending(amount, wallet) ==
    /\ WithdrawPendingAllowed(vault, amount, wallet)
    /\ vault' = PendingWithdrawn(vault, amount, wallet)
    /\ held' = [held EXCEPT ![wallet] = @ + amount]
    /\ UNCHANGED caller

\* A plain token transfer to the vault's address.
TokenTransferIn(amount, wallet) ==
    /\ amount <= held[wallet]
    /\ held' = [held EXCEPT ![wallet] = @ - amount]
    /\ vault' = [vault EXCEPT !.balance = @ + amount]
    /\ UNCHANGED caller

Next ==
    \/ \E s \in Callers : Initialise(s)
    \/ \E s \in Callers, amount \in Amounts, w \in Wallets : Deposit(s, amount, w)
    \/ \E s \in Callers, amount \in Amounts, w \in Wallets : Withdraw(s, amount, w)
    \/ \E amount \in Amounts, w \in Wallets : WithdrawPending(amount, w)
    \/ \E amount \in Amounts, w \in Wallets : TokenTransferIn(amount, w)

Spec == Init /\ [][Next]_vars

-----------------------------------------------------------------------------
(* What is owed to the wallets is always there: the total is the sum of    *)
(* the entries, and the tokens cover it (withdraw's assert, and the        *)
(* bookkeeping of deposit and withdraw_pending).                           *)
PendingCovered ==
    /\ vault.total = SumFunction(vault.pending)
    /\ vault.total <= vault.balance

(* The vault implements an escrow: what the contract can release is the    *)
(* balance that is not pending.                                            *)
E == INSTANCE Escrow WITH locked <- Unclaimed(vault), claims <- vault.pending

ImplementsEscrow == E!Spec
=============================================================================
