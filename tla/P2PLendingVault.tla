--------------------------- MODULE P2PLendingVault ---------------------------
(***************************************************************************)
(* The storage of one P2PLendingVault and what its external functions do   *)
(* to it, as operators on a record, so that the component specification    *)
(* (VaultComponent) and the lending contracts, which own one vault per     *)
(* borrower, use the same definitions.                                     *)
(*                                                                         *)
(*   balance   token.balanceOf(vault), kept by the token                   *)
(*   pending   pending_transfers: what a failed transfer left to a wallet  *)
(*   total     pending_transfers_total                                     *)
(*                                                                         *)
(* A reverting call is a call that is not allowed: each operation has an   *)
(* Allowed operator, the conjunction of its asserts and of the checked     *)
(* subtractions, and an operator for the storage it leaves.                *)
(*                                                                         *)
(* In this and the other modules a Faulty operator is the definition after *)
(* it with a bug in it.  No specification uses one: put in that            *)
(* definition's place, it shows which property notices the bug.            *)
(***************************************************************************)
EXTENDS Integers, FiniteSetsExt

CONSTANT Wallets    \* the addresses a vault may hold pending tokens for

\* There are 2^160 addresses: sums over the wallets are sums.
ASSUME WalletsAssumption == IsFiniteSet(Wallets)

VaultRecord == [deployed: BOOLEAN, balance: Nat, pending: [Wallets -> Nat], total: Nat]

\* Before CREATE2 has run, or just after: an empty account.
EmptyVault(deployed) ==
    [deployed |-> deployed, balance |-> 0, pending |-> [w \in Wallets |-> 0], total |-> 0]

-----------------------------------------------------------------------------
(* deposit: the wallet's own pending tokens are used first, and only the   *)
(* rest is pulled from the wallet.                                         *)

FromPending(v, amount, wallet) ==
    IF v.pending[wallet] >= amount THEN amount ELSE v.pending[wallet]

FromWallet(v, amount, wallet) == amount - FromPending(v, amount, wallet)

DepositAllowed(v, amount, wallet) ==
    /\ v.deployed
    /\ FromPending(v, amount, wallet) <= v.total

\* Fault: the pending tokens that are used again stay in the total.
FaultyDeposited(v, amount, wallet) ==
    [v EXCEPT !.balance = @ + FromWallet(v, amount, wallet),
              !.pending[wallet] = @ - FromPending(v, amount, wallet)]

Deposited(v, amount, wallet) ==
    [v EXCEPT !.balance = @ + FromWallet(v, amount, wallet),
              !.pending[wallet] = @ - FromPending(v, amount, wallet),
              !.total = @ - FromPending(v, amount, wallet)]

-----------------------------------------------------------------------------
(* withdraw: never touches what is pending; a transfer the recipient's     *)
(* side refuses becomes pending.                                           *)

\* Fault: what is owed to wallets can be withdrawn.
FaultyWithdrawAllowed(v, amount) == v.deployed /\ amount <= v.balance

WithdrawAllowed(v, amount) ==
    /\ v.deployed
    /\ amount + v.total <= v.balance

\* Fault: a refused transfer is not added to the total.
FaultyWithdrawn(v, amount, wallet, refused) ==
    IF refused
    THEN [v EXCEPT !.pending[wallet] = @ + amount]
    ELSE [v EXCEPT !.balance = @ - amount]

Withdrawn(v, amount, wallet, refused) ==
    IF refused
    THEN [v EXCEPT !.pending[wallet] = @ + amount, !.total = @ + amount]
    ELSE [v EXCEPT !.balance = @ - amount]

-----------------------------------------------------------------------------
(* withdraw_pending: called by the wallet itself; reverts when the token   *)
(* refuses, so only the successful call changes anything.                  *)

\* Fault: only the total is compared.
FaultyWithdrawPendingAllowed(v, amount, wallet) ==
    v.deployed /\ amount <= v.total /\ amount <= v.balance

WithdrawPendingAllowed(v, amount, wallet) ==
    /\ v.deployed
    /\ amount <= v.pending[wallet]
    /\ amount <= v.total
    /\ amount <= v.balance

PendingWithdrawn(v, amount, wallet) ==
    [v EXCEPT !.balance = @ - amount, !.pending[wallet] = @ - amount, !.total = @ - amount]

\* What the lending contract may still ask the vault to release.
Unclaimed(v) == v.balance - v.total
=============================================================================
