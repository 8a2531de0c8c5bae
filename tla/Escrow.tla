------------------------------- MODULE Escrow -------------------------------
(***************************************************************************)
(* What a collateral vault promises, with no mention of how a failed       *)
(* transfer is kept.  Tokens are in one of three places: with a wallet     *)
(* (held), locked at the disposal of the lending contract, or owed to a    *)
(* wallet (claims).  The contract can release locked tokens only; what is  *)
(* owed to a wallet leaves only at that wallet's own request, or back into *)
(* the lock when the contract takes a deposit from it.                     *)
(***************************************************************************)
EXTENDS Integers

CONSTANTS Wallets,   \* the wallets that deal with the vault
          Supply     \* the tokens there are

VARIABLES held, locked, claims

vars == <<held, locked, claims>>

Amounts == 0..Supply

Init ==
    /\ held \in [Wallets -> Amounts]
    /\ locked = 0
    /\ claims = [w \in Wallets |-> 0]

Lock(w, amount) ==
    /\ \E reused \in 0..amount :
          /\ reused <= claims[w]
          /\ amount - reused <= held[w]
          /\ reused < amount => reused = claims[w]
          /\ claims' = [claims EXCEPT ![w] = @ - reused]
          /\ held' = [held EXCEPT ![w] = @ - (amount - reused)]
    /\ locked' = locked + amount

Release(w, amount) ==
    /\ amount <= locked
    /\ locked' = locked - amount
    /\ \/ /\ held' = [held EXCEPT ![w] = @ + amount]
          /\ UNCHANGED claims
       \/ /\ claims' = [claims EXCEPT ![w] = @ + amount]
          /\ UNCHANGED held

Claim(w, amount) ==
    /\ amount <= claims[w]
    /\ claims' = [claims EXCEPT ![w] = @ - amount]
    /\ held' = [held EXCEPT ![w] = @ + amount]
    /\ UNCHANGED locked

\* Anyone may send the vault tokens; they add to what the contract can release.
TopUp(w, amount) ==
    /\ amount <= held[w]
    /\ held' = [held EXCEPT ![w] = @ - amount]
    /\ locked' = locked + amount
    /\ UNCHANGED claims

Next == \E w \in Wallets, amount \in Amounts :
    Lock(w, amount) \/ Release(w, amount) \/ Claim(w, amount) \/ TopUp(w, amount)

Spec == Init /\ [][Next]_vars
=============================================================================
