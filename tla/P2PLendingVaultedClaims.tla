----------------------- MODULE P2PLendingVaultedClaims -----------------------
(***************************************************************************)
(* What the README and the asserts of the source say of the protocol and   *)
(* the code does not keep.  Each is checked by a run of its own, in which  *)
(* TLC finds the shortest sequence of calls that refutes it.               *)
(***************************************************************************)
EXTENDS P2PLendingVaultedErc20

(* A loan never takes another one's place: create_loan, replace_loan and   *)
(* replace_loan_lender all assert "loan already exists" before they store  *)
(* a loan under a new id, so a step closes at most the loan it is about.   *)
(* transfer_loan stores under a new id without the assert.                 *)
NoLoanOverwritten == [][Cardinality(loans \ loans') <= 1]_vars

(* README, Loan Borrower Transfer: "When a loan is transferred, the        *)
(* collateral is also moved from the old borrower's P2PLendingVault to the *)
(* new borrower's".  A withdrawal that fails is kept pending in the old    *)
(* vault, for the new vault, which cannot claim it.                        *)
TransferMovesCollateral ==
    [][\A old \in loans \ loans', new \in loans' \ loans :
          old.borrower # new.borrower =>
              Unclaimed(vaults[new.borrower])' >= new.collateral_amount]_vars

(* README, Offers: available_liquidity is "the maximum total principal     *)
(* that can be lent through" an offer, and it and commited_liquidity       *)
(* "strictly track the principal".  liquidate_loan gives back the debt     *)
(* with its interest.                                                      *)
LentWithinOffer ==
    \A o \in OfferIds :
        SumFunction([l \in {m \in loans : m.offer_id = o} |-> l.amount])
            <= Offer[o].available_liquidity

(* README, Loan Replacement by Lender: "the borrower's repayment           *)
(* obligations (principal, interest, call eligibility, LTV thresholds)     *)
(* under the new conditions are not worse".  A loan that could not be      *)
(* liquidated for its ltv can be once its lender sold it.                  *)
SaleKeepsLtvTerms ==
    [][\A tx \in Txs, old \in loans, id \in OfferIds, principal \in Principals \cup {0} :
          ReplaceLoanLender(tx, old, id, principal, {}) =>
              \A new \in loans' \ loans :
                  new.liquidation_ltv > 0 =>
                      /\ old.liquidation_ltv > 0
                      /\ new.liquidation_ltv >= old.liquidation_ltv]_vars
=============================================================================
