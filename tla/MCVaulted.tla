----------------------------- MODULE MCVaulted -----------------------------
(***************************************************************************)
(* Small instances of P2PLendingVaultedErc20.  BPS is 10 and a year is one *)
(* tick of the clock, so an apr of 1 is 10% per tick.                      *)
(***************************************************************************)
EXTENDS P2PLendingVaultedClaims, TLC

CONSTANTS b1, b2, l1, l2, keeper, owner, treasury, agent, proxy, v1, v2, other,
          refinance, liquidation

Direct(wallets) == {[sender |-> w, origin |-> w] : w \in wallets}

MCVaultAddress1 == b1 :> v1
MCVaultAddress2 == b1 :> v1 @@ b2 :> v2

MCConfig ==
    [owner |-> owner, proposed_owner |-> NoOne, transfer_agent |-> agent,
     protocol_wallet |-> treasury, protocol_upfront_fee |-> 1,
     protocol_settlement_fee |-> 5, partial_liquidation_fee |-> 1,
     full_liquidation_fee |-> 1, authorized_proxies |-> {}, vault_registrar |-> NoOne,
     refinance_addr |-> refinance, liquidation_addr |-> liquidation]

NoAdminValues ==
    [fees |-> {}, wallets |-> {}, registrars |-> {}, facets |-> {}, proxies |-> {},
     agents |-> {}]

\* A callable offer with partial liquidation, open to any borrower.
OpenOffer ==
    [principal |-> 0, apr |-> 1, duration |-> 3, origination_fee_bps |-> 1,
     min_collateral_amount |-> 0, max_iltv |-> 5, available_liquidity |-> 20,
     call_eligibility |-> 1, call_window |-> 1, liquidation_ltv |-> 7,
     expiration |-> 4, lender |-> l1, borrower |-> NoOne, tracing_id |-> "t1"]

Attested(wallets, expiration) == {[wallet |-> w, expiration |-> expiration] : w \in wallets}

TwoRates == {[num |-> 1, den |-> 1], [num |-> 3, den |-> 4]}
OneRate == {[num |-> 1, den |-> 1]}

\* A rate at which the interest makes a loan liquidatable and a partial
\* liquidation heals it, one at which it does not, and no answer.
LifeRates == {[num |-> 3, den |-> 4], [num |-> 1, den |-> 2], [num |-> 0, den |-> 1]}

(* Lifecycle: one offer, used once; collateral is added and removed, and a *)
(* transfer of it to the borrower may fail.  The offer expires at once: a  *)
(* loan made later is the same loan with less of the clock left.           *)
LifeOffer == "o1" :> [OpenOffer EXCEPT !.borrower = b1, !.expiration = 2, !.max_iltv = 6]
LifeTxs == Direct({b1, l1, keeper})
LifeAttestations == Attested({b1, l1}, 3)
LifeRefusals == {<<"collateral", b1>>}

(* Refinancing: three lenders' offers for one borrower, each used once, that *)
(* differ in term, callability, collateral and fees.                         *)
RefinanceOffer ==
    "o1" :> [OpenOffer EXCEPT !.borrower = b1, !.min_collateral_amount = 22,
                              !.expiration = 2]
 @@ "o2" :> [OpenOffer EXCEPT !.borrower = b1, !.lender = l2, !.tracing_id = "t2",
                              !.duration = 1, !.apr = 2, !.call_window = 2,
                              !.expiration = 3]
 @@ "o3" :> [OpenOffer EXCEPT !.borrower = b1, !.duration = 2,
                              !.call_eligibility = 0, !.call_window = 0,
                              !.origination_fee_bps = 0]
RefinanceTxs == Direct({b1, l1, l2})
RefinanceAttestations == Attested({b1, l1, l2}, 4)

(* Two borrowers with an offer each, and the transfer agent.               *)
TransferOffer ==
    "o1" :> [OpenOffer EXCEPT !.borrower = b1, !.expiration = 2]
 @@ "o2" :> [OpenOffer EXCEPT !.borrower = b2, !.expiration = 3]
TransferTxs == Direct({b1, b2, l1, agent})
TransferAttestations == Attested({b1, b2, l1}, 3)
TransferRefusals == {<<"collateral", b1>>}

(* Administration, and a proxy that acts for its origin once authorised.   *)
AdminOffer == "o1" :> [OpenOffer EXCEPT !.borrower = b1, !.duration = 2]
AdminTxs == Direct({owner, other}) \cup {[sender |-> proxy, origin |-> b1]}
AdminAttestations == Attested({b1, l1}, 3)
AdminRefusals == {<<"payment", treasury>>, <<"payment", l1>>}
SomeAdminValues ==
    [fees |-> {0, 12}, wallets |-> {other}, registrars |-> {NoOne},
     facets |-> {liquidation}, proxies |-> {proxy}, agents |-> {NoOne}]

(* One open offer that both borrowers take; its loans default after a tick. *)
SharedOffer ==
    "o1" :> [OpenOffer EXCEPT !.duration = 1, !.apr = 2, !.max_iltv = 6]
SharedTxs == Direct({b1, b2, agent, keeper})
SharedRefusals == {<<"collateral", v2>>}

(* Open offers of one lender under one tracing id, for two loans at a time:  *)
(* one takes its initial ltv from the minimum collateral, the other is for a *)
(* fixed principal.                                                          *)
OpenOffers ==
    "o1" :> [OpenOffer EXCEPT !.max_iltv = 0, !.min_collateral_amount = 20, !.expiration = 3]
 @@ "o2" :> [OpenOffer EXCEPT !.principal = 12, !.max_iltv = 6, !.duration = 1,
                              !.call_eligibility = 0, !.call_window = 0,
                              !.available_liquidity = 24]
OpenTxs == Direct({b1, b2, l1})

(* A loan without liquidation_ltv, and an offer for it that has one.        *)
SaleOffer ==
    "o1" :> [OpenOffer EXCEPT !.borrower = b1, !.liquidation_ltv = 0]
 @@ "o2" :> [OpenOffer EXCEPT !.borrower = b1, !.lender = l2, !.tracing_id = "t2"]
=============================================================================
