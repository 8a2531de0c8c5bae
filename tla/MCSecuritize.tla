---------------------------- MODULE MCSecuritize ----------------------------
(***************************************************************************)
(* A small instance of P2PLendingSecuritizeErc20.  BPS is 10 and a year is *)
(* one tick of the clock.                                                  *)
(***************************************************************************)
EXTENDS P2PLendingSecuritizeErc20, TLC

CONSTANTS b1, b2, l1, l2, owner, treasury, agent, issuer, refinance, liquidation

MCWallets ==
    {b1, b2, l1, l2, owner, treasury, agent, issuer, refinance, liquidation}
        \cup VaultKeys

Direct(wallets) == {[sender |-> w, origin |-> w] : w \in wallets}

MCConfig ==
    [owner |-> owner, proposed_owner |-> NoOne, transfer_agent |-> agent,
     protocol_wallet |-> treasury, protocol_upfront_fee |-> 1,
     protocol_settlement_fee |-> 5, partial_liquidation_fee |-> 1,
     full_liquidation_fee |-> 1, authorized_proxies |-> {}, vault_registrar |-> NoOne,
     securitize_redemption_wallet |-> NoOne,
     refinance_addr |-> refinance, liquidation_addr |-> liquidation]

NoAdminValues ==
    [fees |-> {}, wallets |-> {}, registrars |-> {}, facets |-> {}, proxies |-> {},
     agents |-> {}]

\* An offer with partial liquidation that both borrowers can take, for one
\* loan at a time, and one of another lender that can replace a loan that was
\* transferred to b2.
MCOffer ==
    LET open == [principal |-> 0, apr |-> 1, duration |-> 1, origination_fee_bps |-> 1,
                 min_collateral_amount |-> 18, max_iltv |-> 5, available_liquidity |-> 10,
                 call_eligibility |-> 0, call_window |-> 0, liquidation_ltv |-> 0,
                 expiration |-> 3, lender |-> l1, borrower |-> NoOne, tracing_id |-> "t1"]
    IN  "o1" :> open
     @@ "o2" :> [open EXCEPT !.lender = l2, !.tracing_id = "t2", !.liquidation_ltv = 7, !.borrower = b2]

MCTxs == Direct({b1, l1, agent, owner})

MCAttestations == {[wallet |-> w, expiration |-> 3] : w \in {b1, b2, l1, l2}}

MCRates == {[num |-> 1, den |-> 1], [num |-> 2, den |-> 3]}

\* More than the debt; less, with collateral that was not sold; nothing, as for
\* a redemption that kept all collateral.
MCReturns ==
    {[payment |-> 18, collateral |-> 0], [payment |-> 3, collateral |-> 10],
     [payment |-> 0, collateral |-> 0]}

MCRefusals == {<<"collateral", issuer>>}
=============================================================================
