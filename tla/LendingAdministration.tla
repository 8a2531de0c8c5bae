----------------------- MODULE LendingAdministration -----------------------
(***************************************************************************)
(* The entry points that the vaulted and the Securitize contract have word *)
(* for word: the administration of the parameters, the revocation of       *)
(* offers and the claims of pending transfers.                             *)
(***************************************************************************)
EXTENDS P2PLendingVaultedBase

CONSTANTS
    MaxUpfrontFee,      \* max_protocol_upfront_fee, immutable
    MaxSettlementFee,   \* max_protocol_settlement_fee, immutable
    AdminValues         \* the values the administration may choose from

ASSUME LimitsAssumption == MaxUpfrontFee \in Nat /\ MaxSettlementFee \in 0..BPS

ASSUME AdminAssumption ==
    /\ AdminValues.fees \subseteq Nat
    /\ AdminValues.wallets \cup AdminValues.registrars \cup AdminValues.facets
          \cup AdminValues.agents \subseteq Wallets \cup {NoOne}
    /\ AdminValues.proxies \subseteq Wallets

book == <<loans, commited_liquidity, revoked_offers>>
assets == <<funds, vaults>>

-----------------------------------------------------------------------------
(* Administration.                                                         *)

OwnerSets(sender, field, values) ==
    /\ sender = config.owner
    /\ \E v \in values : config' = [config EXCEPT ![field] = v]
    /\ UNCHANGED <<book, assets, environment, drifted>>

SetPartialLiquidationFee(sender) ==
    OwnerSets(sender, "partial_liquidation_fee", AdminValues.fees \cap 0..BPS)

SetFullLiquidationFee(sender) ==
    OwnerSets(sender, "full_liquidation_fee", AdminValues.fees \cap 0..BPS)

\* Fault: the settlement fee is not limited.
FaultySetProtocolFee(sender) ==
    /\ sender = config.owner
    /\ \E upfront \in AdminValues.fees, settlement \in AdminValues.fees :
          /\ upfront <= MaxUpfrontFee
          /\ config' = [config EXCEPT !.protocol_upfront_fee = upfront,
                                      !.protocol_settlement_fee = settlement]
    /\ UNCHANGED <<book, assets, environment, drifted>>

SetProtocolFee(sender) ==
    /\ sender = config.owner
    /\ \E upfront \in AdminValues.fees, settlement \in AdminValues.fees :
          /\ upfront <= MaxUpfrontFee
          /\ settlement <= MaxSettlementFee
          /\ config' = [config EXCEPT !.protocol_upfront_fee = upfront,
                                      !.protocol_settlement_fee = settlement]
    /\ UNCHANGED <<book, assets, environment, drifted>>

ChangeProtocolWallet(sender) ==
    OwnerSets(sender, "protocol_wallet", AdminValues.wallets \ {NoOne})

ChangeVaultRegistrar(sender) == OwnerSets(sender, "vault_registrar", AdminValues.registrars)

SetRefinanceAddr(sender) == OwnerSets(sender, "refinance_addr", AdminValues.facets \ {NoOne})

SetLiquidationAddr(sender) ==
    OwnerSets(sender, "liquidation_addr", AdminValues.facets \ {NoOne})

SetProxyAuthorization(sender) ==
    /\ sender = config.owner
    /\ \E proxy \in AdminValues.proxies, value \in BOOLEAN :
          config' = [config EXCEPT !.authorized_proxies =
                        IF value THEN @ \cup {proxy} ELSE @ \ {proxy}]
    /\ UNCHANGED <<book, assets, environment, drifted>>

ProposeOwner(sender) == OwnerSets(sender, "proposed_owner", AdminValues.wallets \ {NoOne})

ClaimOwnership(sender) ==
    /\ sender = config.proposed_owner
    /\ config' = [config EXCEPT !.owner = sender, !.proposed_owner = NoOne]
    /\ UNCHANGED <<book, assets, environment, drifted>>

SetTransferAgent(sender) ==
    /\ sender \in {config.owner, config.transfer_agent}
    /\ \E agent \in AdminValues.agents : config' = [config EXCEPT !.transfer_agent = agent]
    /\ UNCHANGED <<book, assets, environment, drifted>>

Administration(sender) ==
    \/ SetPartialLiquidationFee(sender)
    \/ SetFullLiquidationFee(sender)
    \/ SetProtocolFee(sender)
    \/ ChangeProtocolWallet(sender)
    \/ ChangeVaultRegistrar(sender)
    \/ SetRefinanceAddr(sender)
    \/ SetLiquidationAddr(sender)
    \/ SetProxyAuthorization(sender)
    \/ ProposeOwner(sender)
    \/ ClaimOwnership(sender)
    \/ SetTransferAgent(sender)

-----------------------------------------------------------------------------
(* Offers and pending transfers.                                           *)

RevokeOffer(tx, id) ==
    /\ CheckUser(tx, Offer[id].lender)
    /\ Offer[id].expiration > now
    /\ id \notin revoked_offers
    /\ revoked_offers' = revoked_offers \cup {id}
    /\ UNCHANGED <<config, loans, commited_liquidity, assets, environment, drifted>>

\* Fault: the pending transfer is paid and kept.
FaultyClaimPendingTransfers(wallet) ==
    /\ funds.pending[wallet] \in 1..funds.cash
    /\ funds' = [funds EXCEPT !.cash = @ - funds.pending[wallet]]
    /\ UNCHANGED <<config, book, vaults, environment, drifted>>

ClaimPendingTransfers(wallet) ==
    LET amount == funds.pending[wallet]
    IN  /\ amount > 0
        /\ amount <= funds.cash
        /\ funds' = [funds EXCEPT !.cash = @ - amount, !.pending[wallet] = 0]
        /\ UNCHANGED <<config, book, vaults, environment, drifted>>
=============================================================================
