------------------------------- MODULE MCRelease -------------------------------
(***************************************************************************)
(* Small configurations, cut from those of the repository's networks:      *)
(* the environment and its explorer, the entries, which of them an earlier *)
(* release deployed, what the operator may ask to deploy again, the        *)
(* scripts run besides deployment, and the classes whose sources change.   *)
(***************************************************************************)
EXTENDS Release

Entry(scope, class, properties) ==
    [scope |-> scope, contract |-> class, properties |-> properties]
NoProperties == [n \in {} |-> None]

Facet(class) == Entry("common", class, NoProperties)

RegistrarConnector == Entry("common", "SecuritizeRegistrarV2Connector", NoProperties)

VaultedEntries ==
    "market" :> Entry("p2p", "P2PLendingVaultedErc20",
                      "refinance_impl_key" :> "refinance" @@ "vault_impl_key" :> "vault"
                      @@ "vault_registrar_connector_key" :> "connector")
    @@ "refinance" :> Facet("RefinanceVaultedImpl")
    @@ "vault" :> Facet("VaultImpl")
    @@ "connector" :> RegistrarConnector

\* A market on a new token and its oracle, which are deployed before it; the
\* connector is there already.
NewMarket ==
    LET e == "market" :> Entry("p2p", "P2PLendingVaultedErc20",
                               "collateral_token_key" :> "token" @@ "oracle_key" :> "oracle"
                               @@ "refinance_impl_key" :> "refinance"
                               @@ "vault_registrar_connector_key" :> "connector")
             @@ "token" :> Entry("common", "DSToken", "oracle_key" :> "oracle")
             @@ "oracle" :> Entry("common", "Oracle", NoProperties)
             @@ "refinance" :> Facet("RefinanceVaultedImpl")
             @@ "connector" :> RegistrarConnector
    IN [env |-> "prod", explorer |-> None, deployed |-> {"connector"},
        requests |-> {{"refinance", "market"}}, scripts |-> {}, edited |-> {}, entries |-> e]

\* The facets and the connector of a live market are replaced.
LiveMarket ==
    [env |-> "dev", explorer |-> None, deployed |-> DOMAIN VaultedEntries,
     requests |-> {{"refinance"}, {"vault"}, {"connector", "market"}},
     scripts |-> {"publish"}, edited |-> {"P2PLendingVaultedErc20"}, entries |-> VaultedEntries]

\* Everything is new, the connector too.
LocalMarket ==
    [env |-> "local", explorer |-> None, deployed |-> {}, requests |-> {},
     scripts |-> {}, edited |-> {}, entries |-> VaultedEntries]

\* A local market that is deployed anew, next to a token that is listed with the
\* contracts; and one on a token of its own file, which can never be deployed.
LocalListedToken ==
    LET e == "market" :> Entry("p2p", "P2PLendingErc20", "refinance_impl_key" :> "refinance")
             @@ "refinance" :> Facet("RefinanceV0Impl")
             @@ "token" :> Entry("common", "ERC20External", NoProperties)
    IN [env |-> "local", explorer |-> None, deployed |-> {"market", "refinance", "token"},
        requests |-> {}, scripts |-> {}, edited |-> {}, entries |-> e]

LocalToken ==
    LET e == "market" :> Entry("p2p", "P2PLendingErc20", "payment_token_key" :> "token"
                               @@ "refinance_impl_key" :> "refinance")
             @@ "refinance" :> Facet("RefinanceV0Impl")
             @@ "token" :> Entry("tokens", "ERC20External", NoProperties)
    IN [env |-> "local", explorer |-> None, deployed |-> {"token"},
        requests |-> {}, scripts |-> {}, edited |-> {}, entries |-> e]

\* A Securitize market with its proxy; the proxy follows when the market is replaced.
Securitize ==
    LET e == "market" :> Entry("p2p", "P2PLendingSecuritizeErc20",
                               "liquidation_impl_key" :> "liquidation"
                               @@ "vault_registrar_connector_key" :> "connector")
             @@ "liquidation" :> Facet("LiquidationSecuritizeImpl")
             @@ "connector" :> RegistrarConnector
             @@ "loop" :> Entry("proxies", "SecuritizeLoop", "p2p_contract_key" :> "market")
    IN [env |-> "dev", explorer |-> None, deployed |-> {"connector", "liquidation"},
        requests |-> {{"market"}, {"liquidation"}}, scripts |-> {"publish"}, edited |-> {},
        entries |-> e]

\* Verification: an oracle on a value that the operator may change, or on a token.
Oracles(kind, spoke, requests) ==
    LET e == "spoke" :> spoke
             @@ "oracle" :> Entry("common", "CentrifugeOracleAdapter", "spoke_key" :> "spoke")
             @@ "kyc" :> Entry("common", "KYCValidator", NoProperties)
    IN [env |-> "int", explorer |-> kind, deployed |-> {"spoke", "kyc"},
        requests |-> requests, scripts |-> {"verify"}, edited |-> {"CentrifugeOracleAdapter"},
        entries |-> e]

\* The classes that only differ in what they are deployed after.
Plain(class) ==
    [env |-> "dev", explorer |-> None, deployed |-> {}, requests |-> {{"refinance"}},
     scripts |-> {}, edited |-> {},
     entries |-> "market" :> Entry("p2p", class, "refinance_impl_key" :> "refinance")
                 @@ "refinance" :> Facet("RefinanceV0Impl")]

Registrar ==
    [env |-> "dev", explorer |-> None, deployed |-> {}, requests |-> {{"registrar"}},
     scripts |-> {}, edited |-> {},
     entries |-> "registrar" :> Entry("common", "VaultRegistrarV2Mock", NoProperties)
                 @@ "connector" :> Entry("common", "SecuritizeRegistrarV2Connector",
                                         "vault_registrar_key" :> "registrar")]

MCCatalogs ==
    {Plain(class) : class \in {"P2PLendingV0Erc20", "P2PLendingV0Securitize",
                                "P2PLendingErc20", "P2PLendingSecuritize"}} \cup
    {Registrar, NewMarket, LiveMarket, LocalMarket, LocalListedToken, LocalToken,
     Securitize,
     Oracles("etherscan", Entry("configs", "ConfigValue", NoProperties), {{"spoke"}}),
     Oracles("blockscout", Entry("tokens", "ERC20External", NoProperties), {})}
=============================================================================
