-------------------------- MODULE ContractConfigs --------------------------
(***************************************************************************)
(* The classes of scripts/_helpers/contracts.py: what a contract has to be *)
(* deployed after, which contracts its constructor takes, and which        *)
(* transactions configure it afterwards.  Properties that name a contract  *)
(* end in "_key"; the others (fees, wallets, names) are left out.          *)
(***************************************************************************)
EXTENDS Naturals, Sequences, FiniteSets, TLC

CONSTANT None   \* a property that is not given, a contract without an address

\* A class whose constructor takes the contracts it is deployed after.
DeployedAfter(names) ==
    [deployable |-> TRUE, deployment_deps |-> names, deployment_args |-> names,
     deploy_or_config_deps |-> {}, config_deps |-> {}]

External == [DeployedAfter({}) EXCEPT !.deployable = FALSE]

Market == {"payment_token_key", "collateral_token_key", "oracle_key", "kyc_validator_key"}
Facets == {"refinance_impl_key", "liquidation_impl_key"}

SetFacetsAndRegistrar ==
    {<<"refinance_impl_key", "set_refinance_impl">>,
     <<"liquidation_impl_key", "set_liquidation_impl">>,
     <<"vault_registrar_connector_key", "set_vault_registrar_connector">>}

\* The values under "configs" are named by properties as contracts are.
ConfigValue == External

ERC20External == External

P2PLendingV0Erc20 == DeployedAfter(Market \cup {"refinance_impl_key"})
P2PLendingV0Securitize == DeployedAfter(Market \cup {"refinance_impl_key"})
P2PLendingErc20 == DeployedAfter(Market \cup Facets)
P2PLendingSecuritize == DeployedAfter(Market \cup Facets)

\* The facets are dependencies only until they are deployed; the connector,
\* which the constructor takes as well, never is one.
P2PLendingVaultedErc20 ==
    [deployable |-> TRUE,
     deployment_deps |-> Market \cup {"vault_impl_key"},
     deployment_args |->
        Market \cup Facets \cup {"vault_impl_key", "vault_registrar_connector_key"},
     deploy_or_config_deps |-> Facets,
     config_deps |-> SetFacetsAndRegistrar]

\* Here the facets are never dependencies.
P2PLendingSecuritizeErc20 ==
    [deployable |-> TRUE,
     deployment_deps |-> Market \cup {"vault_impl_key"},
     deployment_args |->
        Market \cup Facets \cup {"vault_impl_key", "vault_registrar_connector_key"},
     deploy_or_config_deps |-> {},
     config_deps |-> SetFacetsAndRegistrar]

VaultedImplementation == DeployedAfter({})
SecuritizeImplementation == DeployedAfter({})
VaultSecuritizeImpl == DeployedAfter({})
Oracle == DeployedAfter({})
Balancer == DeployedAfter({})
KYCValidator == DeployedAfter({})
CentrifugeOracleAdapter == DeployedAfter({"spoke_key", "asset_key"})
XPrismOracleAdapter == DeployedAfter({"xprism_key", "usdc_usd_feed_key"})
DSToken == DeployedAfter({"oracle_key", "stablecoin_key"})
VaultRegistrarV2Mock == DeployedAfter({"token_key"})
SecuritizeRegistrarV2Connector == DeployedAfter({"vault_registrar_key"})

SecuritizeLoop ==
    [DeployedAfter({"p2p_contract_key", "balancer_key"}) EXCEPT
        !.config_deps = {<<"key", "set_proxy_auth">>}]

ClassNames ==
    {"ConfigValue", "ERC20External", "P2PLendingV0Erc20", "P2PLendingV0Securitize",
     "P2PLendingErc20", "P2PLendingSecuritize", "P2PLendingVaultedErc20",
     "P2PLendingSecuritizeErc20", "LiquidationVaultedImpl", "RefinanceV0Impl",
     "RefinanceVaultedImpl", "VaultImpl", "LiquidationSecuritizeImpl",
     "RefinanceSecuritizeImpl", "VaultSecuritizeImpl", "Oracle", "Balancer", "KYCValidator",
     "CentrifugeOracleAdapter", "XPrismOracleAdapter", "DSToken", "VaultRegistrarV2Mock",
     "SecuritizeRegistrarV2Connector", "SecuritizeLoop"}

Class(name) ==
    CASE name = "ConfigValue" -> ConfigValue
      [] name = "ERC20External" -> ERC20External
      [] name = "P2PLendingV0Erc20" -> P2PLendingV0Erc20
      [] name = "P2PLendingV0Securitize" -> P2PLendingV0Securitize
      [] name = "P2PLendingErc20" -> P2PLendingErc20
      [] name = "P2PLendingSecuritize" -> P2PLendingSecuritize
      [] name = "P2PLendingVaultedErc20" -> P2PLendingVaultedErc20
      [] name = "P2PLendingSecuritizeErc20" -> P2PLendingSecuritizeErc20
      [] name \in {"LiquidationVaultedImpl", "RefinanceV0Impl", "RefinanceVaultedImpl",
                   "VaultImpl"} -> VaultedImplementation
      [] name \in {"LiquidationSecuritizeImpl", "RefinanceSecuritizeImpl"} ->
            SecuritizeImplementation
      [] name = "VaultSecuritizeImpl" -> VaultSecuritizeImpl
      [] name = "Oracle" -> Oracle
      [] name = "Balancer" -> Balancer
      [] name = "KYCValidator" -> KYCValidator
      [] name = "CentrifugeOracleAdapter" -> CentrifugeOracleAdapter
      [] name = "XPrismOracleAdapter" -> XPrismOracleAdapter
      [] name = "DSToken" -> DSToken
      [] name = "VaultRegistrarV2Mock" -> VaultRegistrarV2Mock
      [] name = "SecuritizeRegistrarV2Connector" -> SecuritizeRegistrarV2Connector
      [] name = "SecuritizeLoop" -> SecuritizeLoop
=============================================================================
