------------------------------ MODULE Deployment ------------------------------
(***************************************************************************)
(* DeploymentManager.deploy (scripts/_helpers/deployment.py): load the     *)
(* configuration, plan, deploy the contracts one by one, save, run the     *)
(* configuration transactions, save again, and verify what was deployed.   *)
(***************************************************************************)
EXTENDS ReleaseBase

\* In a local environment everything is deployed anew: no contract that was
\* loaded keeps its address, a token that no script deploys included.
LoadedContract(k) ==
    IF catalog.env = "local" /\ entries[k].scope # "configs" THEN None ELSE file[k].address

StartDeployment(request) ==
    /\ phase = "idle"
    /\ request # {} => budget.requests < MaxRequests
    /\ phase' = "planning"
    /\ changed' = request
    /\ contract' = [k \in Keys |-> LoadedContract(k)]
    /\ abi_key' = [k \in Keys |-> file[k].abi_key]
    /\ StartSort(BuildDependencies(entries, contract'))
    /\ UNCHANGED <<world, plan, todo, verification, history>>

Sort ==
    /\ phase = "planning"
    /\ Leave \/ \E k \in Keys : Enter(k)
    /\ UNCHANGED <<world, phase, changed, context, plan, todo, verification, history>>

Plan ==
    /\ phase = "planning" /\ SortDone
    /\ \A k \in Keys : Len(chain[k]) < MaxVersions
    /\ IF changed = {} THEN UNCHANGED budget ELSE Spend("requests")
    /\ LET set == DeploymentSet(entries, contract, changed) IN
       /\ contracts_to_deploy' = DeploymentOrder(set)
       /\ txs' = TransactionSet(entries, set \cup changed)
       /\ todo' = DeploymentOrder({k \in set : Deployable(entries, k)})
    /\ phase' = "deploying"
    /\ StartSort([k \in Keys |-> {}])
    /\ UNCHANGED <<catalog, source, file, chain, explorer, published, changed, context, pending,
                   verification, history>>

\* A dry run is the same up to here, and then only prints the plan.
DryRun ==
    /\ phase = "planning" /\ SortDone
    /\ Forget
    /\ UNCHANGED <<world, history>>

\* A catalog leaves out arguments that are optional or never change.
Arguments(k) == ClassOf(entries, k).deployment_args \cap DOMAIN entries[k].properties
Links(k) == [n \in Arguments(k) |-> contract[entries[k].properties[n]]]
Encodable(k) == \A n \in Arguments(k) : Links(k)[n] # None

Call(k, func, arg, tx) == [key |-> k, func |-> func, arg |-> arg, tx |-> tx]

HasConnector(k) == "vault_registrar_connector_key" \in Arguments(k)
Connector(k) == entries[k].properties["vault_registrar_connector_key"]
RegistrarTx(k) == <<k, "set_vault_registrar_connector">>
ChangeAuthorizedContract(k) == Call(Connector(k), "change_authorized_contract", k, RegistrarTx(k))

\* A lending contract that names a connector has itself authorised.
Construct ==
    /\ phase = "deploying" /\ todo # <<>> /\ pending = <<>>
    /\ LET k == Head(todo) IN
       /\ Encodable(k)
       /\ chain' = [chain EXCEPT ![k] =
             Append(@, [links |-> Links(k), authorized |-> {}, abi |-> Abi(k)])]
       /\ contract' = [contract EXCEPT ![k] = <<k, Len(chain[k]) + 1>>]
       /\ abi_key' = [abi_key EXCEPT ![k] = Abi(k)]
       /\ pending' = IF HasConnector(k) THEN <<ChangeAuthorizedContract(k)>> ELSE <<>>
    /\ todo' = Tail(todo)
    /\ UNCHANGED <<catalog, source, file, explorer, published, budget, phase, changed,
                   contracts_to_deploy, txs, verification, sortVars, history>>

\* store_contracts saves what the context holds; a value under "configs" has no contract.
PropertiesAddresses(k) ==
    [n \in {m \in DOMAIN entries[k].properties :
                 entries[entries[k].properties[m]].scope # "configs"} |->
        contract[entries[k].properties[n]]]

\* A plausible fault, which the properties must reveal: an address is filled in once.
FaultyStoreContracts ==
    file' = [k \in Keys |->
        IF k \notin Stored \/ file[k].address # None THEN file[k]
        ELSE [address |-> contract[k], abi_key |-> abi_key[k],
              properties_addresses |-> PropertiesAddresses(k)]]

StoreContracts ==
    file' = [k \in Keys |->
        IF k \notin Stored THEN file[k]
        ELSE [address |-> contract[k],
              abi_key |-> IF abi_key[k] # None THEN abi_key[k] ELSE file[k].abi_key,
              properties_addresses |-> PropertiesAddresses(k)]]

\* A plausible fault, which the properties must reveal: what was deployed is saved.
FaultyCannotEncode ==
    /\ phase = "deploying" /\ todo # <<>> /\ pending = <<>>
    /\ ~Encodable(Head(todo))
    /\ StoreContracts
    /\ Forget
    /\ interrupted' = TRUE
    /\ UNCHANGED <<catalog, source, chain, explorer, published, budget, unsettled>>

\* An argument has no address yet: the script ends there.
CannotEncode ==
    /\ phase = "deploying" /\ todo # <<>> /\ pending = <<>>
    /\ ~Encodable(Head(todo))
    /\ Forget
    /\ interrupted' = TRUE
    /\ UNCHANGED <<world, unsettled>>

Save ==
    /\ phase = "deploying" /\ todo = <<>> /\ pending = <<>>
    /\ StoreContracts
    /\ phase' = "configuring"
    /\ UNCHANGED <<catalog, source, chain, explorer, published, budget, changed, context,
                   plan, todo, verification, sortVars, history>>

\* The calls a configuration transaction makes; none when the link is in place already.
SetFacet(k, name, func, tx) ==
    IF At(contract[k]).links[name] = contract[entries[k].properties[name]] THEN <<>>
    ELSE <<Call(k, func, entries[k].properties[name], tx)>>

SetVaultRegistrarConnector(k) ==
    IF At(contract[k]).links["vault_registrar_connector_key"] = contract[Connector(k)] THEN <<>>
    ELSE <<Call(k, "change_vault_registrar", Connector(k), RegistrarTx(k)),
           ChangeAuthorizedContract(k)>>

SetProxyAuth(k, tx) ==
    <<Call(entries[k].properties["p2p_contract_key"], "set_proxy_authorization", k, tx)>>

CallsOf(tx) ==
    CASE tx[2] = "set_refinance_impl" ->
            SetFacet(tx[1], "refinance_impl_key", "set_refinance_addr", tx)
      [] tx[2] = "set_liquidation_impl" ->
            SetFacet(tx[1], "liquidation_impl_key", "set_liquidation_addr", tx)
      [] tx[2] = "set_vault_registrar_connector" -> SetVaultRegistrarConnector(tx[1])
      [] tx[2] = "set_proxy_auth" -> SetProxyAuth(tx[1], tx)

Configure(tx) ==
    /\ phase = "configuring" /\ pending = <<>>
    /\ pending' = CallsOf(tx)
    /\ txs' = txs \ {tx}
    /\ UNCHANGED <<world, phase, changed, context, contracts_to_deploy, todo, verification,
                   sortVars, history>>

\* What a call does on chain.
Link(a, name, target) == chain' = [chain EXCEPT ![a[1]][a[2]].links[name] = target]
Grant(a, target) == chain' = [chain EXCEPT ![a[1]][a[2]].authorized = @ \cup {target}]

Effect(call) ==
    LET a == contract[call.key]
        target == contract[call.arg]
    IN CASE call.func = "set_refinance_addr" -> Link(a, "refinance_impl_key", target)
         [] call.func = "set_liquidation_addr" -> Link(a, "liquidation_impl_key", target)
         [] call.func = "change_vault_registrar" -> Link(a, "vault_registrar_connector_key", target)
         [] OTHER -> Grant(a, target)

Execute ==
    /\ pending # <<>>
    /\ Effect(Head(pending))
    /\ pending' = Tail(pending)
    /\ UNCHANGED <<catalog, source, file, explorer, published, budget, phase, changed,
                   context, contracts_to_deploy, txs, todo, verification, sortVars, history>>

\* execute only prints the exception of a transaction: the script goes on.
ExecuteFails ==
    /\ pending # <<>>
    /\ budget.faults < MaxFaults /\ Spend("faults")
    /\ pending' = Tail(pending)
    /\ unsettled' = unsettled \cup {Head(pending).tx}
    /\ UNCHANGED <<catalog, source, file, chain, explorer, published, phase, changed,
                   context, contracts_to_deploy, txs, todo, verification, sortVars, interrupted>>

\* The second save; contracts are verified in two environments only.
SaveAgain ==
    /\ phase = "configuring" /\ txs = {} /\ pending = <<>>
    /\ StoreContracts
    /\ IF catalog.env \in {"int", "prod"}
       THEN /\ phase' = "verifying"
            /\ todo' = Selected(contracts_to_deploy, {k \in Keys : contract[k] # None})
            /\ UNCHANGED <<changed, context, plan, verification, sortVars>>
       ELSE Forget
    /\ UNCHANGED <<catalog, source, chain, explorer, published, budget, history>>

\* The process dies, or the transaction that deploys a contract fails; for a
\* script that is still planning this is a DryRun.
Crash ==
    /\ phase \notin {"idle", "planning"}
    /\ budget.crashes < MaxCrashes /\ Spend("crashes")
    /\ unsettled' = IF phase = "configuring"
                    THEN unsettled \cup txs \cup {pending[i].tx : i \in DOMAIN pending}
                    ELSE unsettled
    /\ interrupted' = (interrupted \/ phase = "deploying")
    /\ Forget
    /\ UNCHANGED <<catalog, source, file, chain, explorer, published>>
=============================================================================
