----------------------------- MODULE ReleaseBase -----------------------------
(***************************************************************************)
(* What the release scripts share: the configuration file of an            *)
(* environment and a chain, the contracts on that chain, the block         *)
(* explorer, the tables the scripts publish to, and the memory of the one  *)
(* script an operator runs at a time.  The n-th contract deployed for a    *)
(* key has the address <<key, n>>; the ABI key of a contract, and its      *)
(* bytecode, stand for the build of the sources it comes from.             *)
(***************************************************************************)
EXTENDS Dependency, SequencesExt

CONSTANTS
    Catalogs,       \* bound: the configurations, and what operator and developers do with them
    MaxVersions,    \* bound: contracts deployed for a key
    MaxRequests,    \* bound: deployments asked to redeploy something
    MaxCrashes,     \* bound: scripts that die
    MaxFaults,      \* bound: transactions and requests that fail
    MaxEdits,       \* bound: changes of the sources
    MaxAttempts     \* max_attempts of the polls

ASSUME ReleaseAssumption ==
    /\ {MaxVersions, MaxRequests, MaxCrashes, MaxFaults, MaxEdits, MaxAttempts} \subseteq Nat
    /\ MaxAttempts > 0
    /\ \A c \in Catalogs : IsFiniteSet(DOMAIN c.entries)

\* What a contract may be deployed after; no configuration of the repository has a cycle.
MayDependOn(c, k) ==
    Named(c.entries, k, ClassOf(c.entries, k).deployment_deps
                            \cup ClassOf(c.entries, k).deploy_or_config_deps)
ASSUME CatalogsAcyclic ==
    \A c \in Catalogs :
        \E rank \in [DOMAIN c.entries -> 1..Cardinality(DOMAIN c.entries)] :
            \A k \in DOMAIN c.entries : \A d \in MayDependOn(c, k) : rank[d] < rank[k]

\* What every configuration of the repository is: a property names an entry, only
\* the scopes that are stored hold contracts that are deployed, and what a
\* market is set or a proxy is authorised by is deployed as well.
Settable == {"refinance_impl_key", "liquidation_impl_key", "vault_registrar_connector_key"}

ASSUME CatalogsConfigured ==
    \A c \in Catalogs :
        /\ c.deployed \subseteq DOMAIN c.entries
        /\ None \notin (DOMAIN c.entries \cup ClassNames) \X Nat
        /\ \A k \in DOMAIN c.entries :
              LET properties == c.entries[k].properties IN
              /\ c.entries[k].contract \in ClassNames
              /\ \A n \in DOMAIN properties : properties[n] \in DOMAIN c.entries
              /\ Deployable(c.entries, k) => c.entries[k].scope \in {"common", "p2p", "proxies"}
              /\ \A n \in (Settable \cup {"p2p_contract_key"}) \cap DOMAIN properties :
                    Deployable(c.entries, properties[n])
              /\ c.entries[k].contract = "SecuritizeLoop" =>
                    "p2p_contract_key" \in DOMAIN properties

VARIABLES
    catalog,        \* the configuration, which no script changes
    source,         \* the build of each class in the sources
    file,           \* p2p-erc20.json: address, abi_key, properties_addresses
    chain,          \* for each key the contracts deployed for it
    explorer,       \* what became of the addresses submitted to it
    abis, configs,  \* the published tables
    budget          \* requests, crashes, faults and edits so far

published == <<abis, configs>>
world == <<catalog, source, file, chain, explorer, published, budget>>

VARIABLES
    phase,          \* what the running script is doing, or "idle"
    changed,        \* the keys the operator asks to deploy again
    contract,       \* the context: the address of each contract, or None
    abi_key,        \* and the key of its ABI
    contracts_to_deploy,
    txs,            \* the configuration transactions still to run
    pending,        \* the calls the current one still has to make
    todo,           \* the contracts still to deploy, verify or publish
    job,            \* the attempts made at polling a verification, or None
    failed          \* the contracts verify.py could not verify

context == <<contract, abi_key>>
plan == <<contracts_to_deploy, txs, pending>>
verification == <<job, failed>>
script == <<phase, changed, context, plan, todo, verification, sortVars>>

VARIABLES
    unsettled,      \* history: configuration transactions that failed or were lost
    interrupted     \* history: a deployment did not reach its end

history == <<unsettled, interrupted>>

vars == <<world, script, history>>

entries == catalog.entries
Keys == DOMAIN entries
InScope(scopes) == {k \in Keys : entries[k].scope \in scopes}
Stored == InScope({"common", "p2p", "proxies"})

At(a) == chain[a[1]][a[2]]

\* The ABI the sources give a contract now.
Abi(k) == <<entries[k].contract, source[entries[k].contract]>>

Spend(what) == budget' = [budget EXCEPT ![what] = @ + 1]

\* The script ends, and its memory with it.
Forget ==
    /\ phase' = "idle"
    /\ changed' = {}
    /\ contract' = [k \in Keys |-> None]
    /\ abi_key' = [k \in Keys |-> None]
    /\ contracts_to_deploy' = <<>>
    /\ txs' = {}
    /\ pending' = <<>>
    /\ todo' = <<>>
    /\ job' = None
    /\ failed' = {}
    /\ StartSort([k \in Keys |-> {}])

\* A script takes its contracts in the order of the file, here any fixed one.
InFileOrder(S) == SetToSeq(S)
=============================================================================
