----------------------------- MODULE Dependency -----------------------------
(***************************************************************************)
(* DependencyManager (scripts/_helpers/dependency.py): which contracts a   *)
(* deployment deploys, in which order, and which configuration             *)
(* transactions it runs.  A configuration maps a key to its class and      *)
(* properties; a context maps a key to the address of its contract, or to  *)
(* None.                                                                   *)
(***************************************************************************)
EXTENDS ContractConfigs, TopologicalSort

ClassOf(entries, k) == Class(entries[k].contract)

\* The keys that properties of a contract name; not every property is given.
Named(entries, k, names) ==
    {entries[k].properties[n] : n \in names \cap DOMAIN entries[k].properties}

Deployable(entries, k) == ClassOf(entries, k).deployable

DeploymentDependencies(entries, context, k) ==
    Named(entries, k, ClassOf(entries, k).deployment_deps)
        \cup {d \in Named(entries, k, ClassOf(entries, k).deploy_or_config_deps) :
                 context[d] = None}

\* What is deployed after each contract.
BuildDependencies(entries, context) ==
    [k \in DOMAIN entries |->
        {c \in DOMAIN entries : k \in DeploymentDependencies(entries, context, c)}]

\* A plausible fault, which the properties must reveal: markets are left out.
FaultyUndeployed(entries, context) ==
    {k \in DOMAIN entries : Deployable(entries, k) /\ context[k] = None
                               /\ entries[k].scope # "p2p"}

Undeployed(entries, context) ==
    {k \in DOMAIN entries : Deployable(entries, k) /\ context[k] = None}

\* What a search along the edges visits: the least closed set around its start.
Reached(deps, start) ==
    {k \in DOMAIN deps : \A S \in SUBSET DOMAIN deps :
        start \subseteq S /\ (\A n \in S : deps[n] \subseteq S) => k \in S}

\* A plausible fault, which the properties must reveal: no dependents.
FaultyDeploymentSet(entries, context, changed) == changed \cup Undeployed(entries, context)

DeploymentSet(entries, context, changed) ==
    Reached(BuildDependencies(entries, context), changed \cup Undeployed(entries, context))

\* The elements of a sequence that are in a set, in their order.  (SelectSeq is
\* this; the provers know no definition of it.)
Selected(s, S) ==
    LET positions == {i \in 1..Len(s) : s[i] \in S}
        Rank(i) == Cardinality({j \in positions : j <= i})
    IN [n \in 1..Cardinality(positions) |-> s[CHOOSE i \in positions : Rank(i) = n]]

DeploymentOrder(set) == Selected(Sorted, set)

Trigger(entries, k, name) == IF name = "key" THEN {k} ELSE Named(entries, k, {name})

\* A plausible fault, which the properties must reveal: only for contracts
\* that are deployed themselves.
FaultyTransactionSet(entries, keys) ==
    UNION {{<<k, c[2]>> : c \in ClassOf(entries, k).config_deps} : k \in keys}

TransactionSet(entries, keys) ==
    UNION {{<<k, c[2]>> : c \in {d \in ClassOf(entries, k).config_deps :
                                     Trigger(entries, k, d[1]) \cap keys # {}}} :
           k \in DOMAIN entries}
=============================================================================
