-------------------------------- MODULE Release --------------------------------
(***************************************************************************)
(* The release of the protocol on one chain: deployments, verification     *)
(* and publishing run one after the other, die, and are run again, while   *)
(* the sources change between the runs and the explorer answers in its own *)
(* time.                                                                   *)
(***************************************************************************)
EXTENDS Deployment, Verification, Publishing

\* A contract deployed in an earlier release, with what was deployed by then.
First(c, k) == IF k \in c.deployed THEN <<k, 1>> ELSE None
FirstLinks(c, k) ==
    LET names == ClassOf(c.entries, k).deployment_args \cap DOMAIN c.entries[k].properties
    IN [n \in names |-> First(c, c.entries[k].properties[n])]
FirstAuthorized(c, k) ==
    {<<d, 1>> : d \in {e \in c.deployed :
        k \in Named(c.entries, e, {"vault_registrar_connector_key", "p2p_contract_key"})}}

InitWorld(c) ==
    /\ catalog = c
    /\ source = [name \in {c.entries[k].contract : k \in DOMAIN c.entries} |-> 0]
    /\ chain = [k \in DOMAIN c.entries |->
          IF k \in c.deployed
          THEN <<[links |-> FirstLinks(c, k), authorized |-> FirstAuthorized(c, k),
                  abi |-> <<c.entries[k].contract, 0>>]>>
          ELSE <<>>]
    /\ file = [k \in DOMAIN c.entries |->
          [address |-> First(c, k),
           abi_key |-> IF k \in c.deployed THEN <<c.entries[k].contract, 0>> ELSE None,
           properties_addresses |->
              [n \in {m \in DOMAIN c.entries[k].properties :
                          c.entries[c.entries[k].properties[m]].scope # "configs"} |->
                  IF k \in c.deployed THEN First(c, c.entries[k].properties[n]) ELSE None]]]
    /\ explorer = <<>>
    /\ abis = {} /\ configs = <<>>
    /\ budget = [requests |-> 0, crashes |-> 0, faults |-> 0, edits |-> 0]

Init ==
    /\ \E c \in Catalogs : InitWorld(c)
    /\ phase = "idle" /\ changed = {}
    /\ contract = [k \in Keys |-> None] /\ abi_key = [k \in Keys |-> None]
    /\ contracts_to_deploy = <<>> /\ txs = {} /\ pending = <<>>
    /\ todo = <<>> /\ job = None /\ failed = {}
    /\ dependencies = [k \in Keys |-> {}] /\ vis = {} /\ calls = <<>> /\ stack = <<>>
    /\ unsettled = {} /\ interrupted = FALSE

\* A developer changes the sources of a class between two scripts.
EditSources(name) ==
    /\ phase = "idle"
    /\ budget.edits < MaxEdits /\ Spend("edits")
    /\ source' = [source EXCEPT ![name] = @ + 1]
    /\ UNCHANGED <<catalog, file, chain, explorer, published, script, history>>

DeploymentStep ==
    Sort \/ Plan \/ DryRun \/ Construct \/ CannotEncode \/ Save \/ Execute \/ ExecuteFails
        \/ SaveAgain \/ \E tx \in txs : Configure(tx)

VerificationStep ==
    AlreadyVerified \/ ArgumentsDiffer \/ Submit \/ Refused \/ RequestFails \/ Poll
        \/ FinishVerification

PublishingStep == UpdateAbi \/ UpdateConfigs \/ UpdateConfig \/ FinishPublishing

ScriptStep == DeploymentStep \/ VerificationStep \/ PublishingStep

Next ==
    \/ \E request \in catalog.requests \cup {{}} : StartDeployment(request)
    \/ "verify" \in catalog.scripts /\ StartChecking
    \/ "publish" \in catalog.scripts /\ StartPublishing
    \/ ScriptStep
    \/ Crash
    \/ \E a \in DOMAIN explorer : ExplorerAnswers(a)
    \/ \E name \in catalog.edited : EditSources(name)

\* A running script goes on until it ends or dies: ScriptStep is enabled
\* whenever one runs, so that this is WF_script(ScriptStep).
ScriptGoesOn == []<>(phase = "idle") \/ []<><<TRUE>>_script

\* The explorer answers in the end.
Submitted == UNION {DOMAIN c.entries : c \in {d \in Catalogs : d.explorer # None}}
ExplorerGoesOn ==
    \A k \in Submitted : WF_explorer(\E n \in 1..MaxVersions : ExplorerAnswers(<<k, n>>))

Fairness == ScriptGoesOn /\ ExplorerGoesOn

Spec == Init /\ [][Next]_vars /\ Fairness
-----------------------------------------------------------------------------
Phases == {"idle", "planning", "deploying", "configuring", "verifying", "checking",
           "publishing abis", "publishing configs"}

Versions(k) == {<<k, n>> : n \in 1..Len(chain[k])} \cup {None}

\* Addresses name contracts that exist, and a script's memory is empty between scripts.
TypeOK ==
    /\ phase \in Phases
    /\ \A k \in Keys : file[k].address \in Versions(k) /\ contract[k] \in Versions(k)
    /\ job \in 0..MaxAttempts \cup {None}
    /\ txs \subseteq Keys \X {"set_refinance_impl", "set_liquidation_impl",
                              "set_vault_registrar_connector", "set_proxy_auth"}
    /\ phase = "idle" => todo = <<>> /\ pending = <<>> /\ job = None /\ failed = {}
    /\ DOMAIN explorer \subseteq UNION {Versions(k) \ {None} : k \in Keys}

\* The sort puts every contract before those that are deployed after it,
\* whatever order it walks the sets of nodes and dependents in.
SortedOrder ==
    phase = "planning" /\ SortDone =>
        \A i, j \in 1..Len(stack) : i < j => Sorted[i] \notin dependencies[Sorted[j]]

\* A contract is deployed only once the contracts it is deployed after are:
\* none that it still depends on is behind it in todo.
DependenciesFirst ==
    phase = "deploying" =>
        \A i, j \in 1..Len(todo) :
            i < j => todo[j] \notin DeploymentDependencies(entries, contract, todo[i])

\* The addresses the configuration file lists for a contract's constructor are
\* those the contract on chain was built with, whatever script died and when;
\* what a setter may change later is left to SettledLinksAgree.
RecordedArguments ==
    \A k \in Keys : k \in Stored /\ file[k].address # None =>
        \A n \in (DOMAIN file[k].properties_addresses \cap DOMAIN At(file[k].address).links) :
            \/ At(file[k].address).links[n] = file[k].properties_addresses[n]
            \/ n \in Settable

\* Whenever no configuration transactions run (between scripts, so, and for all
\* that publishing and verification read), what a recorded contract points to
\* on chain is what the file says it points to, and it is authorised where it
\* has to be, unless the very transaction that sees to it failed or was lost
\* with its script.
Authorized(k, target) == file[k].address # None /\ file[target].address # None
    => file[k].address \in At(file[target].address).authorized

SettledLinksAgree ==
    phase # "configuring" => \A k \in Keys : k \in Stored /\ file[k].address # None =>
        \A c \in ClassOf(entries, k).config_deps : <<k, c[2]>> \notin unsettled =>
            /\ c[1] \in Settable \cap DOMAIN entries[k].properties =>
                  At(file[k].address).links[c[1]] = file[entries[k].properties[c[1]]].address
            /\ c[1] = "vault_registrar_connector_key" /\ c[1] \in DOMAIN entries[k].properties =>
                  Authorized(k, entries[k].properties[c[1]])
            /\ c[1] = "key" => Authorized(k, entries[k].properties["p2p_contract_key"])

\* The contracts whose address the scripts keep: all but those of a local
\* environment that the file lists and no script deploys.  There they are
\* loaded without an address, and saved so.
Retained == {k \in Keys : catalog.env = "local" /\ k \in Stored => Deployable(entries, k)}

\* A contract that was deployed is in the file afterwards, unless a
\* deployment ended before its first save.
NothingForgotten ==
    phase = "idle" /\ ~interrupted =>
        \A k \in Stored \cap Retained : Len(chain[k]) > 0 => file[k].address = <<k, Len(chain[k])>>

\* No script loses an address the file holds or goes back to an earlier one,
\* but for those that a local deployment blanks.
RecordsOnlyMoveForward ==
    [][\A k \in Retained : file[k].address # None =>
          file'[k].address # None /\ file[k].address[2] <= file'[k].address[2]]_vars

\* When verify.py is about to say that all contracts are verified, the explorer
\* has verified every market and common contract the file lists.
ReportIsTrue ==
    phase = "checking" /\ todo = <<>> /\ failed = {} =>
        \A k \in DeployedFromSources : StatusOf(file[k].address) = "verified"

\* A reader of a published configuration calls contracts with the ABIs it
\* names.  Its own is that of the build deployed at the address it gives,
\* however the sources change and whichever script dies; and it was published,
\* unless the sources had changed from that build when publish.py compiled them.
\* Those of the contracts it names were published before it, whatever their
\* builds; tokens bring theirs along, and publish.py publishes none for them.
PublishedAbisAvailable ==
    \A k \in DOMAIN configs :
        /\ configs[k].abi_key = At(configs[k].address).abi
        /\ configs[k].abi_key = configs[k].compiled => configs[k].abi_key \in abis
        /\ \A n \in DOMAIN configs[k].properties_abis :
              entries[k].properties[n] \in Stored => configs[k].properties_abis[n] \in abis

\* What is published of a market never mixes two deployments: the contracts
\* listed for its constructor are those the published address was built with,
\* also when the publishing script died half way and a deployment followed.
PublishedArguments ==
    \A k \in DOMAIN configs :
        \A n \in DOMAIN configs[k].properties_addresses \cap DOMAIN At(configs[k].address).links :
            \/ At(configs[k].address).links[n] = configs[k].properties_addresses[n]
            \/ n \in Settable

\* A script comes to its end, whatever fails on the way.
ScriptsEnd == (phase # "idle") ~> (phase = "idle")

\* Deploying again and again records every contract in the end: what a
\* deployment that died left out is found undeployed by the next one.  A local
\* deployment starts over instead, and may find an argument without an address.
EventuallyRecorded ==
    catalog.env # "local" /\ []<>(phase = "deploying") =>
        <>[](\A k \in Keys : Deployable(entries, k) => file[k].address # None)

\* Checking again and again gets every contract verified whose sources are
\* those it was deployed from, though each poll may give up before the answer.
EventuallyVerified ==
    []<>(phase = "checking") =>
        <>[](\A k \in DeployedFromSources :
                At(file[k].address).abi = Abi(k) => StatusOf(file[k].address) = "verified")
=============================================================================
