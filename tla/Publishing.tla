------------------------------ MODULE Publishing ------------------------------
(***************************************************************************)
(* scripts/publish.py: the ABIs of the configured contracts, then the      *)
(* configuration of every market and proxy, one table item at a time.      *)
(***************************************************************************)
EXTENDS ReleaseBase

\* The ABI of every contract is asked for: one without a contract ends the script.
StartPublishing ==
    /\ phase = "idle"
    /\ catalog.env # "local"
    /\ \A k \in Stored : file[k].address # None
    /\ phase' = "publishing abis"
    /\ contract' = [k \in Keys |-> file[k].address]
    /\ abi_key' = [k \in Keys |-> file[k].abi_key]
    /\ todo' = InFileOrder(Stored)
    /\ UNCHANGED <<world, changed, plan, verification, sortVars, history>>

UpdateAbi ==
    /\ phase = "publishing abis" /\ todo # <<>>
    /\ abis' = abis \cup {Abi(Head(todo))}
    /\ todo' = Tail(todo)
    /\ UNCHANGED <<catalog, source, file, chain, explorer, configs, budget, phase, changed,
                   context, plan, verification, sortVars, history>>

\* A plausible fault, which the properties must reveal: configurations before ABIs.
FaultyUpdateConfigs ==
    /\ phase = "publishing abis"
    /\ phase' = "publishing configs"
    /\ todo' = InFileOrder(InScope({"p2p"})) \o InFileOrder(InScope({"proxies"}))
    /\ UNCHANGED <<world, changed, context, plan, verification, sortVars, history>>

UpdateConfigs ==
    /\ phase = "publishing abis" /\ todo = <<>>
    /\ phase' = "publishing configs"
    /\ todo' = InFileOrder(InScope({"p2p"})) \o InFileOrder(InScope({"proxies"}))
    /\ UNCHANGED <<world, changed, context, plan, verification, sortVars, history>>

\* What a property's contract is called with: the ABI of the sources, or a token's own.
PropertyAbi(k) == IF k \in Stored THEN Abi(k) ELSE abi_key[k]

\* compiled is no attribute of the item but history: the ABI the sources gave
\* the contract when the item was written.
\* A plausible fault, which the properties must reveal: only what is new is set.
FaultyItem(k) ==
    [address |-> file[k].address,
     abi_key |-> file[k].abi_key,
     compiled |-> Abi(k),
     properties_addresses |-> IF k \in DOMAIN configs THEN configs[k].properties_addresses
                              ELSE file[k].properties_addresses,
     properties_abis |->
        [n \in DOMAIN entries[k].properties |-> PropertyAbi(entries[k].properties[n])]]

Item(k) ==
    [address |-> file[k].address,
     abi_key |-> IF file[k].abi_key # None THEN file[k].abi_key ELSE Abi(k),
     compiled |-> Abi(k),
     properties_addresses |-> file[k].properties_addresses,
     properties_abis |->
        [n \in DOMAIN entries[k].properties |-> PropertyAbi(entries[k].properties[n])]]

\* A table item replaces the one with its key.
WithItem(k, item) ==
    [x \in DOMAIN configs \cup {k} |-> IF x = k THEN item ELSE configs[x]]

UpdateConfig ==
    /\ phase = "publishing configs" /\ todo # <<>>
    /\ configs' = WithItem(Head(todo), Item(Head(todo)))
    /\ todo' = Tail(todo)
    /\ UNCHANGED <<catalog, source, file, chain, explorer, abis, budget, phase, changed,
                   context, plan, verification, sortVars, history>>

FinishPublishing ==
    /\ phase = "publishing configs" /\ todo = <<>>
    /\ Forget
    /\ UNCHANGED <<world, history>>
=============================================================================
