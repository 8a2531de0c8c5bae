----------------------------- MODULE Verification -----------------------------
(***************************************************************************)
(* Verification on a block explorer (scripts/_helpers/verification.py), as *)
(* the end of a deployment (phase "verifying"), where an error ends the    *)
(* script, and as a script of its own (scripts/verify.py, "checking"),     *)
(* which goes on and reports what failed.  The explorer decides in its own *)
(* time, and may do so when nobody polls any more.                         *)
(***************************************************************************)
EXTENDS ReleaseBase

Verifying == phase \in {"verifying", "checking"}
Current == contract[Head(todo)]

StatusOf(a) == IF a \in DOMAIN explorer THEN explorer[a].status ELSE "unverified"

\* What is submitted again is compiled again.
WithSubmission(a, abi) ==
    [b \in DOMAIN explorer \cup {a} |->
        IF b = a THEN [status |-> "pending", abi |-> abi] ELSE explorer[b]]

\* load_deployed_contracts: proxies and tokens are left out.
DeployedFromSources == {k \in InScope({"common", "p2p"}) : file[k].address # None}

StartChecking ==
    /\ phase = "idle"
    /\ catalog.explorer # None
    /\ phase' = "checking"
    /\ contract' = [k \in Keys |-> file[k].address]
    /\ todo' = InFileOrder(DeployedFromSources)
    /\ UNCHANGED <<world, changed, abi_key, plan, verification, sortVars, history>>

\* A plausible fault, which the properties must reveal: what failed is tried again.
FaultyConclude(success) ==
    /\ todo' = IF success THEN Tail(todo) ELSE todo
    /\ job' = None
    /\ UNCHANGED <<failed, phase, changed, context, plan, sortVars>>

\* On to the next contract.
Conclude(success) ==
    /\ todo' = Tail(todo)
    /\ job' = None
    /\ failed' = IF success THEN failed ELSE failed \cup {Head(todo)}
    /\ UNCHANGED <<phase, changed, context, plan, sortVars>>

AlreadyVerified ==
    /\ phase = "checking" /\ todo # <<>> /\ job = None
    /\ StatusOf(Current) = "verified"
    /\ Conclude(TRUE)
    /\ UNCHANGED <<world, history>>

\* extract_constructor_args: the sources are no longer those that were deployed.
ArgumentsDiffer ==
    /\ phase = "checking" /\ todo # <<>> /\ job = None
    /\ catalog.explorer = "etherscan"
    /\ StatusOf(Current) # "verified"
    /\ At(Current).abi # Abi(Head(todo))
    /\ Conclude(FALSE)
    /\ UNCHANGED <<world, history>>

\* A plausible fault, which the properties must reveal: the sources of another contract.
FaultySubmit ==
    /\ Verifying /\ todo # <<>> /\ job = None
    /\ catalog.explorer # None
    /\ StatusOf(Current) # "verified"
    /\ explorer' = WithSubmission(Current, Abi(todo[Len(todo)]))
    /\ job' = 0
    /\ UNCHANGED <<catalog, source, file, chain, published, budget, phase, changed, context,
                   plan, todo, failed, sortVars, history>>

Submit ==
    /\ Verifying /\ todo # <<>> /\ job = None
    /\ catalog.explorer # None
    /\ StatusOf(Current) # "verified"
    /\ explorer' = WithSubmission(Current, Abi(Head(todo)))
    /\ job' = 0
    /\ UNCHANGED <<catalog, source, file, chain, published, budget, phase, changed, context,
                   plan, todo, failed, sortVars, history>>

\* An exception ends a deployment; verify_one contains it.
Raise == IF phase = "checking" THEN Conclude(FALSE) ELSE Forget

\* get_explorer knows no explorer for the chain, or the explorer refuses what is verified.
Refused ==
    /\ phase = "verifying" /\ todo # <<>> /\ job = None
    /\ catalog.explorer = None \/ StatusOf(Current) = "verified"
    /\ Raise
    /\ UNCHANGED <<world, history>>

RequestFails ==
    /\ Verifying /\ todo # <<>>
    /\ catalog.explorer # None
    /\ budget.faults < MaxFaults /\ Spend("faults")
    /\ Raise
    /\ UNCHANGED <<catalog, source, file, chain, explorer, published, history>>

\* poll_verification and blockscout_poll_verification: the latter never sees a rejection.
Answered ==
    \/ StatusOf(Current) = "verified"
    \/ StatusOf(Current) = "rejected" /\ catalog.explorer = "etherscan"

\* A plausible fault, which the properties must reveal: giving up counts as success.
FaultyPoll ==
    /\ Verifying /\ job # None
    /\ IF Answered \/ job + 1 = MaxAttempts THEN Conclude(StatusOf(Current) # "rejected")
       ELSE /\ job' = job + 1
            /\ UNCHANGED <<phase, changed, context, plan, todo, failed, sortVars>>
    /\ UNCHANGED <<world, history>>

Poll ==
    /\ Verifying /\ job # None
    /\ IF Answered THEN Conclude(StatusOf(Current) = "verified")
       ELSE IF job + 1 = MaxAttempts THEN Conclude(FALSE)
       ELSE /\ job' = job + 1
            /\ UNCHANGED <<phase, changed, context, plan, todo, failed, sortVars>>
    /\ UNCHANGED <<world, history>>

\* A plausible fault, which the properties must reveal: what failed is still there.
FaultyFinishVerification ==
    /\ Verifying /\ todo = <<>>
    /\ phase' = "idle"
    /\ UNCHANGED <<world, changed, context, plan, todo, verification, sortVars, history>>

FinishVerification ==
    /\ Verifying /\ todo = <<>>
    /\ Forget
    /\ UNCHANGED <<world, history>>

\* The explorer compiles what was submitted and compares it with what is deployed.
ExplorerAnswers(a) ==
    /\ StatusOf(a) = "pending"
    /\ explorer' = [explorer EXCEPT ![a].status =
                       IF explorer[a].abi = At(a).abi THEN "verified" ELSE "rejected"]
    /\ UNCHANGED <<catalog, source, file, chain, published, budget, script, history>>
=============================================================================
