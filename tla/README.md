# Verification of the Zharta ERC20 lending protocol

TLA+ models of the lending contracts in `contracts/` and of the scripts in
`scripts/` that deploy, verify and publish them, the TLC runs that check them on
small instances, and TLAPS proofs of what holds for every instance. The
definitions are translated from the Vyper and Python sources; `PROJECT.json`
maps each of them to the lines it models, and lists the runs, hazards, findings
and theorems.

## 1. The system

### Components

| Component | Source | State it keeps | Operations | Here |
|---|---|---|---|---|
| Lending contract (vaulted) | `v1/P2PLendingVaultedErc20.vy`, `v1/P2PLendingVaultedBase.vy` | hash of each live loan, committed liquidity by lender and tracing id, revoked offers, pending payments, owner, fees, proxies, facets | create, settle, call, transfer a loan; add and remove collateral; revoke an offer; claim pending payments; create a vault; eleven administration functions | modelled |
| Refinance facet (vaulted) | `v1/P2PLendingVaultedRefinance.vy` | none of its own: `delegatecall` on the lending contract's storage | `replace_loan` (by the borrower), `replace_loan_lender` (a sale by the lender) | modelled |
| Liquidation facet (vaulted) | `v1/P2PLendingVaultedLiquidation.vy` | none of its own | `partially_liquidate_loan`, `liquidate_loan` | modelled |
| Vault | `v1/P2PLendingVault.vy` | caller, pending collateral by wallet and in total; its balance is the token's | `initialise`, `deposit`, `withdraw`, `withdraw_pending` | modelled, alone and inside the lending contracts |
| Lending contract (Securitize) and its facets | `v1/P2PLendingSecuritize*.vy` | as vaulted, with one vault per loan (`vault_count`), redemptions in progress, redemption wallet | as vaulted, without calls; redeem, extend a maturity (borrower or lender), set the redemption wallet | modelled |
| Securitize vault | `v1/P2PLendingVaultSecuritize.vy` | as the vault, and payment tokens | as the vault; `withdraw_funds`, `transfer_funds`, `buy`, `redeem` | modelled inside the Securitize contract, but for its `redeem`, which nothing calls |
| Midas and Profitr vaults | `v1/P2PLendingVault{Midas,Profitr}.vy` | as the vault | as the vault; calls to an issuer's contracts | planned |
| KYC validator | `KYCValidator.vy` | owner, validator | check one or two attestations, set the validator, change the owner | the check, for a fixed validator |
| Registrar connector | `SecuritizeRegistrarV2Connector.vy` | authorised contracts, investors' signatures | register a vault, store a signature | planned; the release scripts' calls to it are modelled |
| Proxies | `SecuritizeProxy.vy`, `MidasProxy.vy` | none | create a loan inside a flash loan | planned |
| Oracle adapters | `CentrifugeOracleAdapter.vy`, `xPrismOracleAdapter.vy` | none | convert a rate | left out: the models take any rate |
| MultiVault variant | `v1/P2PLendingMultiVault*.vy` | as Securitize | as Securitize | left out: not deployed (`KNOWN_ISSUES.md`, KI-05) |
| v0 | `v0/*.vy` | as vaulted, older | fewer | left out: superseded by v1; its release is modelled |
| Dependencies | `scripts/_helpers/dependency.py` | what each contract is deployed before and what configures it | sort, set of contracts to deploy, set of transactions to run | modelled |
| Contract classes | `scripts/_helpers/contracts.py`, `basetypes.py`, `transactions.py` | for each contract its address, ABI key and properties | deploy, load, configure | modelled for every class a configuration names |
| Deployment | `scripts/_helpers/deployment.py`, `scripts/deployment.py` | the configuration file of an environment and chain; the context of the running script | load, plan, deploy, save, configure, save, hand over to verification | modelled |
| Verification | `scripts/_helpers/verification.py`, `scripts/verify.py` | contracts still to verify, attempts made, what failed; the explorer keeps its own records | submit, poll, on Etherscan or Blockscout | modelled |
| Publishing | `scripts/publish.py` | the tables of ABIs and of configurations | put an ABI, put a configuration | modelled |
| Console helpers | `ape_console_extras.py` | none | build and sign offers, call contracts by hand | left out |
| Read-only scripts | `scripts/build_interfaces.py`, `contract_sizes.py`, `get_tokens.py` | none | print or write what follows from the sources | left out |
| Mocks | `contracts/auxiliary/` | none | | left out |

### How the components interact

A borrower, lender, liquidator or transfer agent calls a lending contract,
directly or through an authorised proxy, which acts for `tx.origin`. The
contract passes refinancings and liquidations on to the facets by
`delegatecall`, so all three share one storage. Collateral is in a vault (one
per borrower, or one per loan in the Securitize version), a contract that obeys
only the lending contract; payments go between the parties, through the lending
contract when one transaction has several payees. Offers are signed off-chain
and presented by whoever uses them; KYC attestations likewise. The oracle is
read in the transaction that needs it.

In the Securitize version a borrower can also have the collateral redeemed by
its issuer while the loan runs: the tokens go to the redemption wallet, and
payment tokens, or collateral that was not sold, come back to the vault. The
contract cannot see why its vault received something, so the owner signs a
*result* that says how much did; whoever settles, liquidates or transfers the
loan presents the result.

An operator runs one script at a time. A deployment reads the configuration
file, sorts the contracts, deploys those that have no address or are asked for,
writes the file, runs the transactions that point the contracts at each other,
writes the file again, and on the two environments with an explorer has it
verify what was deployed. `verify.py` and `publish.py` later read the same file.
Between the scripts developers change the sources; the explorer answers at any
time.

A transaction is atomic, so no two calls interleave; what is concurrent is the
*order* of calls by actors who do not coordinate, with the clock and the price
moving in between. A script is not atomic: it can die between any two of its
steps, and only the file, the chain, the explorer and the tables survive.

### Which behaviours are hard

- **Transfers that fail.** `Vault.withdraw` and `_send_funds` do not revert
  when the token refuses a transfer (a frozen or unregistered wallet): the
  amount becomes pending, owed to that wallet. Tokens now have two owners in one
  balance, and every later operation must keep off what is owed.
- **Chains of replacements.** A loan is refinanced, sold, called and
  transferred, each step comparing only with the one before; protection of the
  borrower has to survive the chain.
- **Signed netting.** A replacement settles borrower, two lenders and the
  protocol by differences whose sign decides who pays.
- **Shared offers.** The liquidity of an offer is a counter shared by all loans
  with one lender and tracing id, changed at every creation, settlement,
  replacement and liquidation.
- **Rounding.** Each liquidation divides several times; the remainders must
  never make what is taken exceed what is there.
- **Time.** Interest, call eligibility, call window, maturity and expiration
  are all compared with `block.timestamp`, in unsigned arithmetic that reverts.
- **An oracle that does not answer** blocks every call that needs a rate.
- **Redemptions in progress.** Between `redeem` and the signed result nobody but
  the issuer knows where the collateral is. A loan can meanwhile mature, be
  extended, sold, healed or given to another borrower, which moves its vault;
  a result signed before such a step must not be used for more or less than is
  there afterwards.
- **Vaults that are named by a counter.** Replacements keep a vault, creation
  and transfer take the next one, and a purchase of collateral waits in a vault
  that no loan has yet.
- **Scripts that die.** Between two contracts, between the first save and the
  transactions that make it true, between two items of a table.
- **Failures that are only printed.** A configuration transaction that fails does
  not end the script, and a later run repeats it only if its contract is asked for.
- **Orders of Python sets.** The sort walks sets whose order differs between
  processes.
- **Late answers.** A poll gives up while the explorer works on.

### What makes each component correct

- *Vault*: it never owes more than it holds; only a wallet takes what is owed to
  it; the lending contract releases only what is not owed.
- *Lending contracts*: the collateral in a vault is exactly that of its loans;
  the contract holds exactly the payments it owes; the principal lent stays
  within the offers; a loan can always be closed; terms stay consistent.
- *Refinance*: nobody gains or loses money in a replacement; a sale takes
  nothing from the borrower's term; no operation makes a loan liquidatable.
- *Liquidation*: amounts stay within debt and collateral; interest is defined.
- *Redemption*: a signed result stays true until it is used; nothing is left in
  a vault that no loan uses.
- *Deployment*: contracts come after those they are built with; the file says
  what is on chain; nothing recorded is lost; repeated runs finish the work.
- *Verification*: what is reported as verified is; what can be verified is in
  the end.
- *Publishing*: what is published fits together at every moment.

## 2. Modules

| Module | Models | Uses |
|---|---|---|
| `P2PLendingVault` | one vault's storage and the effect of each of its calls, as operators on a record | |
| `Escrow` | what a vault promises: tokens are held by a wallet, locked, or owed to a wallet | |
| `VaultComponent` | a vault with its callers and token: one action per external function | `P2PLendingVault`, refines `Escrow` |
| `LendingMath` | interest, ltv, and the splits of a partial and a full liquidation, with the source's order of rounding | |
| `P2PLendingVaultedBase` | the shared storage, offer and loan checks, payments, collateral, clock and oracle | `LendingMath`, `P2PLendingVault` |
| `LendingAdministration` | the owner's functions, `revoke_offer`, `claim_pending_transfers` | VaultedBase |
| `P2PLendingVaultedRefinance`, `P2PLendingVaultedLiquidation` | the two facets | VaultedBase |
| `P2PLendingVaultedErc20` | the entry points, `Next`, and the properties | both facets, `LendingAdministration` |
| `P2PLendingVaultedClaims` | what README and asserts say and the code does not keep | Erc20 |
| `P2PLendingSecuritizeBase` | a vault per loan, redemptions, results; everything else from VaultedBase | VaultedBase |
| `P2PLendingSecuritizeRefinance`, `P2PLendingSecuritizeLiquidation` | the facets: replacement, sale and extension; liquidations and `transfer_loan` | SecuritizeBase |
| `P2PLendingSecuritizeErc20` | the entry points, issuer and signer, `Next`, and the properties | both facets, `LendingAdministration` |
| `TopologicalSort` | the depth-first sort, over any order of nodes and dependents | |
| `ContractConfigs` | the contract classes: what each is deployed after, takes in its constructor and is configured with | |
| `Dependency` | the sets of contracts and of transactions of a deployment, and their order | both above |
| `ReleaseBase` | file, chain, explorer, tables, and the memory of the running script | `Dependency` |
| `Deployment`, `Verification`, `Publishing` | the three scripts | `ReleaseBase` |
| `Release` | the scripts one after the other, crashes, edits; fairness and the properties | the three |
| `MCVault`, `MCVaulted`, `MCSecuritize`, `MCRelease` | instances for TLC | |
| `P2PLendingVaultProofs` | sums over finite sets, and what the operations on a vault keep | `P2PLendingVault` |
| `VaultComponentProofs` | the proofs about a vault alone | `P2PLendingVaultProofs` |
| `P2PLendingVaultedBaseProofs` | the arithmetic of loans and liquidations, payments, pending transfers | `P2PLendingVaultProofs` |
| `P2PLendingVaultedProofs`, `P2PLendingVaultedBooksProofs` | the vaulted contract: types, terms and funds; then liquidity, collateral and what rests on them | VaultedBaseProofs |
| `P2PLendingSecuritizeProofs`, `P2PLendingSecuritizeCustodyProofs` | the Securitize contract: types, funds and vaults; then what is in each vault | VaultedBaseProofs |
| `ReleaseProofs` | the scripts | `Release` |

### State and actions against the code: the lending contracts

Each external function is one action, because a transaction is atomic and a
revert undoes it: the asserts are the guard, the assignments the primed
variables. The variables of the vaulted contract:

- `loans`: the source keeps the hash of each loan by its id, and the caller
  presents the loan; the model keeps the set of loans whose hash is stored.
  `Stored` replaces whatever loan has the same id (borrower, lender, start time,
  offer), as the assignment to the mapping does.
- `commited_liquidity`, `revoked_offers`, `config`: the mappings and variables
  of the same names. A key of the first is `<<lender, tracing_id>>`, not a hash.
- `funds`: the contract's payment tokens (`cash`) and `pending_transfers`.
- `vaults`: each borrower's vault. `VaultAddress` is the CREATE2 address.
- `rate`, `now`: the oracle's answer and `block.timestamp`. `rate.num = 0` is an
  answer that is not positive.
- `drifted`, and `agreed_until` in a loan: history, read by no guard. The first
  is the liquidity keys a liquidation has touched. The second is the time up to
  which the borrower accepted that the loan cannot default: set when the
  borrower creates or refinances, unchanged when a lender sells.

`refused` is the set of transfers the token refuses in a transaction; it is a
parameter of every action that sends. A `transferFrom` that fails reverts, and
so needs no state. Replacement of the facets is a guard: when `refinance_addr`
or `liquidation_addr` is another contract, the facet's actions are disabled, for
nothing is known of that contract.

The administration functions are the same text in both contracts; their map
cites the vaulted one.

The Securitize contract has the same variables, except that `vaults` is indexed
by `<<borrower, vault_id>>`, which stands for the address CREATE2 computes from
that pair, and three more:

- `vault_count`: the mapping of that name;
- `proceeds`: the payment tokens each vault holds;
- `results`: the results that were signed. `SignRedeemResult` is the signer's
  step, `IssuerReturns` the issuer's; both are outside the code, and modelled as
  it relies on them (see Assumptions below). `Concluding(loan)` are the
  results `_is_loan_redeem_concluded` accepts for a loan.

A loan's `returned` is history: the issuer has sent back what it redeemed.

Assumptions about the parties: the issuer sends what it owes once, after it has the collateral, and
never pays for nothing; the signer signs what the vault holds at that time; a
swap delivers what it quotes; nobody sends payment tokens to a vault directly.
The first three are what the protocol trusts these parties with. Without the
last, `ResultsStayTrue` could fail through a gift, which hurts its giver only.

Fields that no operation reads after it stored them (`initial_amount`, the fee
amounts of the origination, token and oracle addresses) are left out.

### State and actions against the code: the release scripts

- `catalog`: one configuration: its environment and explorer, its entries
  (scope, class, the properties that name other contracts), and what operator
  and developers do with it. Properties with other values (fees, wallets,
  names) are left out: they decide nothing.
- `file`: for each key the address, ABI key and `properties_addresses` that
  `_save_state` writes. `chain`: for each key the contracts ever deployed for it,
  with what they point to; the n-th has the address `<<key, n>>`. `explorer`:
  what became of each submission. `abis`, `configs`: the published tables.
- `source`: the build of each class. An ABI key and a bytecode are that build.
- The variables of the script are Python's: the context (`contract`,
  `abi_key`), `contracts_to_deploy`, `txs` and `pending` (the configuration
  transactions and the calls of the current one), `todo`, `job` (attempts at
  polling), `failed`, and the four of the sort. `Forget` empties them when the
  script ends.
- `phase` is where the script is. Each transaction, request, table item and
  each `_save_state` is a step; reading the file, planning and hashing are
  one step with what follows, as nothing else can happen to their inputs.

`Crash` ends a script anywhere. `DryRun` is the run with `dryrun=True`, and also
a crash before anything was sent. `ExecuteFails` is an exception that `execute`
prints, `RequestFails` one of a request to the explorer. A deployment whose
transaction fails ends like a crash. `CannotEncode` is a constructor argument
without an address.

## 3. Runs

In the lending contracts amounts are small because every rounding of the code
is kept: `BPS = 10` and `YEAR = 1` make one unit of principal, fee or interest
the remainder that 1e-6 tokens are in a deployment. With principals of 10 and
12, collateral of 18 to 22 and `liquidation_ltv = 7`, the rate 3/4 makes the
interest alone carry a loan over the threshold and a partial liquidation heals
it; at 1/2 it does not and the full liquidation of a live loan applies; at 0 the
oracle does not answer. `MaxTime` is the last value of the clock. In the larger
instances the offers expire early: a loan created later is the same loan with
less clock left.

| Run | Instance | States | Shows |
|---|---|---|---|
| `vault` | 2 wallets, 2 callers, 3 tokens | 988 | a vault's pending amounts add up to their total and are covered; the vault implements `Escrow` |
| `life` | 1 borrower, 1 lender, 1 keeper, 3 rates, steps of collateral in and out, transfers of collateral that fail, `MaxTime` 4 | 80 thousand | from creation to any end: no tokens are lost, vaults hold what loans need, interest is defined, no call makes a loan liquidatable, the loan can be closed |
| `refinance` | 2 lenders, 3 offers (shorter and longer, callable and not, with and without fee), 2 rates | 71 thousand | chains of refinancings and sales keep money, liquidity, terms and single use |
| `shared` | 2 borrowers, 1 lender, 2 open offers with one tracing id: a minimum collateral in place of a maximum ltv, and a fixed principal | 18 thousand | what is committed is what is lent, and loans of different borrowers and offers stay within the limits together |
| `transfer` | 2 borrowers, 2 vaults, an agent, failing transfers of collateral to a borrower | 66 thousand | each vault covers its borrower's loans after transfers; loans can be closed |
| `admin` | owner and an outsider, an authorised proxy, fees inside and above the limits, failing payments | 31 thousand | limits hold; pending payments survive changes of wallet and fee |
| `securitize` | 2 borrowers with 2 vaults each, 2 lenders, an open offer without and one for `b2` with a `liquidation_ltv`, 2 rates, an agent, an issuer that may be refused collateral | 222 thousand | a vault per loan; results stay true through extension, sale, replacement, transfer, healing and liquidation; nothing stays behind; the loan can be closed unless its result is awaited |
| `release` | 13 configurations, see below | 323 thousand | section 1's promises of deployment, verification and publishing, with crashes, failures, edits and late answers; the liveness properties |
| `overwrite`, `stranded`, `overlent`, `sale` | the smallest instances that show each | up to a few hundred | section 6 |

The passing runs between them fire every action and disjunct. Two loans of one
borrower (`transfer`, `securitize`), two loans of one offer (`shared`) and chains of two
replacements with calls and price changes between them (`refinance`) are in their
state spaces; a third borrower or lender would add no new kind of
interaction, as every action names at most two of each. `FundsAccounted`,
`CollateralBacked`, `NothingLeftBehind`, `ResultsStayTrue` and
`LiquidityRespected` are equations, not bounds: one unit
rounded the wrong way violates them at any scale.

**`securitize`.** Its bounds: `MaxVaults` 2 for each borrower, which is two
creations or transfers; `MaxMaturity` 3, two ticks past the loans' own;
`CollateralSteps` {2} for what is added, removed, bought and kept out of a
redemption, up to `MaxCollateral` 20; `Returns`: more than the debt, less with half the
collateral back, or nothing; `PurchaseBound`: one purchase waits at a time, in the vault of
the borrower's next loan, where it meets every way to take that vault. The
owner sets the redemption wallet; who the owner is changes in `admin`
only, where the same functions are checked. Each offer has liquidity for one
loan at a time. `MaxTime` 3 lets a loan run, be extended, mature and be liquidated
late.

**`release`.** The configurations are cut from those in `configs/`: a market of
each of the four classes that only differ in what they are deployed after; a
registrar and its connector; a market on a new token and oracle (`NewMarket`,
in the environment `prod`, whose chain has no explorer here, so that the
hand-over to verification raises); a live market whose facets, vault and
connector are replaced (`LiveMarket`); three in the local environment, where
every contract is loaded without its address: everything new
(`LocalMarket`), a market next to a listed token that no script deploys
(`LocalListedToken`), and a market on a token of `tokens.json` (`LocalToken`); a Securitize market with its proxy; and an oracle under
Etherscan and under Blockscout. Bounds: 3 contracts for a key (`MaxVersions`), one deployment that
asks for something (`MaxRequests`; those that ask for nothing are not limited),
one crash, one failed transaction or request, one change of the sources, 2
attempts at a poll. One of each suffices for the hazards of section 1: each is
about what *one* failure leaves behind for the next runs, which go on without
limit, and a crash can follow a failure in the same script.

`CHECK_DEADLOCK FALSE` is set for the lending contracts because their instances
end: the clock stops at `MaxTime` and the contracts themselves have nothing that
must happen next. The `release` run checks for deadlock: an operator can always
start another script.

**Fairness.** The lending contracts assume none: they never act on their own
account, and nothing in the code obliges a borrower, lender or keeper to call.
What can be said without it is said as a state property: `LoansCanBeClosed`
requires that in every reachable state the guards of the calls that close a
loan hold for those who may make them, rather than that someone makes them.

The scripts do act on their own account. `ScriptGoesOn` says that a running
script takes its next step, until it ends or dies: it is the weak fairness of
`ScriptStep` over the script's variables, written without `ENABLED` because some step is
always enabled while a script runs. `ExplorerGoesOn` is weak fairness of the
explorer's answer to each contract submitted: explorers answer in the end, and
the scripts' polls rest on that. Nothing is assumed of operator or developers:
`EventuallyRecorded` and `EventuallyVerified` say what repeated runs achieve *if*
the operator goes on running them, after a finite number of crashes and
failures. In the local environment each
deployment starts over, and `MaxVersions` ends them; so `EventuallyRecorded` says
of itself that it is about the other environments.

### The properties

| Property | States |
|---|---|
| `PendingCovered` | per-wallet pending amounts sum to the total the vault's guard uses, within the balance |
| `ImplementsEscrow` | every step of a vault is a step of the escrow: lock, release, claim or top-up |
| `AccrualWithinTerm` | interest starts in the past and before maturity or the end of the call window |
| `TermsSound` | collateral is positive, ltv thresholds are ordered, maturity and call, made or to be made, leave the agreed time |
| `BorrowerTermKept` | no loan defaults at or before the time its borrower accepted, whatever lenders do with it |
| `CollateralBacked` | a vault's balance less what it owes equals the collateral of its borrower's loans |
| `FundsAccounted` | the contract's payment tokens equal the pending payments |
| `LiquidityRespected` | committed liquidity equals the principal of live loans and is within an offer, for keys no liquidation touched |
| `NamedOfferUsedOnce` | an offer that names its borrower backs one loan and is revoked by it |
| `OperationsKeepLoansSafe` | no call turns a safe loan, or none, into one that can be liquidated at once |
| `LoansCanBeClosed` | a live loan can be repaid even without an oracle, a defaulted one liquidated while it answers; Securitize: likewise for every result that could be presented |
| `VaultsNotShared` | no two loans have one vault, and none has a vault that a later loan would take |
| `CollateralInItsVault` | a loan's vault holds its collateral, or what its borrower kept out of the redemption and what came back |
| `NothingLeftBehind` | a vault no loan uses holds only the collateral it owes to wallets, and no payment tokens |
| `ResultsStayTrue` | a result that concludes a redemption says exactly what the vault holds, until it is used |
| `SortedOrder` | the sort puts each contract before those deployed after it, in whatever order it walks its sets |
| `DependenciesFirst` | no contract still to be deployed depends on one behind it |
| `RecordedArguments` | the constructor arguments in the file are those the contract on chain was built with |
| `SettledLinksAgree` | whenever no configuration transactions run, contracts point to what the file says they point to, unless the transaction for it failed or was lost |
| `NothingForgotten` | a contract that was deployed is in the file, unless a deployment ended before its first save (`Retained` contracts) |
| `RecordsOnlyMoveForward` | no script loses a recorded address or goes back to an earlier one (`Retained` contracts) |
| `ReportIsTrue` | `verify.py` reports success only if the explorer verified every contract of its scopes |
| `PublishedAbisAvailable` | a published configuration gives the ABI of the build at its address, published unless the sources had changed from that build when it was compiled; the ABIs of the contracts it names are published |
| `PublishedArguments` | a published configuration never mixes two deployments |
| `ScriptsEnd` | every script ends, whatever fails |
| `EventuallyRecorded` | outside the local environment, deployments repeated for ever record every contract |
| `EventuallyVerified` | checks repeated for ever get every contract verified whose sources did not change |

`Retained` are the contracts whose addresses the scripts keep: all but the listed ones of
a local environment that no script deploys (section 6). What is published of a
link that can be set is what the file says, which is read in phases
`SettledLinksAgree` covers; `PublishedArguments` leaves those links out because they
change on chain after a configuration is published.

Each has a mutated definition in its module (`Faulty...`), in the form a
plausible mistake would take, under which the run finds it violated.

## 4. Proofs

`tlapm` proves the following for every value of the constants.

| Theorem | Of | Statement |
|---|---|---|
| `VaultTypeCorrect` | `VaultComponent` | no counter underflows |
| `VaultCoversPending` | `VaultComponent` | `PendingCovered` |
| `VaultIsEscrow` | `VaultComponent` | the vault implements `Escrow` |
| `PartialLiquidationSafe` | `LendingMath` | what is written off is below the debt and what is taken is below the collateral |
| `FullLiquidationSafe` | `LendingMath` | fee and debt share are within the collateral, the protocol's fee within the payment |
| `TypeCorrect` | vaulted contract | every state has its type, so every subtraction that the code relies on is non-negative |
| `AccrualIsWithinTerm` | vaulted contract | `AccrualWithinTerm` |
| `TermsAreSound` | vaulted contract | `TermsSound` |
| `BorrowersTermIsKept` | vaulted contract | `BorrowerTermKept` |
| `NamedOffersUsedOnce` | vaulted contract | `NamedOfferUsedOnce` |
| `VaultsStaySolvent` | vaulted contract | every vault's pending amounts sum to its total, within its balance |
| `FundsAreAccounted` | vaulted contract | `FundsAccounted` |
| `OperationsAreSafe` | vaulted contract | `OperationsKeepLoansSafe` |
| `LiquidityIsRespected` | vaulted contract | `LiquidityRespected`, while `TransferIdFree` |
| `CollateralIsBacked` | vaulted contract | `CollateralBacked`, while `TransferIdFree` and `TransferArrives` |
| `LoansStayClosable` | vaulted contract | `LoansCanBeClosed`, under the same two conditions |
| `RedeemableTypeCorrect` | Securitize contract | `TypeOK`: no amount is negative |
| `RedemptionsAreAccounted` | Securitize contract | `FundsAccounted` |
| `RedeemableVaultsStaySolvent` | Securitize contract | as `VaultsStaySolvent` |
| `VaultsAreNotShared` | Securitize contract | `VaultsNotShared` |
| `CollateralIsInItsVault` | Securitize contract | `CollateralInItsVault`, if no vault is refused collateral |
| `ResultsRemainTrue` | Securitize contract | `ResultsStayTrue`, if no vault is refused collateral |
| `RedeemableLoansStayClosable` | Securitize contract | `LoansCanBeClosed`, if no vault is refused collateral |
| `NoVaultKeepsAnything` | Securitize contract | `NothingLeftBehind`, if no vault is refused collateral and while `TransferIdFree` |
| `ReleaseInvariant` | release | the sort's, the poll's and the check's invariants below |
| `SortedOrderHolds` | release | `SortedOrder`, for any acyclic configurations |
| `ReportIsTrueHolds` | release | `ReportIsTrue`, for any configurations, crashes, failures and attempts |
| `ReleaseTypeCorrect` | release | `TypeOK` |
| `DependenciesComeFirst` | release | `DependenciesFirst` |
| `ArgumentsAreRecorded` | release | `RecordedArguments` |
| `LinksAreSettled` | release | `SettledLinksAgree` |
| `NothingIsForgotten` | release | `NothingForgotten` |
| `RecordsMoveForward` | release | `RecordsOnlyMoveForward` |
| `AbisArePublished` | release | `PublishedAbisAvailable` |
| `PublishedArgumentsAgree` | release | `PublishedArguments` |

`TransferIdFree` and `TransferArrives` say of a step what `transfer_loan` does not
assert: that the loan's new id is free, and that the token did not refuse the
withdrawal of the collateral. The runs `overwrite` and `stranded` show that without
them the theorems are false (section 6), so `LiquidityIsRespected`,
`CollateralIsBacked`, `LoansStayClosable` and `NoVaultKeepsAnything` are
about the behaviours in which the missing assert would not have failed. Every
other call, by anyone and in any order, is unrestricted in them.

**Sums.** The sums of the properties are folds, which choose one element at a time. That
they do not depend on the choices, and what they become when one value changes or
one element is added or dropped, follows from induction over finite
subsets. The library's induction rule takes an operator and cannot be used;
`FiniteInduction` gets the same from `WFMin`: if the claim failed for a subset there would be
a minimal one for which it fails. `SumFunction` is then used through its laws
only. A vault is solvent with `Summed`, the per-wallet amounts adding up to its
total, as part of the invariant, and `Unowed(funds) = 0` is `FundsAccounted` as a
quantity each payment moves: what a call takes in, less what it pays out or makes
pending, is zero for each call with its own netting.

**The vaulted contract.** None of the invariants is inductive alone. A partial
liquidation keeps the type only if what it claims is within the collateral;
that is `PartialLiquidationSafe`, which needs the initial ltv below the
liquidation ltv, non-zero collateral and a positive rate, so these are part of
the invariant. A sale keeps the borrower's term because its repayment time is
not before the old one's, and that time is not before the agreed one only while
`SoundLoan` relates maturity, call time, window and eligibility to it; the case
of a loan not yet called needs that a call in future also leaves the window,
which is the last conjunct of `TermsSound`. Interest at liquidation needs that a partial
liquidation happens before default. An offer that names its borrower is in
`revoked_offers` from its first loan on, and that is what rules out a second.
`P2PLendingVaultedProofs!Inv` is the conjunction; there is one lemma per action
that it preserves it, and the theorems follow from it. For the vault the
invariant is `TypeOK`, `Summed` and `total <= balance`: the refinement needs it
to know that `Unclaimed` is a natural number.

**Its books.** Liquidity and collateral are compared with sums over the loans,
and every operation adds one loan, drops one, or puts one in the place of
another. `Booked` and `Backed` say what the books must be of any set of loans,
so each operation needs only the difference one loan makes (`OneMore`) and what
the call did to the counter and to the vault. A step that stores a loan under
the id of another drops a second loan from the sums, so ids must be unique
(`IdsUnique`); the asserts "loan already exists" keep that, except in a transfer.
`LoansStayClosable` then follows from the exact contents of each vault: it holds
the loan's collateral besides what it owes, so the withdrawal that closes the
loan succeeds whatever else is stored, and the vault is deployed because an
account that is not holds nothing (`Opened`).

**Safe operations.** `OperationsAreSafe` is about one step, and needs `Inv` in the
state before it. A loan that is created, refinanced or sold satisfies its own
offer's limits at the rate of the moment (`AcceptedIsSafe`), so the comparison of
its thresholds with the old loan's does not matter; what is left after removing
collateral is at most at the initial ltv, which is below the liquidation ltv; more
collateral lowers the ltv in spite of the rounding; and a call, a transfer or a
partial liquidation leaves a loan liquidatable only if it was.

**The amounts of the Securitize contract.** `Sound` is the analogue of `Inv`, over
loans that can be redeemed. The steps it adds are the closing calls that draw on
what the issuer paid into the vault. `SplitSound` says that a full liquidation
divides that payment to the last unit between liquidator, lender, protocol and
borrower, and hands out no more collateral than there is, whether the payment is
above, at or below the debt and whatever the rounding of the fee. `Sound` has
no hypothesis about refused transfers or ids: a refused transfer to a vault
becomes pending like any other.

**The vaults of the Securitize contract.** A loan that takes the next vault of
its borrower shares it with no one only while the count of the borrower is
above the vaults in use, so the count is part of the invariant. A loan that
takes the place of another stays with its borrower and vault (`VaultKept`), and
a creation or a transfer takes the next vault (`NextVaultTaken`).

What is in a vault depends on how far its loan's redemption has come: all of the
collateral, the residual, or at least the residual once the issuer has
returned. `Custody` says so, and that a result for the vault names exactly what
is there; `CustodyInv` has it for the vault of every loan. A loan may take a new
vault, so the invariant also needs that a vault which no loan has had is empty
and that no result names it (`Unused`); because vaults are not shared
(`VaultInv`), an operation on one loan leaves the custody of the others alone.
Balances and amounts need only be integers. The theorems assume
`NoVaultRefused`: a vault cannot claim a refused transfer, so after a
`transfer_loan` to such a vault the collateral would stay pending in the old one.

That a vault no loan uses is vacant (`Vacated`) is inductive only with
custody: a closing call, or a transfer, takes out exactly what `Custody` says is there.
A loan that vanished because another took its id would leave a full vault behind,
which is the other hypothesis. A redeemed loan can be closed because each result that
concludes its redemption states what the vault holds, so its claims never exceed it.

The arithmetic theorems rest on a few lemmas about `\div` (`DivBounds`, `DivLt`,
`DivLe`) and on products, each in one place: the main step for a partial liquidation is
that the debt not written off is still covered, at the initial ltv, by the
collateral that is left, after three roundings.

**The sort.** That the finished `stack` is ordered is not inductive: what a node
needs when the search leaves it is that all its dependents are in the stack
already. `SortInv` says so for every node of the stack, and says why: `calls` is a
path along `dependencies`, so in an acyclic graph a dependent that has been
entered and is not in the stack cannot be among the calls. Acyclic is stated by
a rank that grows along `dependencies`; `CatalogsAcyclic` assumes such a rank for
what the classes may name, and `DependenciesAcyclic` carries it over to the
graph of any context.

**The report.** A successful report needs, while `verify.py` runs, that every
contract of its scopes is still in `todo`, has failed, or is verified
(`Checking`); that the script's addresses are the file's, which no other step
changes under it; and that a poll is that of the head of `todo` (`Polling`). A
verified address stays so, because the explorer answers pending ones only and
nothing verified is submitted again.

**What a deployment records.** `RecordsOK` relates four copies of the same facts: the
chain, the script's memory (`ContextAgrees`), the file (`FileAgrees`), and what the
script has still to do. Its core is `AheadOK`: what is still to be deployed comes
in an order its dependencies allow, and *nothing that was deployed, or left as it
was, is deployed after any of it*. The sort gives the order, and
`DeploymentSet` takes in everything that is deployed after a contract it
takes, which gives the second part. So the properties of a contract that is being
deployed are final, and it is recorded with the arguments it was built with
(`Built`). What it will only be *set* may still change, and agrees with the
chain but for the transactions that are open: planned (`txs`), under way
(`pending`), or failed or lost with a script (`unsettled`); that is `Settled`. `PendingOK`
says which calls can be under way together, so that each one leaves as
open what the ones behind it will settle. `Newest` holds unless a deployment ended
before its first save. A local deployment has no address for what no script
deploys (`Blanked`), whatever the file says; what it deploys names none of those
(`Complete`), as it could not be encoded, so `Built` and `Settled` hold in the
context as well as in the file (`OutsideBlanked`). `DependenciesFirst` compares with the dependencies as they are
*after* each deployment: contracts that get an address only ever lose
dependencies on what is still ahead.

That filtering the sorted sequence keeps its order is a fact about a recursive
fold; the definition `Selected` says the same as `SelectSeq` with the sequence of the
indices that are kept, which the provers can reason about.

**What is published.** `PublishedOK` needs that the ABI key next to an address, in the
file and in the context of a deployment, is that of the build deployed there
(`BuildsMatch`), that no configuration is put before all
ABIs are (`AbisFirst`), and that a published address has a contract on the chain
(`ConfigsExist`). The build and the arguments of a contract that exists do not change, apart
from what it can be set, and what it authorised it goes on authorising (`Kept`);
so what was true when it was published remains so under later deployments.

**Assumptions.** `MathAssumption`: BPS and the year are positive.
`WalletsAssumption`: there are finitely many addresses (2^160), so that the
pending amounts have a sum.
`BaseAssumption`: the types of the constants. `VaultAddressAssumption`: two
borrowers have different vaults and a vault is not a borrower.
`LimitsAssumption`, `ConfigAssumption`: the constructor's fees are within the
limits that the setters enforce, and the limit of the settlement fee within
BPS; the constructor does not check this, and a deployment that breaks it makes
settlements revert. `AdminAssumption`: the types of what the owner may set.
`SupplyAssumption`, `CallerAssumption`: the vault's. `SecuritizeAssumption`: a
vault's address is no borrower's. `NoVaultRefused`, for the custody theorems only:
no transfer of collateral to a vault fails. `ReleaseAssumption`, `CatalogsAcyclic`:
configurations are finite, and have no cycle. `CatalogsConfigured`: `None` is not an address or the key of an ABI; a property that
names a contract names an entry; only entries of the scopes that are stored are deployed; and what a market
is set to, or a proxy is authorised by, is deployed too. The code checks
neither of the last two, and every configuration in `configs/` satisfies both.
TLC evaluates every assumption on the instances, `NoVaultRefused` excepted, which is
a hypothesis of its theorems; the `securitize` run has it.

**Model-checked only.** Every safety property that a passing run checks has a
theorem above. Left to TLC alone are:

- `ScriptsEnd`, `EventuallyRecorded` and `EventuallyVerified`: liveness under fairness
  is out of the provers' reach.
- The four runs of section 6, which are counterexamples.

`LoansCanBeClosed` states the guards of the closing calls in place of their
`ENABLED`, so that it is a state property both TLC and the provers can treat.

## 5. What is not modelled

- Signatures: an offer in `OfferIds` or an attestation in `Attestations` is one
  that verifies, a result in `results` one that its `signer` signed. Offers for
  other tokens or oracles are left out: they revert.
- Width of integers: amounts are natural numbers. The value 2^256 - 1 that
  `_compute_partial_liquidation` returns for a loan that cannot be healed is
  modelled (`MaxUint256`, above any amount of the instances); the overflow of
  intermediate products, which reverts, is not.
- Views, events and return values.
- Tokens are assumed not to call back, and to move exactly the amount; the
  README of the protocol assumes standard tokens. Direct transfers of
  collateral to a vault are in the `vault` run only.
- The payers' balances and allowances: a `transferFrom` that fails reverts.
- A vault registrar that reverts: creation of the vault then reverts with it.
- `P2PLendingVaultSecuritize.redeem`: the lending contract redeems by
  `withdraw` to the redemption wallet and never calls it.
- Midas and Profitr vaults, the registrar connector, the flash-loan proxies and
  the KYC validator's own state: planned (section 7).
- Of the scripts: `GenericContract`, `MinimalProxy`, `check_owner` and
  `check_different`, which no configuration and no class uses; `deploy_all`,
  which reads `self.context.contract`, an attribute that does not exist
  (`deployment.py:171`); a process killed while it writes the file, which is
  truncated first (`deployment.py:79`); logging, the environment's variables and
  the format of ABIs and of compiler input.
- `verify.py` reads the scopes `common` and `p2p`: a proxy is verified at its
  deployment or never. `ReportIsTrue` and `EventuallyVerified` are about what it
  reads.
- `ape_console_extras.py`, `build_interfaces.py`, `contract_sizes.py` and
  `get_tokens.py` have no state: they call, print, or write what follows from the sources.

`KNOWN_ISSUES.md` is consistent with the models. KI-01: the compensation of a sale is
the greater of fee and extra interest (`MaxInterestDelta` and
`ReplaceLenderFunds`). KI-02: the formula's denominator stays positive, as every
path that creates a loan checks. KI-03: after a transfer the results signed for
the old vault no longer conclude the redemption, and a new one does;
`NothingLeftBehind` shows that nothing stays in the old vault. KI-04: a redemption with
the full collateral as residual is among those of the `securitize` run; the issuer
then returns nothing, and it ends with a signed result of nothing.

## 6. Where code and documents disagree

- **`overwrite`.** `create_loan`, `replace_loan` and `replace_loan_lender` assert
  "loan already exists" before they store a loan under a new id.
  `transfer_loan` (`P2PLendingVaultedErc20.vy:1154`) does not. Two borrowers that
  take one open offer in the same block have ids that differ in the borrower
  only; a transfer from one to the other replaces the other's loan.
- **`stranded`.** `transfer_loan` moves the collateral with `Vault.withdraw`, which
  succeeds when the token refuses the transfer. The amount is then pending in the
  old vault for the new vault's address, and a vault calls nothing: the loan goes
  on with no collateral in its vault, against README.md:195.
- **`overlent`.** A liquidation by a third party returns principal *and interest*
  to the committed liquidity, which README.md:143 says tracks principal only. If
  another loan of the offer is live, the next one takes the total over
  `available_liquidity` (README.md:150). `LiquidityRespected` is therefore
  stated for keys that no liquidation has touched.
- **`sale`.** README.md:191 says that the ltv thresholds are not worse after a sale.
  A liquidation ltv of 0 means that the loan cannot be liquidated for its ltv,
  and the comparison `new >= old` accepts any threshold in its place.

The Securitize version has the same code at three of these places: its
`transfer_loan` lacks the assert
(`P2PLendingSecuritizeLiquidation.vy:447`) and moves with `withdraw` (`:451`),
and its sale compares the thresholds in the same way. The `securitize` run keeps to
instances in which they do not arise (each offer has liquidity for one loan at
a time, and no transfer to a vault is refused), so that it can show the rest.

Three more observations, for which there is no counterexample run:

- The connector is an argument of a market's constructor but not a dependency of
  its deployment (`contracts.py:278`). When both are new, as in a local
  deployment, the order of a Python set decides: in some the script ends with an
  argument that cannot be encoded. The `release` run has this in `LocalMarket`
  (`CannotEncode`) with nothing recorded, where README.md:441 says that the
  configuration file is populated with all addresses; a later deployment starts
  over.
- A local deployment clears the address of *every* contract it loads, tokens
  and listed externals too (`deployment.py:125-128`), and nothing deploys those again. A local
  market whose constructor takes a token can therefore not be
  encoded (`LocalToken` in the `release` run), and the address of a listed external contract is
  written to the file as null (`deployment.py:67`, `LocalListedToken`):
  `RecordsOnlyMoveForward` is false of it, and stated for `Retained` contracts.
- A redeemed loan that has not matured is liquidatable if its debt is not covered
  by what came back (`P2PLendingSecuritizeLiquidation.vy:184-195`), for which the code computes
  an ltv; with a small open debt the division rounds to 0, and the guard for a
  `liquidation_ltv` treats the cases differently: a small open debt is liquidatable
  where a larger one is not.

## 7. Plan

Done: the vault and its escrow; the arithmetic; the vaulted contract with both
facets, its runs and claims; the Securitize contract with its facets and its
vault; the release scripts with crashes, failures and liveness; and a proof of
every safety property that a passing run checks, for all of these.

Next, most important first:

1. *An abstract loan book*: a loan is live with a debt and a collateral, or is
   closed with both settled; the vaulted and Securitize contracts shown to
   implement it by dropping offers, fees and vaults, the steps mapped one by one
   with the invariants of section 4.
2. *KYC validator and registrar connector*: change of validator and owner,
   authorisation and signatures in the order of calls, with vault creation.
3. *Midas and Profitr vaults*, where they differ from the base vault.
4. *Proxies*: a flash loan as one transaction made of several calls.
5. *Width*: a module of the 256-bit products over scaled-down words, with the
   ranges of amounts and prices for which no ltv overflows.
